----------------------------- MODULE FileStore -----------------------------
(***************************************************************************)
(* FileStore (connector-secrets, file.rs and file/prepared.rs): the secret *)
(* store kept in one file beside one fixed stage file.                     *)
(*                                                                         *)
(* Every call holds the store's mutexes from its first read to its answer, *)
(* so calls do not interleave with each other.  What interleaves with a    *)
(* call is the machine: a process crash, a power loss, or an I/O error     *)
(* between any two of its file-system steps.  Those steps are the actions  *)
(* here: create and flush a temporary, rename it over its destination,     *)
(* sync the directory; remove the stage, sync the directory.               *)
(*                                                                         *)
(* Files are atomic (a temporary is flushed before it is renamed), so a    *)
(* file is the image it holds.  disk is what the file system answers now;  *)
(* durable is what it would answer after a power loss.                     *)
(***************************************************************************)
EXTENDS SecretTransaction

CONSTANTS
  NoFile,      \* the path names no file
  Nothing,     \* no value: no open store, no call in progress
  Kills,       \* whether the process may be killed in the middle of a call
  Faults,      \* the I/O errors that may happen, a subset of FaultKinds
  PowerLosses, \* whether the machine may lose power
  Reconciles   \* whether the owner resolves an I/O error before its next call

\* A temporary that cannot be written or renamed; a destination that does not
\* pass its check after the rename; a directory sync that fails where the code
\* requires it, and where it takes it as best effort; a stage not removed; a
\* leftover temporary that open does not find or cannot remove.
FaultKinds == {"write", "revalidate", "sync", "quietsync", "remove", "reap"}

ASSUME FaultsAssumption ==
  /\ Faults \subseteq FaultKinds
  /\ Kills \in BOOLEAN /\ PowerLosses \in BOOLEAN /\ Reconciles \in BOOLEAN

VARIABLES
  disk,      \* the live file and the stage file, as reads see them
  durable,   \* the same two, as a power loss would leave them
  temps,     \* destinations of which an ended write left a temporary file
  mem,       \* the open store's entries and transactions, or Nothing
  call,      \* the call in progress and its next step, or Nothing
  heard,     \* the outcomes answered to the owner, per transaction
  uncertain  \* the call whose I/O error the owner has not resolved, or Nothing

vars == <<disk, durable, temps, mem, call, heard, uncertain>>

-----------------------------------------------------------------------------
(* File images and the in-memory view *)

\* A v1 file carries no ledger; reading it yields the default transactions.
V1(e) == [v2 |-> FALSE, fence |-> 0, ledger |-> EmptyLedger, entries |-> e]
V2(fence, ledger, e) == [v2 |-> TRUE, fence |-> fence, ledger |-> ledger, entries |-> e]

NoCandidate == [id |-> Nothing, digest |-> NoDigest, entries |-> NoEntries]

\* What reading an image gives the store, with the candidate still to be found.
Loaded(image) == [image |-> image, candidate |-> NoCandidate]

\* The committed-next-image of a prepared view: what the stage file holds.
StageOf(view) ==
  LET c == view.candidate
  IN  V2(view.image.fence,
         [view.image.ledger EXCEPT ![c.id] = Committed(c.digest)],
         c.entries)

Slot(image) == PreparedIds(image.ledger)

ImageFits(image) ==
  IF image.v2 THEN EncodingFits(image.entries, image.ledger) ELSE CandidateFits(image.entries)

-----------------------------------------------------------------------------
(* Recovery of the stage file, at open and in state *)

\* Mutant of CleanupOnly: recovery does not expect a stage its abort left.
CleanupUnlessAborted(live, stage) ==
  LET differing == {id \in Id : stage.ledger[id] # live.ledger[id]}
  IN  differing = {} \/ \E id \in Id : differing = {id} /\ live.ledger[id] = Unseen

\* A stage beside a live file with no prepared record is leftover when the two
\* ledgers agree, or differ only in one id that the stage commits and the live
\* file never prepared or has aborted.
CleanupOnly(live, stage) ==
  LET differing == {id \in Id : stage.ledger[id] # live.ledger[id]}
  IN  \/ differing = {}
      \/ \E id \in Id : /\ differing = {id}
                        /\ stage.ledger[id].state = "committed"
                        /\ live.ledger[id] \in {Unseen, Aborted}

Recovery(live, stage) ==
  IF stage = NoFile THEN IF Slot(live) = {} THEN "none" ELSE "refuse"
  ELSE IF Slot(stage) # {} \/ stage.fence # live.fence THEN "refuse"
  ELSE IF Slot(live) # {}
       THEN IF stage.ledger = [id \in Id |-> IF id \in Slot(live)
                                             THEN Committed(live.ledger[id].digest)
                                             ELSE live.ledger[id]]
            THEN "adopt" ELSE "refuse"
  ELSE IF CleanupOnly(live, stage) THEN "clean" ELSE "refuse"

\* The view recovery ends with.
Recovered(live, stage) ==
  IF Recovery(live, stage) = "adopt"
  THEN LET id == CHOOSE i \in Slot(live) : TRUE
       IN  [image |-> live,
            candidate |-> [id |-> id, digest |-> live.ledger[id].digest,
                           entries |-> stage.entries]]
  ELSE Loaded(live)

\* An absent live file reads as an empty store.
LiveOf(files) == IF files.live = NoFile THEN V1([a \in Addr |-> NoValue]) ELSE files.live

-----------------------------------------------------------------------------
Init ==
  /\ \E live \in {NoFile} \cup {V1(e) : e \in {f \in Entries : CandidateFits(f)}} :
       disk = [live |-> live, stage |-> NoFile]
  /\ durable = disk
  /\ temps = {}
  /\ mem = Nothing
  /\ call = Nothing
  /\ heard = [id \in Id |-> {}]
  /\ uncertain = Nothing

Ready == mem # Nothing /\ call = Nothing

\* An owner that resolves I/O errors makes no other call after a failed
\* transaction call before state or a reopen.  A failed put, delete or apply
\* asks nothing of it.
Invokes == Ready /\ (Reconciles => uncertain \in {Nothing, "mutate"})

\* A call that needs the file system: what it will hold when it has succeeded,
\* the first step, and the outcome it will answer.
Start(op, id, next, step, outcome) ==
  /\ call' = [op |-> op, id |-> id, next |-> next, step |-> step, outcome |-> outcome]
  /\ UNCHANGED <<disk, durable, temps, mem, heard, uncertain>>

\* An answer given from memory.
Answer(id, outcome) ==
  /\ heard' = [heard EXCEPT ![id] = @ \cup {outcome.state}]
  /\ UNCHANGED <<disk, durable, temps, mem, call, uncertain>>

-----------------------------------------------------------------------------
(* Ordinary mutations: put, delete, apply *)

\* Mutant of MutationAllowed: point writes ignore the prepared slot.
MutationAlways == TRUE

MutationAllowed == Slot(mem.image) = {}

Mutate(next) ==
  /\ Invokes
  /\ MutationAllowed
  /\ LET image == [mem.image EXCEPT !.entries = next]
     IN  /\ ImageFits(image)
         /\ Start("mutate", Nothing, [mem EXCEPT !.image = image], "live.create", Unseen)

Put(at, secret) == Mutate([mem.image.entries EXCEPT ![at] = secret])

\* Deleting a missing address writes nothing.
Delete(at) ==
  /\ Ready
  /\ mem.image.entries[at] # NoValue
  /\ Mutate([mem.image.entries EXCEPT ![at] = NoValue])

Apply(batch) ==
  /\ Ready
  /\ ~Refuses(mem.image.entries, batch)
  /\ Mutate(Outcome(mem.image.entries, batch))

-----------------------------------------------------------------------------
(* Prepared transactions *)

Known(id) == mem.image.ledger[id]

\* Mutant of Decide: the view forgets that the file is now a v2 file.
DecideKeepsVersion(id, record, e) ==
  [image |-> [mem.image EXCEPT !.ledger[id] = record, !.entries = e],
   candidate |-> NoCandidate]

\* The view after the ledger line of id, and perhaps the entries, are replaced.
Decide(id, record, e) ==
  [image |-> V2(mem.image.fence, [mem.image.ledger EXCEPT ![id] = record], e),
   candidate |-> NoCandidate]

\* prepare and commit of a known id answer what the store holds, and abort of
\* an aborted one: no step on the file system.
AnswerAgain(id) ==
  /\ Invokes
  /\ ~Retired(mem.image.fence, id)
  /\ Known(id) # Unseen
  /\ Answer(id, Known(id))

\* Mutant of Startable: a tombstone does not stop a later prepare.
StartableAfterAbort(id) ==
  ~Retired(mem.image.fence, id) /\ Slot(mem.image) = {} /\ Known(id) \in {Unseen, Aborted}

Startable(id) ==
  ~Retired(mem.image.fence, id) /\ Slot(mem.image) = {} /\ Known(id) = Unseen

LedgerHasRoom == TerminalCount(mem.image.ledger) < MaxTerminals

Prepare(id, d, batch) ==
  /\ Invokes
  /\ Startable(id)
  /\ LedgerHasRoom
  /\ ~Refuses(mem.image.entries, batch)
  /\ LET candidate == Outcome(mem.image.entries, batch)
         next == [image |-> V2(mem.image.fence,
                               [mem.image.ledger EXCEPT ![id] = Prepared(d)],
                               mem.image.entries),
                  candidate |-> [id |-> id, digest |-> d, entries |-> candidate]]
     IN  /\ TransactionFits(candidate, TerminalCount(mem.image.ledger) + 1)
         /\ ImageFits(next.image)
         /\ ImageFits(StageOf(next))
         /\ Start("prepare", id, next, "stage.create", Prepared(d))

\* What commit asks: that both files still are exactly what the view says.
Committable(id) ==
  /\ Invokes
  /\ ~Retired(mem.image.fence, id)
  /\ Known(id).state = "prepared"
  /\ mem.candidate.id = id
  /\ disk.live = mem.image
  /\ disk.stage = StageOf(mem)

\* commit publishes the stage's bytes.
Commit(id) ==
  /\ Committable(id)
  /\ LET outcome == Committed(mem.candidate.digest)
     IN  Start("commit", id, Decide(id, outcome, mem.candidate.entries),
               "live.create", outcome)

\* Mutant of SlotFreeFor: abort does not look at whose slot it is.
AnySlot(id) == TRUE

\* abort is refused while another transaction is prepared.
SlotFreeFor(id) == Slot(mem.image) \subseteq {id}

\* What abort asks: room for its line, in the ledger and in the file.
Abortable(id) ==
  /\ Invokes
  /\ ~Retired(mem.image.fence, id)
  /\ Known(id).state \in {"unseen", "prepared"}
  /\ SlotFreeFor(id)
  /\ LedgerHasRoom
  /\ ImageFits(Decide(id, Aborted, mem.image.entries).image)

Abort(id) ==
  /\ Abortable(id)
  /\ Start("abort", id, Decide(id, Aborted, mem.image.entries), "live.create", Aborted)

\* A generation at or below the fence is already retired: nothing is written.
Reclaim(g) ==
  /\ Invokes
  /\ Slot(mem.image) = {}
  /\ g > mem.image.fence
  /\ LET next == V2(g, Retain(mem.image.ledger, g), mem.image.entries)
     IN  /\ ImageFits(next)
         /\ Start("reclaim", Nothing, [mem EXCEPT !.image = next], "live.create", Unseen)

-----------------------------------------------------------------------------
(* Reconciliation with the files: state and open *)

\* state answers from the files, after replacing the view with what they hold.
\* A retired id is refused, and an aborted one looks like an unknown one.
StateKnown(id, view) ==
  IF Retired(view.image.fence, id) \/ view.image.ledger[id] = Aborted
  THEN Unseen ELSE view.image.ledger[id]

\* A pair of files that recovery refuses leaves the call failed and nothing
\* changed.
State(id) ==
  /\ Ready
  /\ disk.live # NoFile
  /\ LET view == Recovered(disk.live, disk.stage)
         found == Recovery(disk.live, disk.stage)
         outcome == StateKnown(id, view)
     IN  \/ /\ found \in {"none", "adopt"}
            /\ mem' = view
            /\ heard' = IF outcome = Unseen THEN heard
                        ELSE [heard EXCEPT ![id] = @ \cup {outcome.state}]
            /\ uncertain' = Nothing
            /\ UNCHANGED <<disk, durable, temps, call>>
         \/ found = "clean" /\ Start("state", id, view, "remove", outcome)

\* Open reaps the leftover temporaries of the live file as best effort, after it
\* has succeeded; one of the stage file does not match the pattern it looks for.
Reap ==
  \/ temps' = temps \ {"live"}
  \/ "reap" \in Faults /\ UNCHANGED temps

\* open, with the lease of an earlier process released.
Open ==
  /\ mem = Nothing /\ call = Nothing
  /\ LET view == Recovered(LiveOf(disk), disk.stage)
         found == Recovery(LiveOf(disk), disk.stage)
     IN  \/ /\ found \in {"none", "adopt"}
            /\ disk.live # NoFile
            /\ mem' = view
            /\ Reap
            /\ uncertain' = Nothing
            /\ UNCHANGED <<disk, durable, call, heard>>
         \/ found = "none" /\ disk.live = NoFile
            /\ Start("open", Nothing, view, "live.create", Unseen)
         \/ found = "clean" /\ Start("open", Nothing, view, "remove", Unseen)

-----------------------------------------------------------------------------
(* The steps of a call on the file system *)

Running(step) == call # Nothing /\ call.step = step

StepTo(step) == call' = [call EXCEPT !.step = step]

\* The call answers its outcome and the view becomes what it was to become.  A
\* live file written whole also settles what a failed point write may have left.
Finish ==
  /\ mem' = call.next
  /\ call' = Nothing
  /\ heard' = IF call.outcome = Unseen THEN heard
              ELSE [heard EXCEPT ![call.id] = @ \cup {call.outcome.state}]
  /\ uncertain' = IF call.op \in {"open", "state"} \/ uncertain = "mutate"
                  THEN Nothing ELSE uncertain

\* The call reports an I/O error: an open that fails leaves no store, and any
\* other leaves the view as the call last set it.
Fail ==
  /\ call' = Nothing
  /\ uncertain' = IF call.op = "open" THEN uncertain ELSE call.op
  /\ UNCHANGED <<mem, heard>>

\* Mutant of RequiresSync: only the first file of a transaction is synced.
RequiresSyncOfPrepare == call.op = "prepare"

\* put, delete, apply and the first write of open take a directory sync as
\* best effort; the transaction methods require it.
RequiresSync == call.op \in {"prepare", "commit", "abort", "reclaim"}

\* Mutant of RemovesStage: abort never removes the stage.
RemovesStageOnCommit == call.op = "commit"

\* abort removes the stage only when the view knew the id as prepared.
RemovesStage ==
  \/ call.op = "commit"
  \/ call.op = "abort" /\ Known(call.id).state = "prepared"

Target(file) == IF file = "stage" THEN StageOf(call.next) ELSE call.next.image

\* The temporary of the call in progress: written, and not yet renamed.  No two
\* calls share one, for its name carries the process and a counter.
Own ==
  IF call = Nothing THEN {}
  ELSE CASE call.step = "stage.replace" -> {"stage"}
         [] call.step = "live.replace" -> {"live"}
         [] OTHER -> {}

\* A write that fails leaves its temporary to a removal that may fail too.
WriteFails(file) ==
  /\ "write" \in Faults
  /\ temps' \in {temps, temps \cup {file}}
  /\ Fail
  /\ UNCHANGED <<disk, durable>>

Create(file, step, then) ==
  /\ Running(step)
  /\ \/ StepTo(then) /\ UNCHANGED <<disk, durable, temps, mem, heard, uncertain>>
     \/ WriteFails(file)

\* The rename takes the call's own temporary and no other.
Replace(file, step, then) ==
  /\ Running(step)
  /\ \/ /\ disk' = [disk EXCEPT ![file] = Target(file)]
        /\ StepTo(then)
        /\ UNCHANGED <<durable, temps, mem, heard, uncertain>>
     \/ WriteFails(file)

\* What a directory sync leaves durable; followed only where power may be lost.
Synced == IF PowerLosses THEN disk ELSE durable

\* Mutant of SyncStage: the directory is not synced between stage and live file.
SkipsStageSync ==
  /\ Running("stage.sync")
  /\ StepTo("live.create")
  /\ UNCHANGED <<disk, durable, temps, mem, heard, uncertain>>

\* After the rename the destination is opened again and the directory synced.
SyncStage ==
  /\ Running("stage.sync")
  /\ UNCHANGED <<disk, temps>>
  /\ \/ durable' = Synced /\ StepTo("live.create") /\ UNCHANGED <<mem, heard, uncertain>>
     \/ Faults \cap {"revalidate", "sync"} # {} /\ Fail /\ UNCHANGED durable

\* The live file is installed: the view follows, and commit and abort go on to
\* remove the stage.
Installed ==
  IF RemovesStage
  THEN mem' = call.next /\ StepTo("remove") /\ UNCHANGED <<temps, heard, uncertain>>
  ELSE Finish /\ IF call.op = "open" THEN Reap ELSE UNCHANGED temps

SyncLive ==
  /\ Running("live.sync")
  /\ UNCHANGED disk
  /\ \/ durable' = Synced /\ Installed
     \/ "revalidate" \in Faults /\ Fail /\ UNCHANGED <<durable, temps>>
     \/ "sync" \in Faults /\ RequiresSync /\ Fail /\ UNCHANGED <<durable, temps>>
     \/ "quietsync" \in Faults /\ ~RequiresSync /\ Installed /\ UNCHANGED durable

\* The stage is gone: the call is done, except for an open that still has to
\* write the first live file.
Removed ==
  IF call.op = "open" /\ disk.live = NoFile
  THEN StepTo("live.create") /\ UNCHANGED <<temps, mem, heard, uncertain>>
  ELSE Finish /\ IF call.op = "open" THEN Reap ELSE UNCHANGED temps

\* remove_fixed: a missing stage is done; otherwise unlink, then sync.
RemoveStage ==
  /\ Running("remove")
  /\ UNCHANGED durable
  /\ \/ /\ disk' = [disk EXCEPT !.stage = NoFile]
        /\ IF disk.stage = NoFile
           THEN Removed
           ELSE StepTo("remove.sync") /\ UNCHANGED <<temps, mem, heard, uncertain>>
     \/ "remove" \in Faults /\ Fail /\ UNCHANGED <<disk, temps>>

SyncRemove ==
  /\ Running("remove.sync")
  /\ UNCHANGED disk
  /\ \/ durable' = Synced /\ Removed
     \/ "sync" \in Faults /\ Fail /\ UNCHANGED <<durable, temps>>

Step ==
  \/ Create("stage", "stage.create", "stage.replace")
  \/ Replace("stage", "stage.replace", "stage.sync")
  \/ SyncStage
  \/ Create("live", "live.create", "live.replace")
  \/ Replace("live", "live.replace", "live.sync")
  \/ SyncLive
  \/ RemoveStage
  \/ SyncRemove

-----------------------------------------------------------------------------
(* The machine *)

\* The process ends: dropped between calls, or killed in the middle of one, when
\* the temporary of that call stays.
Crash ==
  /\ IF call = Nothing THEN mem # Nothing ELSE Kills
  /\ temps' = temps \cup Own
  /\ mem' = Nothing
  /\ call' = Nothing
  /\ uncertain' = Nothing
  /\ UNCHANGED <<disk, durable, heard>>

\* The kernel writes one directory entry back on its own.
Writeback ==
  /\ PowerLosses
  /\ \E file \in {"live", "stage"} :
       durable' = [durable EXCEPT ![file] = disk[file]]
  /\ UNCHANGED <<disk, temps, mem, call, heard, uncertain>>

\* A power loss also forgets what was never written back.
PowerLoss ==
  /\ PowerLosses
  /\ disk' = durable
  /\ temps' \in SUBSET (temps \cup Own)
  /\ mem' = Nothing
  /\ call' = Nothing
  /\ uncertain' = Nothing
  /\ UNCHANGED <<durable, heard>>

Next ==
  \/ Open
  \/ \E at \in Addr, secret \in Val : Put(at, secret)
  \/ \E at \in Addr : Delete(at)
  \/ \E batch \in Batches : Apply(batch)
  \/ \E id \in Id, d \in Digest, batch \in Batches : Prepare(id, d, batch)
  \/ \E id \in Id : State(id) \/ Commit(id) \/ Abort(id) \/ AnswerAgain(id)
  \/ \E g \in Generation : Reclaim(g)
  \/ Step
  \/ Crash
  \/ Writeback
  \/ PowerLoss

Spec == Init /\ [][Next]_vars

-----------------------------------------------------------------------------
(* Properties *)

Image == [v2 : BOOLEAN, fence : Nat, ledger : Ledger, entries : Entries]

IsImage(image) ==
  /\ image \in Image
  /\ ~image.v2 => image.fence = 0 /\ image.ledger = EmptyLedger

Candidate == {NoCandidate} \cup [id : Id, digest : Digest, entries : Entries]

View == [image : Image, candidate : Candidate]

IsView(view) == view \in View /\ IsImage(view.image)

AreFiles(files) ==
  /\ files \in [live : Image \cup {NoFile}, stage : Image \cup {NoFile}]
  /\ files.live # NoFile => IsImage(files.live)
  /\ files.stage # NoFile => files.stage.v2

CallOp == {"open", "mutate", "prepare", "commit", "abort", "reclaim", "state"}
CallStep == {"stage.create", "stage.replace", "stage.sync", "live.create", "live.replace",
             "live.sync", "remove", "remove.sync"}

Call == [op : CallOp, id : Id \cup {Nothing}, next : View, step : CallStep, outcome : Record]

IsCall(c) == c \in Call /\ IsView(c.next)

\* No file, no store and no call are none of the values they stand beside.
ASSUME NothingAssumption == Nothing \notin Id \cup CallOp \cup View \cup Call
ASSUME NoFileAssumption == NoFile \notin Image

TypeOK ==
  /\ AreFiles(disk) /\ AreFiles(durable)
  /\ temps \subseteq {"live", "stage"}
  /\ mem = Nothing \/ IsView(mem)
  /\ call = Nothing \/ IsCall(call)
  /\ heard \in [Id -> SUBSET {"prepared", "committed", "aborted"}]
  /\ uncertain \in {Nothing} \cup (CallOp \ {"open"})

\* Between calls, unless an I/O error is unresolved, what the store answers from
\* memory is exactly what the live file says, and the stage file exists exactly
\* while a transaction is prepared and then holds its complete next image.
ViewMatchesFiles ==
  Ready /\ uncertain = Nothing =>
    /\ mem.image = disk.live
    /\ IF Slot(mem.image) = {}
       THEN mem.candidate = NoCandidate /\ disk.stage = NoFile
       ELSE disk.stage = StageOf(mem)

\* Whatever instant the process or the machine stops at, the next open accepts
\* the two files it finds.
AlwaysRecoverable == Recovery(LiveOf(disk), disk.stage) # "refuse"

\* An image keeps the outcomes told, until their generation is retired.
Remembers(image, told) ==
  \A id \in Id :
    LET record == image.ledger[id]
    IN  Retired(image.fence, id) \/
          /\ "committed" \in told[id] => record.state = "committed"
          /\ "aborted" \in told[id] => record = Aborted
          /\ "prepared" \in told[id] => record # Unseen

\* The files keep every outcome the owner was told.
Keeps(files) == Remembers(LiveOf(files), heard)

\* No process crash or I/O error loses an answered outcome.
AnswersKept == Keeps(disk)

\* No power loss loses an answered outcome, repeated answers included, as long as
\* the process ends only between calls and no sync a transaction call requires
\* fails.  A kill behind a rename breaks it: open and state answer from a live
\* file whose directory entry nobody has synced.
AnswersDurable == Keeps(durable)

\* No transaction is ever answered as committed and as aborted, through any
\* sequence of crashes, failures and reconciliations.
OneDecision == \A id \in Id : ~({"committed", "aborted"} \subseteq heard[id])

\* Prepare reserves what its decision needs: an owner that holds the slot and
\* knows where it stands can both commit and abort it, with no refusal.
HolderCanDecide ==
  Invokes =>
    \A id \in Slot(mem.image) : Committable(id) /\ Abortable(id)

\* The files, read as recovery reads them, are a PreparedStore.
CandidateIn(files) ==
  IF Slot(LiveOf(files)) = {} \/ files.stage = NoFile THEN NoEntries ELSE files.stage.entries

\* A point write that failed after its rename is not answered by this process,
\* although the live file holds it until the next write or reconciliation.
EntriesRead ==
  IF mem # Nothing /\ uncertain = "mutate" THEN mem.image.entries ELSE LiveOf(disk).entries

Live == INSTANCE PreparedStore WITH
  entries <- EntriesRead, fence <- LiveOf(disk).fence,
  ledger <- LiveOf(disk).ledger, candidate <- CandidateIn(disk)

Lasting == INSTANCE PreparedStore WITH
  entries <- LiveOf(durable).entries, fence <- LiveOf(durable).fence,
  ledger <- LiveOf(durable).ledger, candidate <- CandidateIn(durable)

\* Every step of a call is one step of the contract or none, and so is every
\* crash: no call is seen half done.
ImplementsPreparedStore == Live!Spec

\* What is durable decides a prepared transaction whole: a power loss finds the
\* old image still prepared, the old image aborted, or the candidate committed,
\* and never a candidate other than the one durably prepared.  As AnswersDurable,
\* it asks that the process ends only between calls and required syncs succeed.
DurableSlotFreezesReads == Lasting!SlotFreezesReads

\* A durable outcome stays until the retirement of its generation is durable, in
\* the same environment.
DurableOutcomesAreFinal == Lasting!OutcomesAreFinal

\* With no I/O error, an open store has no temporary file beside it: what the
\* documentation of the reaping at open promises.
NoTemporaryAtRest == Ready => temps = {}
=============================================================================
