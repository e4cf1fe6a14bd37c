------------------------- MODULE FileStore_proofs -------------------------
(***************************************************************************)
(* Proofs about FileStore.                                                 *)
(*                                                                         *)
(* TypeInv is TypeOK with one addition (a view that has a transaction      *)
(* prepared has its candidate), and holds whatever the machine does.       *)
(*                                                                         *)
(* FilesInv is the inductive form of AlwaysRecoverable.  It says where the *)
(* two files stand while a call is under way: Phase gives, for the step a  *)
(* call is at, what the files hold by then and what the call has planned,  *)
(* and Sound is what recovery asks of the two files at any moment.  A      *)
(* crash drops the phase and keeps Sound; an open starts from Sound alone. *)
(*                                                                         *)
(* Answered relates what owners were told to the files.  It needs FilesInv *)
(* to know that a decision is taken from a file that holds it.  Reserved   *)
(* says that what is prepared still fits the bounds when it is decided.    *)
(*                                                                         *)
(* The last part adds power losses.                                        *)
(***************************************************************************)
EXTENDS FileAcknowledged, SecretTransaction_proofs

-----------------------------------------------------------------------------
(* Images, views and stages *)

LEMMA V2Image ==
  ASSUME NEW f \in Nat, NEW l \in Ledger, NEW e \in Entries
  PROVE  /\ IsImage(V2(f, l, e)) /\ V2(f, l, e).v2
         /\ V2(f, l, e).fence = f /\ V2(f, l, e).ledger = l /\ V2(f, l, e).entries = e
BY DEF V2, IsImage, Image

LEMMA V1Image ==
  ASSUME NEW e \in Entries
  PROVE  /\ IsImage(V1(e)) /\ ~V1(e).v2
         /\ V1(e).fence = 0 /\ V1(e).ledger = EmptyLedger /\ V1(e).entries = e
BY RecordKinds DEF V1, IsImage, Image, EmptyLedger, Ledger

\* Point writes change an image's entries and nothing else.
LEMMA EntriesReplaced ==
  ASSUME NEW image, IsImage(image), NEW e \in Entries
  PROVE  /\ IsImage([image EXCEPT !.entries = e])
         /\ [image EXCEPT !.entries = e].v2 = image.v2
         /\ [image EXCEPT !.entries = e].fence = image.fence
         /\ [image EXCEPT !.entries = e].ledger = image.ledger
BY DEF IsImage, Image

LEMMA ImageFields ==
  ASSUME NEW image, IsImage(image)
  PROVE  /\ image \in Image /\ image.v2 \in BOOLEAN
         /\ image.fence \in Nat /\ image.ledger \in Ledger
         /\ image.entries \in Entries /\ \A i \in Id : image.ledger[i] \in Record
         /\ Slot(image) # {} => image.v2
BY RecordKinds DEF IsImage, Image, Ledger, Slot, PreparedIds, EmptyLedger

LEMMA NoCandidateKnown == NoCandidate \in Candidate /\ NoCandidate.id = Nothing /\ Nothing \notin Id
BY NothingAssumption DEF NoCandidate, Candidate

LEMMA LoadedView ==
  ASSUME NEW image, IsImage(image)
  PROVE  /\ IsView(Loaded(image)) /\ Loaded(image).image = image
         /\ Loaded(image).candidate = NoCandidate
BY NoCandidateKnown DEF Loaded, IsView, View, IsImage

LEMMA ViewFields ==
  ASSUME NEW view, IsView(view)
  PROVE  /\ IsImage(view.image) /\ view.candidate \in Candidate
         /\ view = [image |-> view.image, candidate |-> view.candidate]
         /\ view.candidate = NoCandidate <=> view.candidate.id \notin Id
         /\ view.candidate # NoCandidate =>
              /\ view.candidate.id \in Id /\ view.candidate.digest \in Digest
              /\ view.candidate.entries \in Entries
BY NoCandidateKnown DEF IsView, View, Candidate

LEMMA MadeView ==
  ASSUME NEW image, IsImage(image), NEW c \in Candidate
  PROVE  IsView([image |-> image, candidate |-> c])
BY DEF IsView, View, IsImage

\* A stage is an image whose ledger commits the candidate.
LEMMA StageFields ==
  ASSUME NEW view, IsView(view), view.candidate # NoCandidate
  PROVE  /\ IsImage(StageOf(view)) /\ StageOf(view).v2
         /\ StageOf(view).fence = view.image.fence
         /\ StageOf(view).entries = view.candidate.entries
         /\ \A i \in Id : StageOf(view).ledger[i] =
              IF i = view.candidate.id THEN Committed(view.candidate.digest)
              ELSE view.image.ledger[i]
<1> DEFINE ledger == [view.image.ledger EXCEPT ![view.candidate.id] =
                        Committed(view.candidate.digest)]
<1>1. /\ ledger \in Ledger
      /\ \A i \in Id : ledger[i] = IF i = view.candidate.id
                                   THEN Committed(view.candidate.digest)
                                   ELSE view.image.ledger[i]
  BY ViewFields, ImageFields, RecordKinds DEF Ledger
<1>2. StageOf(view) = V2(view.image.fence, ledger, view.candidate.entries)
  BY DEF StageOf
<1> HIDE DEF ledger
<1>3. QED
  BY <1>1, <1>2, V2Image, ViewFields, ImageFields

LEMMA LiveImage ==
  ASSUME NEW files, AreFiles(files)
  PROVE  /\ IsImage(LiveOf(files))
         /\ files.live # NoFile => LiveOf(files) = files.live
         /\ files.stage # NoFile => IsImage(files.stage) /\ files.stage.v2
<1>1. [a \in Addr |-> NoValue] \in Entries
  BY DEF Entries
<1>2. QED
  BY <1>1, V1Image DEF AreFiles, LiveOf, IsImage

\* What recovery makes of two files is a view of the live one.
LEMMA RecoveredView ==
  ASSUME NEW image, IsImage(image),
         NEW stage, stage = NoFile \/ IsImage(stage)
  PROVE  IsView(Recovered(image, stage)) /\ Recovered(image, stage).image = image
<1>1. CASE Recovery(image, stage) = "adopt"
  <2> DEFINE id == CHOOSE i \in Slot(image) : TRUE
             c == [id |-> id, digest |-> image.ledger[id].digest, entries |-> stage.entries]
  <2>1. stage # NoFile /\ Slot(image) # {}
    BY <1>1 DEF Recovery
  <2>2. id \in Slot(image)
    BY <2>1
  <2>3. id \in Id /\ image.ledger[id].digest \in Digest
    BY <2>2, RecordKinds, ImageFields DEF Slot, PreparedIds
  <2>4. c \in Candidate
    BY <2>1, <2>3, ImageFields DEF Candidate
  <2>5. Recovered(image, stage) = [image |-> image, candidate |-> c]
    BY <1>1 DEF Recovered
  <2> HIDE DEF c
  <2>6. QED
    BY <2>4, <2>5, MadeView
<1>2. CASE Recovery(image, stage) # "adopt"
  BY <1>2, LoadedView DEF Recovered
<1>3. QED
  BY <1>1, <1>2

-----------------------------------------------------------------------------
(* Type correctness: the strengthening is that the call which is about to   *)
(* write a stage has the candidate the stage is made of.                    *)

HasCandidate ==
  call # Nothing /\ call.step \in {"stage.create", "stage.replace"} =>
    call.next.candidate # NoCandidate

TypeInv == TypeOK /\ HasCandidate

LEMMA CallFields ==
  ASSUME TypeOK, call # Nothing
  PROVE  /\ IsCall(call) /\ call.op \in CallOp /\ call.id \in Id \cup {Nothing}
         /\ IsView(call.next) /\ call.step \in CallStep /\ call.outcome \in Record
BY DEF TypeOK, IsCall, Call

\* A step forward in the call in progress changes nothing else of it.
LEMMA CallAdvances ==
  ASSUME TypeOK, call # Nothing, NEW step \in CallStep, StepTo(step)
  PROVE  /\ IsCall(call') /\ call' # Nothing /\ call'.step = step
         /\ call'.op = call.op /\ call'.id = call.id
         /\ call'.next = call.next /\ call'.outcome = call.outcome
<1>1. call \in Call /\ IsView(call.next) /\ call' = [call EXCEPT !.step = step]
  BY DEF TypeOK, IsCall, StepTo
<1>2. call' \in Call /\ call'.step = step /\ call'.next = call.next
  BY <1>1 DEF Call
<1>3. call'.op = call.op /\ call'.id = call.id /\ call'.outcome = call.outcome
  BY <1>1 DEF Call
<1>4. QED
  BY <1>1, <1>2, <1>3, NothingAssumption DEF IsCall

\* The call record that Start makes.
LEMMA StartedCall ==
  ASSUME NEW op \in CallOp, NEW id \in Id \cup {Nothing}, NEW next, IsView(next),
         NEW step \in CallStep, NEW outcome \in Record, Start(op, id, next, step, outcome)
  PROVE  /\ IsCall(call') /\ call' # Nothing
         /\ call'.op = op /\ call'.id = id /\ call'.next = next
         /\ call'.step = step /\ call'.outcome = outcome
<1>1. call' = [op |-> op, id |-> id, next |-> next, step |-> step, outcome |-> outcome]
  BY DEF Start
<1>2. call' \in Call
  BY <1>1 DEF Call, IsView
<1>3. QED
  BY <1>1, <1>2, NothingAssumption DEF IsCall

LEMMA StartKeepsTypes ==
  ASSUME TypeInv, NEW op \in CallOp, NEW id \in Id \cup {Nothing}, NEW next, IsView(next),
         NEW step \in CallStep, NEW outcome \in Record, Start(op, id, next, step, outcome),
         step \in {"stage.create", "stage.replace"} => next.candidate # NoCandidate
  PROVE  TypeInv'
<1>1. /\ IsCall(call') /\ call'.next = next /\ call'.step = step
      /\ UNCHANGED <<disk, durable, temps, mem, heard, uncertain>>
  BY StartedCall DEF Start
<1>2. QED
  BY <1>1 DEF TypeInv, TypeOK, HasCandidate

\* An answer adds a state to what was heard.
LEMMA HeardTypes ==
  ASSUME TypeOK, NEW id, NEW outcome \in Record, outcome # Unseen
  PROVE  [heard EXCEPT ![id] = @ \cup {outcome.state}]
           \in [Id -> SUBSET {"prepared", "committed", "aborted"}]
<1>1. outcome.state \in {"prepared", "committed", "aborted"}
  BY RecordKinds, RecordStates
<1>2. QED
  BY <1>1 DEF TypeOK

\* Whatever else a step changes, what Fail and Finish leave is well typed.
LEMMA FailTypes ==
  ASSUME TypeOK, call # Nothing, Fail, AreFiles(disk'), AreFiles(durable'),
         temps' \subseteq {"live", "stage"}
  PROVE  TypeInv'
BY CallFields DEF TypeOK, TypeInv, HasCandidate, Fail

LEMMA FinishTypes ==
  ASSUME TypeOK, call # Nothing, Finish, AreFiles(disk'), AreFiles(durable'),
         temps' \subseteq {"live", "stage"}
  PROVE  TypeInv'
<1>1. IsView(mem') /\ call' = Nothing
  BY CallFields DEF Finish
<1>2. heard' \in [Id -> SUBSET {"prepared", "committed", "aborted"}]
  BY CallFields, HeardTypes DEF Finish, TypeOK
<1>3. uncertain' \in {Nothing} \cup (CallOp \ {"open"})
  BY DEF Finish, TypeOK
<1>4. QED
  BY <1>1, <1>2, <1>3 DEF TypeInv, TypeOK, HasCandidate

LEMMA AdvanceTypes ==
  ASSUME TypeInv, call # Nothing, NEW step \in CallStep, StepTo(step),
         step = "stage.replace" => call.step = "stage.create", step # "stage.create",
         AreFiles(disk'), AreFiles(durable'), temps' \subseteq {"live", "stage"},
         mem' = mem \/ mem' = call.next, UNCHANGED <<heard, uncertain>>
  PROVE  TypeInv'
<1>1. IsCall(call') /\ call'.step = step /\ call'.next = call.next
  BY CallAdvances DEF TypeInv
<1>2. mem' = Nothing \/ IsView(mem')
  BY CallFields DEF TypeInv, TypeOK
<1>3. HasCandidate'
  BY <1>1 DEF TypeInv, HasCandidate
<1>4. QED
  BY <1>1, <1>2, <1>3 DEF TypeInv, TypeOK

-----------------------------------------------------------------------------
(* Each call keeps the types *)

LEMMA MemFields ==
  ASSUME TypeOK, mem # Nothing
  PROVE  IsView(mem) /\ IsImage(mem.image) /\ mem.candidate \in Candidate
BY ViewFields DEF TypeOK

\* The view a decision makes.
LEMMA DecideView ==
  ASSUME TypeOK, mem # Nothing, NEW id \in Id, NEW r \in Record, NEW e \in Entries
  PROVE  /\ IsView(Decide(id, r, e))
         /\ Decide(id, r, e).candidate = NoCandidate
         /\ Decide(id, r, e).image.fence = mem.image.fence
         /\ Decide(id, r, e).image.entries = e
         /\ \A i \in Id : Decide(id, r, e).image.ledger[i] =
              IF i = id THEN r ELSE mem.image.ledger[i]
<1> DEFINE ledger == [mem.image.ledger EXCEPT ![id] = r]
           image == V2(mem.image.fence, ledger, e)
<1>1. /\ ledger \in Ledger
      /\ \A i \in Id : ledger[i] = IF i = id THEN r ELSE mem.image.ledger[i]
  BY MemFields, ImageFields DEF Ledger
<1>2. mem.image.fence \in Nat
  BY MemFields, ImageFields
<1>3. Decide(id, r, e) = [image |-> image, candidate |-> NoCandidate]
  BY DEF Decide
<1> HIDE DEF ledger
<1>4. /\ IsImage(image) /\ image.fence = mem.image.fence
      /\ image.ledger = ledger /\ image.entries = e
  BY <1>1, <1>2, V2Image
<1> HIDE DEF image
<1>5. QED
  BY <1>1, <1>3, <1>4, MadeView, NoCandidateKnown

LEMMA MutateTypes ==
  ASSUME TypeInv, NEW next \in Entries, Mutate(next)
  PROVE  TypeInv'
<1> DEFINE image == [mem.image EXCEPT !.entries = next]
           view == [mem EXCEPT !.image = image]
<1>1. mem # Nothing
  BY DEF Mutate, Invokes, Ready
<1>2. IsView(view)
  <2>1. IsView(mem) /\ IsImage(image)
    BY <1>1, MemFields, EntriesReplaced DEF TypeInv
  <2> HIDE DEF image
  <2>2. QED
    BY <2>1 DEF IsView, View, IsImage
<1>3. Start("mutate", Nothing, view, "live.create", Unseen)
  BY DEF Mutate
<1> HIDE DEF view
<1>4. QED
  BY <1>2, <1>3, StartKeepsTypes, RecordKinds DEF CallOp, CallStep

\* The view prepare makes.
LEMMA PrepareView ==
  ASSUME TypeOK, mem # Nothing, NEW id \in Id, NEW d \in Digest, NEW e \in Entries,
         NEW next, next = [image |-> V2(mem.image.fence,
                                        [mem.image.ledger EXCEPT ![id] = Prepared(d)],
                                        mem.image.entries),
                           candidate |-> [id |-> id, digest |-> d, entries |-> e]]
  PROVE  IsView(next) /\ next.candidate # NoCandidate
<1>1. [mem.image.ledger EXCEPT ![id] = Prepared(d)] \in Ledger
  BY MemFields, ImageFields, RecordKinds DEF Ledger
<1>2. IsImage(next.image)
  BY <1>1, MemFields, ImageFields, V2Image
<1>3. next.candidate \in Candidate /\ next.candidate # NoCandidate
  BY NoCandidateKnown DEF Candidate
<1>4. QED
  BY <1>2, <1>3, MadeView

LEMMA PrepareTypes ==
  ASSUME TypeInv, NEW id \in Id, NEW d \in Digest, NEW batch \in Batches,
         Prepare(id, d, batch)
  PROVE  TypeInv'
<1> DEFINE candidate == Outcome(mem.image.entries, batch)
           next == [image |-> V2(mem.image.fence,
                                 [mem.image.ledger EXCEPT ![id] = Prepared(d)],
                                 mem.image.entries),
                    candidate |-> [id |-> id, digest |-> d, entries |-> candidate]]
<1>1. mem # Nothing /\ Start("prepare", id, next, "stage.create", Prepared(d))
  BY DEF Prepare, Invokes, Ready
<1>2. candidate \in Entries
  BY <1>1, OutcomeInEntries, BatchesAssumption, MemFields, ImageFields DEF TypeInv
<1>3. IsView(next) /\ next.candidate # NoCandidate
  BY <1>1, <1>2, PrepareView DEF TypeInv
<1> HIDE DEF next
<1>4. QED
  BY <1>1, <1>3, StartKeepsTypes, RecordKinds DEF CallOp, CallStep

LEMMA CommitTypes ==
  ASSUME TypeInv, NEW id \in Id, Commit(id)
  PROVE  TypeInv'
<1>1. mem # Nothing /\ mem.candidate.id = id
  BY DEF Commit, Committable, Invokes, Ready
<1>2. Committed(mem.candidate.digest) \in Record /\ mem.candidate.entries \in Entries
  BY <1>1, MemFields, ViewFields, RecordKinds DEF TypeInv
<1>3. IsView(Decide(id, Committed(mem.candidate.digest), mem.candidate.entries))
  BY <1>1, <1>2, DecideView DEF TypeInv
<1>4. QED
  BY <1>2, <1>3, StartKeepsTypes DEF Commit, Committable, CallOp, CallStep

LEMMA AbortTypes ==
  ASSUME TypeInv, NEW id \in Id, Abort(id)
  PROVE  TypeInv'
<1>1. mem # Nothing
  BY DEF Abort, Abortable, Invokes, Ready
<1>2. IsView(Decide(id, Aborted, mem.image.entries))
  BY <1>1, DecideView, MemFields, ImageFields, RecordKinds DEF TypeInv
<1>3. QED
  BY <1>2, StartKeepsTypes, RecordKinds DEF Abort, Abortable, CallOp, CallStep

LEMMA ReclaimTypes ==
  ASSUME TypeInv, NEW g \in Generation, Reclaim(g)
  PROVE  TypeInv'
<1> DEFINE next == V2(g, Retain(mem.image.ledger, g), mem.image.entries)
           view == [mem EXCEPT !.image = next]
<1>1. mem # Nothing /\ Start("reclaim", Nothing, view, "live.create", Unseen)
  BY DEF Reclaim, Invokes, Ready
<1>2. IsImage(next)
  BY <1>1, MemFields, ImageFields, RetainKeepsLedger, V2Image, GenerationAssumption
     DEF TypeInv
<1>3. IsView(view)
  <2>1. IsView(mem)
    BY <1>1, MemFields DEF TypeInv
  <2> HIDE DEF next
  <2>2. QED
    BY <1>2, <2>1 DEF IsView, View, IsImage
<1> HIDE DEF view
<1>4. QED
  BY <1>1, <1>3, StartKeepsTypes, RecordKinds DEF CallOp, CallStep

LEMMA AnswerAgainTypes ==
  ASSUME TypeInv, NEW id \in Id, AnswerAgain(id)
  PROVE  TypeInv'
<1>1. mem # Nothing /\ Known(id) # Unseen /\ Answer(id, Known(id))
  BY DEF AnswerAgain, Invokes, Ready
<1>2. Known(id) \in Record
  BY <1>1, MemFields, ImageFields DEF TypeInv, Known
<1>3. heard' \in [Id -> SUBSET {"prepared", "committed", "aborted"}]
  BY <1>1, <1>2, HeardTypes DEF TypeInv, Answer
<1>4. QED
  BY <1>1, <1>3 DEF TypeInv, TypeOK, HasCandidate, Answer

LEMMA StateTypes ==
  ASSUME TypeInv, NEW id \in Id, State(id)
  PROVE  TypeInv'
<1> DEFINE view == Recovered(disk.live, disk.stage)
           outcome == StateKnown(id, view)
<1>1. IsView(view)
  BY LiveImage, RecoveredView DEF State, TypeInv, TypeOK
<1>2. outcome \in Record
  BY <1>1, ViewFields, ImageFields, RecordKinds DEF StateKnown
<1>3. CASE Start("state", id, view, "remove", outcome)
  <2> HIDE DEF view, outcome
  <2>1. QED
    BY <1>1, <1>2, <1>3, StartKeepsTypes DEF CallOp, CallStep
<1>4. CASE /\ mem' = view
           /\ heard' = IF outcome = Unseen THEN heard
                       ELSE [heard EXCEPT ![id] = @ \cup {outcome.state}]
           /\ uncertain' = Nothing
           /\ UNCHANGED <<disk, durable, temps, call>>
  <2> HIDE DEF view, outcome
  <2>1. heard' \in [Id -> SUBSET {"prepared", "committed", "aborted"}]
    BY <1>2, <1>4, HeardTypes DEF TypeInv, TypeOK
  <2>2. QED
    BY <1>1, <1>4, <2>1 DEF TypeInv, TypeOK, HasCandidate
<1>5. QED
  BY <1>3, <1>4 DEF State

LEMMA OpenTypes ==
  ASSUME TypeInv, Open
  PROVE  TypeInv'
<1> DEFINE view == Recovered(LiveOf(disk), disk.stage)
<1>1. IsView(view)
  BY LiveImage, RecoveredView DEF TypeInv, TypeOK
<1>2. CASE /\ mem' = view /\ Reap /\ uncertain' = Nothing
           /\ UNCHANGED <<disk, durable, call, heard>>
  <2> HIDE DEF view
  <2>1. QED
    BY <1>1, <1>2 DEF TypeInv, TypeOK, HasCandidate, Reap
<1>3. CASE \E step \in {"live.create", "remove"} :
             Start("open", Nothing, view, step, Unseen)
  <2> HIDE DEF view
  <2>1. QED
    BY <1>1, <1>3, StartKeepsTypes, RecordKinds DEF CallOp, CallStep
<1>4. QED
  BY <1>2, <1>3 DEF Open

-----------------------------------------------------------------------------
(* Each step on the file system keeps the types *)

LEMMA CreateTypes ==
  ASSUME TypeInv, NEW file \in {"live", "stage"}, NEW step \in CallStep,
         NEW then \in CallStep, Create(file, step, then),
         then = "stage.replace" => step = "stage.create", then # "stage.create"
  PROVE  TypeInv'
<1>1. /\ call # Nothing /\ call.step = step /\ UNCHANGED <<disk, durable>>
      /\ temps' \subseteq {"live", "stage"}
  BY DEF Create, WriteFails, Running, Fail, TypeInv, TypeOK
<1>2. AreFiles(disk') /\ AreFiles(durable')
  BY <1>1 DEF TypeInv, TypeOK
<1>3. CASE Fail
  BY <1>1, <1>2, <1>3, FailTypes DEF TypeInv
<1>4. CASE StepTo(then) /\ UNCHANGED <<mem, heard, uncertain>>
  BY <1>1, <1>2, <1>4, AdvanceTypes
<1>5. QED
  BY <1>3, <1>4 DEF Create, WriteFails

\* A file the directory holds is replaced by an image of its own kind.
LEMMA FileReplaced ==
  ASSUME NEW files, AreFiles(files), NEW image, IsImage(image)
  PROVE  /\ AreFiles([files EXCEPT !.live = image])
         /\ [files EXCEPT !.live = image].live = image
         /\ [files EXCEPT !.live = image].stage = files.stage
         /\ image.v2 => AreFiles([files EXCEPT !.stage = image])
         /\ [files EXCEPT !.stage = image].live = files.live
         /\ [files EXCEPT !.stage = image].stage = image
BY DEF AreFiles, IsImage

LEMMA StageRemoved ==
  ASSUME NEW files, AreFiles(files)
  PROVE  /\ AreFiles([files EXCEPT !.stage = NoFile])
         /\ [files EXCEPT !.stage = NoFile].live = files.live
         /\ [files EXCEPT !.stage = NoFile].stage = NoFile
BY DEF AreFiles

LEMMA ReplaceTypes ==
  ASSUME TypeInv, NEW file \in {"live", "stage"}, NEW step \in CallStep,
         NEW then \in CallStep, Replace(file, step, then),
         file = "stage" => step = "stage.replace",
         then \notin {"stage.create", "stage.replace"}
  PROVE  TypeInv'
<1>1. /\ call # Nothing /\ call.step = step /\ UNCHANGED durable
      /\ temps' \subseteq {"live", "stage"}
  BY DEF Replace, WriteFails, Running, Fail, TypeInv, TypeOK
<1>2. IsView(call.next)
  BY <1>1, CallFields DEF TypeInv
<1>3. CASE Fail /\ UNCHANGED disk
  BY <1>1, <1>3, FailTypes DEF TypeInv, TypeOK
<1>4. CASE /\ disk' = [disk EXCEPT ![file] = Target(file)]
           /\ StepTo(then) /\ UNCHANGED <<mem, heard, uncertain>>
  <2>1. AreFiles(disk')
    <3>1. CASE file = "live"
      BY <1>2, <1>4, <3>1, FileReplaced, ViewFields DEF Target, TypeInv, TypeOK
    <3>2. CASE file = "stage"
      <4>1. call.next.candidate # NoCandidate
        BY <1>1, <3>2 DEF TypeInv, HasCandidate
      <4>2. IsImage(StageOf(call.next)) /\ StageOf(call.next).v2
        BY <1>2, <4>1, StageFields
      <4>3. QED
        BY <1>4, <3>2, <4>2, FileReplaced DEF Target, TypeInv, TypeOK
    <3>3. QED
      BY <3>1, <3>2
  <2>2. QED
    BY <1>1, <1>4, <2>1, AdvanceTypes DEF TypeInv, TypeOK
<1>5. QED
  BY <1>3, <1>4 DEF Replace, WriteFails

LEMMA SyncStageTypes ==
  ASSUME TypeInv, SyncStage
  PROVE  TypeInv'
<1>1. call # Nothing /\ UNCHANGED disk /\ temps' \subseteq {"live", "stage"}
  BY DEF SyncStage, Running, TypeInv, TypeOK
<1>2. AreFiles(disk') /\ AreFiles(durable')
  BY <1>1 DEF SyncStage, Synced, TypeInv, TypeOK
<1>3. CASE Fail
  BY <1>1, <1>2, <1>3, FailTypes DEF TypeInv
<1>4. CASE StepTo("live.create") /\ UNCHANGED <<mem, heard, uncertain>>
  BY <1>1, <1>2, <1>4, AdvanceTypes DEF CallStep
<1>5. QED
  BY <1>3, <1>4 DEF SyncStage

LEMMA SyncLiveTypes ==
  ASSUME TypeInv, SyncLive
  PROVE  TypeInv'
<1>1. call # Nothing /\ UNCHANGED disk
  BY DEF SyncLive, Running
<1>2. /\ AreFiles(disk') /\ AreFiles(durable')
      /\ temps' \subseteq {"live", "stage"}
  BY <1>1 DEF SyncLive, Synced, Installed, Reap, Finish, StepTo, Fail, TypeInv, TypeOK
<1>3. CASE Fail
  BY <1>1, <1>2, <1>3, FailTypes DEF TypeInv
<1>4. CASE Installed
  <2>1. CASE RemovesStage
    BY <1>1, <1>2, <1>4, <2>1, AdvanceTypes DEF Installed, CallStep
  <2>2. CASE ~RemovesStage
    BY <1>1, <1>2, <1>4, <2>2, FinishTypes DEF Installed, TypeInv
  <2>3. QED
    BY <2>1, <2>2
<1>5. QED
  BY <1>3, <1>4 DEF SyncLive

LEMMA RemovedTypes ==
  ASSUME TypeInv, call # Nothing, Removed, AreFiles(disk'), AreFiles(durable')
  PROVE  TypeInv'
<1>1. temps' \subseteq {"live", "stage"}
  BY DEF Removed, Reap, Finish, StepTo, TypeInv, TypeOK
<1>2. CASE StepTo("live.create") /\ UNCHANGED <<mem, heard, uncertain>>
  BY <1>1, <1>2, AdvanceTypes DEF CallStep
<1>3. CASE Finish
  BY <1>1, <1>3, FinishTypes DEF TypeInv
<1>4. QED
  BY <1>2, <1>3 DEF Removed

LEMMA RemoveStageTypes ==
  ASSUME TypeInv, RemoveStage
  PROVE  TypeInv'
<1>1. call # Nothing /\ UNCHANGED durable
  BY DEF RemoveStage, Running
<1>2. AreFiles(disk') /\ AreFiles(durable')
  BY <1>1, StageRemoved DEF RemoveStage, TypeInv, TypeOK
<1>3. CASE Fail /\ UNCHANGED temps
  BY <1>1, <1>2, <1>3, FailTypes DEF TypeInv, TypeOK
<1>4. CASE Removed
  BY <1>1, <1>2, <1>4, RemovedTypes
<1>5. CASE StepTo("remove.sync") /\ UNCHANGED <<temps, mem, heard, uncertain>>
  BY <1>1, <1>2, <1>5, AdvanceTypes DEF CallStep, TypeInv, TypeOK
<1>6. QED
  BY <1>3, <1>4, <1>5 DEF RemoveStage

LEMMA SyncRemoveTypes ==
  ASSUME TypeInv, SyncRemove
  PROVE  TypeInv'
<1>1. call # Nothing /\ UNCHANGED disk
  BY DEF SyncRemove, Running
<1>2. AreFiles(disk') /\ AreFiles(durable')
  BY <1>1 DEF SyncRemove, Synced, TypeInv, TypeOK
<1>3. CASE Fail /\ UNCHANGED temps
  BY <1>1, <1>2, <1>3, FailTypes DEF TypeInv, TypeOK
<1>4. CASE Removed
  BY <1>1, <1>2, <1>4, RemovedTypes
<1>5. QED
  BY <1>3, <1>4 DEF SyncRemove

LEMMA StepTypes ==
  ASSUME TypeInv, Step
  PROVE  TypeInv'
<1>1. CASE Create("stage", "stage.create", "stage.replace")
  BY <1>1, CreateTypes DEF CallStep
<1>2. CASE Replace("stage", "stage.replace", "stage.sync")
  BY <1>2, ReplaceTypes DEF CallStep
<1>3. CASE Create("live", "live.create", "live.replace")
  BY <1>3, CreateTypes DEF CallStep
<1>4. CASE Replace("live", "live.replace", "live.sync")
  BY <1>4, ReplaceTypes DEF CallStep
<1>5. QED
  BY <1>1, <1>2, <1>3, <1>4, SyncStageTypes, SyncLiveTypes, RemoveStageTypes,
     SyncRemoveTypes DEF Step

LEMMA WritebackTypes ==
  ASSUME TypeInv, Writeback
  PROVE  TypeInv'
<1>1. PICK file \in {"live", "stage"} : durable' = [durable EXCEPT ![file] = disk[file]]
  BY DEF Writeback
<1>2. AreFiles(durable')
  BY <1>1 DEF AreFiles, TypeInv, TypeOK
<1>3. QED
  BY <1>2 DEF Writeback, TypeInv, TypeOK, HasCandidate

LEMMA NextTypes == TypeInv /\ [Next]_vars => TypeInv'
<1> SUFFICES ASSUME TypeInv, [Next]_vars
             PROVE  TypeInv'
  OBVIOUS
<1>1. ASSUME NEW at \in Addr, NEW e \in Val \cup {NoValue}, mem # Nothing
      PROVE  [mem.image.entries EXCEPT ![at] = e] \in Entries
  BY <1>1, MemFields, ImageFields DEF TypeInv, Entries
<1>2. ASSUME NEW at \in Addr, NEW secret \in Val, Put(at, secret)
      PROVE  TypeInv'
  BY <1>1, <1>2, MutateTypes DEF Put, Mutate, Invokes, Ready
<1>3. ASSUME NEW at \in Addr, Delete(at)
      PROVE  TypeInv'
  BY <1>1, <1>3, MutateTypes DEF Delete, Ready
<1>4. ASSUME NEW batch \in Batches, Apply(batch)
      PROVE  TypeInv'
  <2>1. Outcome(mem.image.entries, batch) \in Entries
    BY <1>4, OutcomeInEntries, BatchesAssumption, MemFields, ImageFields
       DEF Apply, Ready, TypeInv
  <2>2. QED
    BY <1>4, <2>1, MutateTypes DEF Apply
<1>5. ASSUME NEW id \in Id, State(id) \/ Commit(id) \/ Abort(id) \/ AnswerAgain(id)
      PROVE  TypeInv'
  BY <1>5, StateTypes, CommitTypes, AbortTypes, AnswerAgainTypes
<1>6. CASE Crash
  BY <1>6 DEF Crash, Own, TypeInv, TypeOK, HasCandidate
<1>7. CASE PowerLoss
  <2>1. AreFiles(disk') /\ AreFiles(durable') /\ temps' \subseteq {"live", "stage"}
    BY <1>7 DEF PowerLoss, Own, TypeInv, TypeOK
  <2>2. QED
    BY <1>7, <2>1 DEF PowerLoss, TypeInv, TypeOK, HasCandidate
<1>8. CASE UNCHANGED vars
  BY <1>8 DEF vars, TypeInv, TypeOK, HasCandidate
<1>9. QED
  BY <1>2, <1>3, <1>4, <1>5, <1>6, <1>7, <1>8, OpenTypes, PrepareTypes, ReclaimTypes,
     StepTypes, WritebackTypes DEF Next

LEMMA InitTypes == Init => TypeInv
<1> SUFFICES ASSUME Init
             PROVE  TypeInv
  OBVIOUS
<1>1. AreFiles(disk)
  BY V1Image DEF Init, AreFiles, IsImage
<1>2. QED
  BY <1>1 DEF Init, TypeInv, TypeOK, HasCandidate

LEMMA TypesHold == Spec => []TypeInv
BY InitTypes, NextTypes, PTL DEF Spec

\* The files, the view and the calls of a file store keep their types through
\* every crash, power loss and I/O error, whether or not the owner reconciles:
\* a v1 file has no ledger, and a stage file is always a v2 image (file.rs 640,
\* file/prepared.rs 186-254).
THEOREM FileTypeCorrect == Spec => []TypeOK
<1>1. TypeInv => TypeOK
  BY DEF TypeInv
<1>2. QED
  BY <1>1, TypesHold, PTL

-----------------------------------------------------------------------------
(* The two files and the view, where no power is lost and the owner         *)
(* reconciles.  FilesInv says at each step of a call how far the files have *)
(* got from the view it began with to the view it will end with, what the   *)
(* guards of the call found then, and that the files recover at any moment. *)

\* Two images that differ in their entries at most.
Follows(a, b) == a.v2 = b.v2 /\ a.fence = b.fence /\ a.ledger = b.ledger

\* A view and the stage file that belongs to it: none while the slot is free,
\* and otherwise the complete next image of the prepared transaction.
AtRest(view, stage) ==
  IF Slot(view.image) = {}
  THEN view.candidate = NoCandidate /\ stage = NoFile
  ELSE /\ Slot(view.image) = {view.candidate.id}
       /\ view.image.ledger[view.candidate.id] = Prepared(view.candidate.digest)
       /\ stage = StageOf(view)

\* The live file is the view's image, but for the entries a failed point write
\* may have left in it while the slot is free.
LiveIs(view) ==
  /\ disk.live # NoFile
  /\ Follows(disk.live, view.image)
  /\ IF uncertain = "mutate" THEN Slot(view.image) = {} ELSE disk.live = view.image

Settled == mem # Nothing /\ LiveIs(mem) /\ AtRest(mem, disk.stage)

\* The answer a call will give is in the image it writes.
AnswerIn(c, image) ==
  c.outcome # Unseen =>
    c.id \in Id /\ ~Retired(image.fence, c.id) /\ image.ledger[c.id] = c.outcome

\* What the guards of a call found in the view: it stays so while the call runs.
MutatePlanned(c) ==
  /\ Slot(mem.image) = {}
  /\ Follows(c.next.image, mem.image)
  /\ c.next.candidate = NoCandidate
  /\ c.outcome = Unseen

PreparePlanned(c) ==
  /\ c.id \in Id
  /\ c.next.candidate.id = c.id
  /\ Startable(c.id)
  /\ LedgerHasRoom
  /\ c.outcome = Prepared(c.next.candidate.digest)
  /\ c.next.image = V2(mem.image.fence, [mem.image.ledger EXCEPT ![c.id] = c.outcome],
                       mem.image.entries)

CommitPlanned(c) ==
  /\ c.id \in Id
  /\ mem.candidate.id = c.id
  /\ Slot(mem.image) # {}
  /\ ~Retired(mem.image.fence, c.id)
  /\ c.outcome = Committed(mem.candidate.digest)
  /\ c.next = Decide(c.id, c.outcome, mem.candidate.entries)

AbortPlanned(c) ==
  /\ c.id \in Id
  /\ ~Retired(mem.image.fence, c.id)
  /\ Known(c.id).state \in {"unseen", "prepared"}
  /\ SlotFreeFor(c.id)
  /\ LedgerHasRoom
  /\ c.outcome = Aborted
  /\ c.next = Decide(c.id, c.outcome, mem.image.entries)

ReclaimPlanned(c) ==
  /\ Slot(mem.image) = {}
  /\ c.outcome = Unseen
  /\ c.next.candidate = NoCandidate
  /\ \E g \in Generation :
       /\ g > mem.image.fence
       /\ c.next.image = V2(g, Retain(mem.image.ledger, g), mem.image.entries)

Planned(c) ==
  \/ c.op = "mutate" /\ MutatePlanned(c)
  \/ c.op = "commit" /\ CommitPlanned(c)
  \/ c.op = "abort" /\ AbortPlanned(c)
  \/ c.op = "reclaim" /\ ReclaimPlanned(c)

\* A prepare before its stage is installed, and after.
Staging(c) == c.op = "prepare" /\ PreparePlanned(c) /\ Settled

Staged(c) ==
  /\ c.op = "prepare" /\ PreparePlanned(c)
  /\ mem # Nothing /\ LiveIs(mem) /\ disk.stage = StageOf(c.next)

\* An open that writes the first live file.
Opening(c) ==
  /\ c.op = "open" /\ mem = Nothing
  /\ disk.live = NoFile /\ disk.stage = NoFile
  /\ c.next = Loaded(LiveOf(disk)) /\ c.outcome = Unseen

Writing(c) == Staged(c) \/ Opening(c) \/ (Planned(c) /\ Settled)

\* The live file is installed.
Written(c) ==
  /\ c.op # "state"
  /\ c.op = "open" <=> mem = Nothing
  /\ disk.live = c.next.image
  /\ AnswerIn(c, c.next.image)
  /\ IF RemovesStage
     THEN Slot(c.next.image) = {} /\ c.next.candidate = NoCandidate
     ELSE AtRest(c.next, disk.stage)
  /\ c.op = "mutate" =>
       /\ Follows(c.next.image, mem.image)
       /\ Slot(mem.image) = {} /\ AtRest(mem, disk.stage)
  /\ IF c.op = "prepare" THEN c.next.image.entries = mem.image.entries
     ELSE Slot(c.next.image) = {}

\* Only the stage is left to be removed; an open may find it alone, where a power
\* loss forgot the first live file.
Removing(c) ==
  /\ c.op \in {"open", "commit", "abort", "state"}
  /\ c.op = "open" <=> mem = Nothing
  /\ LiveOf(disk) = c.next.image
  /\ IF c.op = "open" THEN c.outcome = Unseen ELSE disk.live # NoFile
  /\ AnswerIn(c, c.next.image)
  /\ Slot(c.next.image) = {} /\ c.next.candidate = NoCandidate

Phase(c) ==
  /\ c.step \in {"stage.create", "stage.replace"} => Staging(c)
  /\ c.step = "stage.sync" => Staged(c)
  /\ c.step \in {"live.create", "live.replace"} => Writing(c)
  /\ c.step = "live.sync" => Written(c)
  /\ c.step \in {"remove", "remove.sync"} => Removing(c)
  /\ c.step = "remove.sync" => disk.stage = NoFile

\* The files are accepted by the next open, with at most one prepared record.
Sound ==
  /\ AlwaysRecoverable
  /\ \A i, j \in Slot(LiveOf(disk)) : i = j

FilesInv ==
  /\ Sound
  /\ call # Nothing => Phase(call)
  /\ call = Nothing /\ mem # Nothing /\ uncertain \in {Nothing, "mutate"} => Settled

-----------------------------------------------------------------------------
(* Recovery *)

LEMMA SlotIds ==
  ASSUME NEW image
  PROVE  /\ Slot(image) \subseteq Id
         /\ \A i \in Id : i \in Slot(image) <=> image.ledger[i].state = "prepared"
BY DEF Slot, PreparedIds

\* A view at rest has the candidate of the one prepared transaction.
LEMMA RestHasCandidate ==
  ASSUME NEW view, IsView(view), NEW stage, AtRest(view, stage), Slot(view.image) # {}
  PROVE  view.candidate # NoCandidate /\ view.candidate.id \in Id
BY SlotIds, ViewFields DEF AtRest

\* Files at rest are what recovery accepts without removing anything.
LEMMA RestRecovers ==
  ASSUME NEW view, IsView(view), NEW stage, AtRest(view, stage)
  PROVE  Recovery(view.image, stage) \in {"none", "adopt"}
<1>1. CASE Slot(view.image) = {}
  BY <1>1 DEF AtRest, Recovery
<1>2. CASE Slot(view.image) # {}
  <2> DEFINE c == view.candidate
  <2>1. c # NoCandidate /\ c.id \in Id /\ Slot(view.image) = {c.id}
    BY <1>2, RestHasCandidate DEF AtRest
  <2>2. /\ stage = StageOf(view) /\ IsImage(stage) /\ stage.fence = view.image.fence
        /\ \A i \in Id : stage.ledger[i] = IF i = c.id THEN Committed(c.digest)
                                           ELSE view.image.ledger[i]
    <3>1. stage = StageOf(view)
      BY <1>2 DEF AtRest
    <3>2. QED
      BY <2>1, <3>1, StageFields
  <2>3. Slot(stage) = {}
    <3>1. \A i \in Id : i # c.id => view.image.ledger[i].state # "prepared"
      BY <2>1, SlotIds
    <3>2. Committed(c.digest).state # "prepared"
      BY RecordKinds
    <3>3. \A i \in Id : stage.ledger[i].state # "prepared"
      BY <2>2, <3>1, <3>2
    <3>4. QED
      BY <3>3, SlotIds
  <2>4. view.image.ledger[c.id].digest = c.digest
    BY <1>2 DEF AtRest, Prepared
  <2>5. stage.ledger = [id \in Id |-> IF id \in Slot(view.image)
                                     THEN Committed(view.image.ledger[id].digest)
                                     ELSE view.image.ledger[id]]
    BY <2>1, <2>2, <2>4, ImageFields DEF Ledger
  <2>6. stage # NoFile
    BY <2>2, NoFileAssumption DEF IsImage
  <2>7. QED
    BY <1>2, <2>2, <2>3, <2>5, <2>6 DEF Recovery
<1>3. QED
  BY <1>1, <1>2

\* What recovery accepts without removing anything is at rest in its view.
LEMMA RecoveredRests ==
  ASSUME NEW live, IsImage(live), \A i, j \in Slot(live) : i = j,
         NEW stage, stage = NoFile \/ (IsImage(stage) /\ stage.v2),
         Recovery(live, stage) \in {"none", "adopt"}
  PROVE  AtRest(Recovered(live, stage), stage)
<1>1. CASE Recovery(live, stage) = "none"
  BY <1>1, LoadedView DEF Recovery, Recovered, AtRest
<1>2. CASE Recovery(live, stage) = "adopt"
  <2> DEFINE id == CHOOSE i \in Slot(live) : TRUE
             c == [id |-> id, digest |-> live.ledger[id].digest, entries |-> stage.entries]
             view == [image |-> live, candidate |-> c]
  <2>1. /\ stage # NoFile /\ stage.fence = live.fence
        /\ Slot(live) # {}
        /\ stage.ledger = [i \in Id |-> IF i \in Slot(live)
                                        THEN Committed(live.ledger[i].digest)
                                        ELSE live.ledger[i]]
    BY <1>2 DEF Recovery
  <2>2. Recovered(live, stage) = view
    BY <1>2 DEF Recovered
  <2>3. Slot(live) = {id} /\ id \in Id
    BY <2>1, SlotIds
  <2>4. live.ledger[id] = Prepared(live.ledger[id].digest)
    BY <2>3, SlotIds, ImageFields, RecordKinds DEF Record, Prepared, Committed
  <2>5. [live.ledger EXCEPT ![id] = Committed(c.digest)] = stage.ledger
    BY <2>1, <2>3, ImageFields DEF Ledger
  <2>6. StageOf(view) = V2(live.fence, stage.ledger, stage.entries)
    BY <2>5 DEF StageOf
  <2>7. stage = V2(live.fence, stage.ledger, stage.entries)
    BY <2>1 DEF IsImage, Image, V2
  <2>8. QED
    BY <2>2, <2>3, <2>4, <2>6, <2>7 DEF AtRest
<1>3. QED
  BY <1>1, <1>2

\* A leftover that recovery removes stands beside a live file with a free slot.
LEMMA CleanMeansFree ==
  ASSUME NEW live, NEW stage, Recovery(live, stage) = "clean"
  PROVE  Slot(live) = {} /\ Recovered(live, stage) = Loaded(live)
BY DEF Recovery, Recovered

\* A stage that commits one id, beside a live file that agrees with it on every
\* other id and never prepared this one, has aborted it or has committed it, is
\* a leftover.
LEMMA LeftoverIsClean ==
  ASSUME NEW live, IsImage(live), Slot(live) = {},
         NEW stage, IsImage(stage), stage.fence = live.fence,
         NEW id \in Id, stage.ledger[id].state = "committed",
         live.ledger[id] \in {Unseen, Aborted} \/ live.ledger[id] = stage.ledger[id],
         \A i \in Id \ {id} : stage.ledger[i] = live.ledger[i]
  PROVE  Recovery(live, stage) = "clean"
<1> DEFINE differing == {i \in Id : stage.ledger[i] # live.ledger[i]}
<1>1. Slot(stage) = {}
  BY SlotIds
<1>2. differing = {} \/ differing = {id}
  OBVIOUS
<1>3. CleanupOnly(live, stage)
  BY <1>2 DEF CleanupOnly
<1>4. QED
  BY <1>1, <1>3, NoFileAssumption DEF Recovery, IsImage

-----------------------------------------------------------------------------
(* Calls that begin *)

LEMMA SoundStays == Sound /\ UNCHANGED disk => Sound'
BY DEF Sound, AlwaysRecoverable

LEMMA SettledStays == Settled /\ UNCHANGED <<disk, mem, uncertain>> => Settled'
BY DEF Settled, LiveIs

\* An owner that reconciles calls a store whose files are settled.
LEMMA InvokesSettled ==
  ASSUME Reconciles, TypeInv, FilesInv, Invokes
  PROVE  /\ Settled /\ mem # Nothing /\ call = Nothing
         /\ IsView(mem) /\ IsImage(mem.image)
BY MemFields DEF Invokes, Ready, FilesInv, TypeInv

\* A settled store reads its ledger and its fence in the live file.
LEMMA SettledFiles ==
  ASSUME TypeInv, Settled
  PROVE  /\ IsView(mem) /\ IsImage(mem.image) /\ mem # Nothing
         /\ disk.live # NoFile /\ LiveOf(disk) = disk.live /\ IsImage(disk.live)
         /\ disk.live.v2 = mem.image.v2
         /\ disk.live.fence = mem.image.fence
         /\ disk.live.ledger = mem.image.ledger
         /\ Slot(disk.live) = Slot(mem.image)
         /\ disk.live.entries = mem.image.entries \/ Slot(mem.image) = {}
BY MemFields, LiveImage DEF Settled, LiveIs, Follows, TypeInv, TypeOK, Slot

\* A call that goes straight to the live file.
LEMMA WritingBegins ==
  ASSUME FilesInv, NEW op \in CallOp, NEW id \in Id \cup {Nothing}, NEW next, IsView(next),
         NEW outcome \in Record, Start(op, id, next, "live.create", outcome),
         Writing(call)'
  PROVE  FilesInv'
<1>1. call' # Nothing /\ call'.step = "live.create" /\ UNCHANGED disk
  BY StartedCall DEF Start, CallStep
<1>2. Sound'
  BY <1>1, SoundStays DEF FilesInv
<1>3. QED
  BY <1>1, <1>2 DEF FilesInv, Phase

LEMMA MutateBegins ==
  ASSUME Reconciles, TypeInv, FilesInv, NEW next \in Entries, Mutate(next)
  PROVE  FilesInv'
<1> DEFINE image == [mem.image EXCEPT !.entries = next]
           view == [mem EXCEPT !.image = image]
<1>1. /\ Settled /\ IsView(mem) /\ IsImage(mem.image) /\ Slot(mem.image) = {}
      /\ Start("mutate", Nothing, view, "live.create", Unseen)
  BY InvokesSettled DEF Mutate, MutationAllowed
<1>2. IsImage(image) /\ Follows(image, mem.image)
  BY <1>1, EntriesReplaced DEF Follows
<1>3. IsView(view) /\ view.image = image /\ view.candidate = NoCandidate
  <2>1. mem.candidate = NoCandidate
    BY <1>1 DEF Settled, AtRest
  <2> HIDE DEF image
  <2>2. QED
    BY <1>1, <1>2, <2>1 DEF IsView, View, IsImage
<1> HIDE DEF view, image
<1>4. /\ call'.op = "mutate" /\ call'.next = view /\ call'.outcome = Unseen
      /\ UNCHANGED <<disk, mem, uncertain>>
  BY <1>1, <1>3, StartedCall, RecordKinds DEF CallOp, CallStep, Start
<1>5. Settled' /\ MutatePlanned(call)'
  BY <1>1, <1>2, <1>3, <1>4, SettledStays DEF MutatePlanned
<1>6. Writing(call)'
  BY <1>4, <1>5 DEF Writing, Planned
<1>7. QED
  BY <1>1, <1>3, <1>6, WritingBegins, RecordKinds DEF CallOp

LEMMA PrepareBegins ==
  ASSUME Reconciles, TypeInv, FilesInv, NEW id \in Id, NEW d \in Digest,
         NEW batch \in Batches, Prepare(id, d, batch)
  PROVE  FilesInv'
<1> DEFINE candidate == Outcome(mem.image.entries, batch)
           next == [image |-> V2(mem.image.fence,
                                 [mem.image.ledger EXCEPT ![id] = Prepared(d)],
                                 mem.image.entries),
                    candidate |-> [id |-> id, digest |-> d, entries |-> candidate]]
<1>1. /\ Settled /\ mem # Nothing /\ Startable(id) /\ LedgerHasRoom
      /\ Start("prepare", id, next, "stage.create", Prepared(d))
  BY InvokesSettled DEF Prepare
<1>2. candidate \in Entries
  BY <1>1, OutcomeInEntries, BatchesAssumption, MemFields, ImageFields DEF TypeInv
<1>3. IsView(next)
  BY <1>1, <1>2, PrepareView DEF TypeInv
<1>4. /\ next.candidate.id = id /\ next.candidate.digest = d
      /\ next.image = V2(mem.image.fence, [mem.image.ledger EXCEPT ![id] = Prepared(d)],
                         mem.image.entries)
  OBVIOUS
<1> HIDE DEF next
<1>5. /\ call' # Nothing /\ call'.op = "prepare" /\ call'.id = id /\ call'.next = next
      /\ call'.step = "stage.create" /\ call'.outcome = Prepared(d)
      /\ UNCHANGED <<disk, mem, uncertain>>
  BY <1>1, <1>3, StartedCall, RecordKinds DEF CallOp, CallStep, Start
<1>6. Settled' /\ PreparePlanned(call)'
  BY <1>1, <1>4, <1>5, SettledStays DEF PreparePlanned, Startable, LedgerHasRoom, Known
<1>7. Phase(call)'
  BY <1>5, <1>6 DEF Phase, Staging
<1>8. QED
  BY <1>5, <1>7, SoundStays DEF FilesInv

LEMMA CommitBegins ==
  ASSUME Reconciles, TypeInv, FilesInv, NEW id \in Id, Commit(id)
  PROVE  FilesInv'
<1> DEFINE outcome == Committed(mem.candidate.digest)
           next == Decide(id, outcome, mem.candidate.entries)
<1>1. /\ Settled /\ mem # Nothing /\ ~Retired(mem.image.fence, id)
      /\ Known(id).state = "prepared" /\ mem.candidate.id = id
      /\ Start("commit", id, next, "live.create", outcome)
  BY InvokesSettled DEF Commit, Committable
<1>2. outcome \in Record /\ mem.candidate.entries \in Entries
  BY <1>1, MemFields, ViewFields, RecordKinds DEF TypeInv
<1>3. IsView(next)
  BY <1>1, <1>2, DecideView DEF TypeInv
<1>4. /\ call'.op = "commit" /\ call'.id = id /\ call'.outcome = outcome
      /\ call'.next = next /\ UNCHANGED <<disk, mem, uncertain>>
  BY <1>1, <1>2, <1>3, StartedCall DEF CallOp, CallStep, Start
<1>5. Slot(mem.image) # {}
  BY <1>1, SlotIds DEF Known
<1>6. Settled' /\ CommitPlanned(call)'
  BY <1>1, <1>4, <1>5, SettledStays DEF CommitPlanned, Decide
<1>7. Writing(call)'
  BY <1>4, <1>6 DEF Writing, Planned
<1>8. QED
  BY <1>1, <1>2, <1>3, <1>7, WritingBegins DEF CallOp

LEMMA AbortBegins ==
  ASSUME Reconciles, TypeInv, FilesInv, NEW id \in Id, Abort(id)
  PROVE  FilesInv'
<1> DEFINE next == Decide(id, Aborted, mem.image.entries)
<1>1. /\ Settled /\ mem # Nothing /\ ~Retired(mem.image.fence, id)
      /\ Known(id).state \in {"unseen", "prepared"} /\ SlotFreeFor(id) /\ LedgerHasRoom
      /\ Start("abort", id, next, "live.create", Aborted)
  BY InvokesSettled DEF Abort, Abortable
<1>2. IsView(next)
  BY <1>1, DecideView, MemFields, ImageFields, RecordKinds DEF TypeInv
<1>3. /\ call'.op = "abort" /\ call'.id = id /\ call'.outcome = Aborted
      /\ call'.next = next /\ UNCHANGED <<disk, mem, uncertain>>
  BY <1>1, <1>2, StartedCall, RecordKinds DEF CallOp, CallStep, Start
<1>4. Settled' /\ AbortPlanned(call)'
  BY <1>1, <1>3, SettledStays DEF AbortPlanned, Decide, Known, SlotFreeFor, LedgerHasRoom
<1>5. Writing(call)'
  BY <1>3, <1>4 DEF Writing, Planned
<1>6. QED
  BY <1>1, <1>2, <1>5, WritingBegins, RecordKinds DEF CallOp

LEMMA ReclaimBegins ==
  ASSUME Reconciles, TypeInv, FilesInv, NEW g \in Generation, Reclaim(g)
  PROVE  FilesInv'
<1> DEFINE image == V2(g, Retain(mem.image.ledger, g), mem.image.entries)
           view == [mem EXCEPT !.image = image]
<1>1. /\ Settled /\ IsView(mem) /\ IsImage(mem.image) /\ Slot(mem.image) = {}
      /\ g > mem.image.fence
      /\ Start("reclaim", Nothing, view, "live.create", Unseen)
  BY InvokesSettled DEF Reclaim
<1>2. IsImage(image)
  BY <1>1, ImageFields, RetainKeepsLedger, V2Image, GenerationAssumption
<1>3. IsView(view) /\ view.image = image /\ view.candidate = NoCandidate
  <2>1. mem.candidate = NoCandidate
    BY <1>1 DEF Settled, AtRest
  <2> HIDE DEF image
  <2>2. QED
    BY <1>1, <1>2, <2>1 DEF IsView, View, IsImage
<1> HIDE DEF view
<1>4. /\ call'.op = "reclaim" /\ call'.next = view /\ call'.outcome = Unseen
      /\ UNCHANGED <<disk, mem, uncertain>>
  BY <1>1, <1>3, StartedCall, RecordKinds DEF CallOp, CallStep, Start
<1>5. Settled' /\ ReclaimPlanned(call)'
  BY <1>1, <1>3, <1>4, SettledStays DEF ReclaimPlanned
<1>6. Writing(call)'
  BY <1>4, <1>5 DEF Writing, Planned
<1>7. QED
  BY <1>1, <1>3, <1>6, WritingBegins, RecordKinds DEF CallOp

\* A store opened or reconciled from files that recovery accepts is settled.
LEMMA RecoveredSettles ==
  ASSUME TypeInv, FilesInv, disk.live # NoFile,
         Recovery(disk.live, disk.stage) \in {"none", "adopt"},
         mem' = Recovered(disk.live, disk.stage), uncertain' = Nothing, UNCHANGED disk
  PROVE  Settled'
<1>1. /\ IsImage(disk.live) /\ LiveOf(disk) = disk.live
      /\ disk.stage = NoFile \/ (IsImage(disk.stage) /\ disk.stage.v2)
  BY LiveImage DEF TypeInv, TypeOK
<1>2. AtRest(mem', disk.stage) /\ IsView(mem') /\ mem'.image = disk.live
  BY <1>1, RecoveredRests, RecoveredView DEF FilesInv, Sound
<1>3. mem' # Nothing
  BY <1>2, NothingAssumption DEF IsView
<1>4. QED
  BY <1>2, <1>3, NothingAssumption DEF Settled, LiveIs, Follows, CallOp

\* A call that begins by removing a leftover stage.
LEMMA RemovingBegins ==
  ASSUME TypeInv, FilesInv, NEW op \in {"open", "state"}, op = "open" <=> mem = Nothing,
         NEW id \in Id \cup {Nothing}, NEW outcome \in Record,
         IF op = "open" THEN outcome = Unseen ELSE disk.live # NoFile,
         Recovery(LiveOf(disk), disk.stage) = "clean",
         Start(op, id, Loaded(LiveOf(disk)), "remove", outcome),
         outcome = Unseen \/ /\ id \in Id /\ ~Retired(LiveOf(disk).fence, id)
                             /\ LiveOf(disk).ledger[id] = outcome
  PROVE  FilesInv'
<1>1. IsImage(LiveOf(disk)) /\ Slot(LiveOf(disk)) = {}
  BY LiveImage, CleanMeansFree DEF TypeInv, TypeOK
<1>2. /\ IsView(Loaded(LiveOf(disk))) /\ Loaded(LiveOf(disk)).image = LiveOf(disk)
      /\ Loaded(LiveOf(disk)).candidate = NoCandidate
  BY <1>1, LoadedView
<1>3. /\ call' # Nothing /\ call'.op = op /\ call'.id = id
      /\ call'.next = Loaded(LiveOf(disk))
      /\ call'.step = "remove" /\ call'.outcome = outcome
      /\ UNCHANGED <<disk, mem>>
  BY <1>2, StartedCall DEF CallOp, CallStep, Start
<1>4. LiveOf(disk)' = LiveOf(disk)
  BY <1>3 DEF LiveOf
<1>5. Removing(call)'
  BY <1>1, <1>2, <1>3, <1>4 DEF Removing, AnswerIn
<1>6. Phase(call)'
  BY <1>3, <1>5 DEF Phase
<1>7. QED
  BY <1>3, <1>6, SoundStays DEF FilesInv

\* Once the live file is written it is the image of the call.
LEMMA CallLive ==
  ASSUME TypeInv, call # Nothing, Written(call) \/ Removing(call)
  PROVE  LiveOf(disk) = call.next.image /\ IsImage(call.next.image)
BY CallFields, ViewFields, NoFileAssumption DEF Written, Removing, TypeInv, IsImage, LiveOf

LEMMA StateKeeps ==
  ASSUME TypeInv, FilesInv, NEW id \in Id, State(id)
  PROVE  FilesInv'
<1> DEFINE view == Recovered(disk.live, disk.stage)
           found == Recovery(disk.live, disk.stage)
           outcome == StateKnown(id, view)
<1>1. disk.live # NoFile /\ LiveOf(disk) = disk.live /\ IsImage(disk.live)
  BY LiveImage DEF State, TypeInv, TypeOK
<1>2. CASE /\ found \in {"none", "adopt"} /\ mem' = view
           /\ uncertain' = Nothing /\ UNCHANGED <<disk, call>>
  <2>1. Settled' /\ Sound'
    BY <1>1, <1>2, RecoveredSettles, SoundStays DEF FilesInv
  <2>2. QED
    BY <1>2, <2>1 DEF FilesInv, State, Ready
<1>3. CASE found = "clean" /\ Start("state", id, view, "remove", outcome)
  <2>1. view = Loaded(disk.live) /\ view.image = disk.live
    BY <1>1, <1>3, CleanMeansFree, LoadedView
  <2>2. /\ outcome \in Record
        /\ outcome = Unseen \/ /\ ~Retired(disk.live.fence, id)
                               /\ disk.live.ledger[id] = outcome
    BY <1>1, <2>1, ImageFields, RecordKinds DEF StateKnown
  <2> HIDE DEF view, outcome
  <2>3. QED
    BY <1>1, <1>3, <2>1, <2>2, RemovingBegins DEF State, Ready
<1>4. QED
  BY <1>2, <1>3 DEF State

LEMMA OpenKeeps ==
  ASSUME TypeInv, FilesInv, Open
  PROVE  FilesInv'
<1> DEFINE view == Recovered(LiveOf(disk), disk.stage)
           found == Recovery(LiveOf(disk), disk.stage)
<1>1. IsImage(LiveOf(disk)) /\ (disk.live # NoFile => LiveOf(disk) = disk.live)
  BY LiveImage DEF TypeInv, TypeOK
<1>2. CASE /\ found \in {"none", "adopt"} /\ disk.live # NoFile
           /\ mem' = view /\ uncertain' = Nothing /\ UNCHANGED <<disk, call>>
  <2>1. Settled' /\ Sound'
    BY <1>1, <1>2, RecoveredSettles, SoundStays DEF FilesInv
  <2>2. QED
    BY <1>2, <2>1 DEF FilesInv, Open
<1>3. CASE /\ found = "none" /\ disk.live = NoFile
           /\ Start("open", Nothing, view, "live.create", Unseen)
  <2>1. view = Loaded(LiveOf(disk)) /\ IsView(view)
    BY <1>1, <1>3, LoadedView DEF Recovered
  <2>2. disk.stage = NoFile
    BY <1>1, <1>3 DEF Recovery
  <2>3. /\ call'.op = "open" /\ call'.next = view /\ call'.outcome = Unseen
        /\ UNCHANGED <<disk, mem>>
    BY <1>3, <2>1, StartedCall, RecordKinds DEF CallOp, CallStep, Start
  <2>4. Writing(call)'
    BY <1>3, <2>1, <2>2, <2>3 DEF Writing, Opening, Open
  <2> HIDE DEF view
  <2>5. QED
    BY <1>3, <2>1, <2>4, WritingBegins, RecordKinds DEF CallOp
<1>4. CASE found = "clean" /\ Start("open", Nothing, view, "remove", Unseen)
  <2>1. view = Loaded(LiveOf(disk))
    BY <1>4, CleanMeansFree
  <2> HIDE DEF view
  <2>2. QED
    BY <1>4, <2>1, RemovingBegins, RecordKinds DEF Open
<1>5. QED
  BY <1>2, <1>3, <1>4 DEF Open

-----------------------------------------------------------------------------
(* What the guards of a call make of the image it writes *)

\* The next view of a prepare: its one prepared record is the candidate's, and
\* nothing else of the ledger and nothing of the entries is new.
LEMMA PreparedNext ==
  ASSUME TypeInv, mem # Nothing, NEW c, IsCall(c), PreparePlanned(c)
  PROVE  /\ IsView(c.next) /\ c.next.candidate # NoCandidate /\ c.id \in Id
         /\ Slot(mem.image) = {} /\ mem.image.ledger[c.id] = Unseen
         /\ ~Retired(mem.image.fence, c.id)
         /\ c.next.image.fence = mem.image.fence
         /\ c.next.image.entries = mem.image.entries
         /\ \A i \in Id : c.next.image.ledger[i] =
              IF i = c.id THEN Prepared(c.next.candidate.digest) ELSE mem.image.ledger[i]
         /\ Slot(c.next.image) = {c.id}
         /\ c.next.candidate.digest \in Digest /\ c.next.candidate.entries \in Entries
         /\ AnswerIn(c, c.next.image)
<1> DEFINE r == Prepared(c.next.candidate.digest)
           ledger == [mem.image.ledger EXCEPT ![c.id] = r]
<1>1. IsView(c.next) /\ c.id \in Id /\ c.next.candidate.id = c.id /\ c.outcome = r
  BY DEF IsCall, PreparePlanned
<1>2. /\ c.next.candidate # NoCandidate
      /\ c.next.candidate.digest \in Digest /\ c.next.candidate.entries \in Entries
  BY <1>1, ViewFields, NoCandidateKnown
<1>3. /\ Slot(mem.image) = {} /\ mem.image.ledger[c.id] = Unseen
      /\ ~Retired(mem.image.fence, c.id)
  BY DEF PreparePlanned, Startable, Known
<1>4. ledger \in Ledger /\ \A i \in Id : ledger[i] = IF i = c.id THEN r ELSE mem.image.ledger[i]
  BY <1>1, <1>2, MemFields, ImageFields, RecordKinds DEF Ledger, TypeInv
<1>5. c.next.image = V2(mem.image.fence, ledger, mem.image.entries)
  BY <1>1 DEF PreparePlanned
<1> HIDE DEF ledger
<1>6. /\ c.next.image.fence = mem.image.fence
      /\ c.next.image.entries = mem.image.entries
      /\ c.next.image.ledger = ledger
  BY <1>4, <1>5, V2Image, MemFields, ImageFields DEF TypeInv
<1>7. r.state = "prepared"
  BY RecordKinds
<1> HIDE DEF r
<1>8. Slot(c.next.image) = {c.id}
  <2>1. \A i \in Id : c.next.image.ledger[i].state = "prepared" <=> i = c.id
    BY <1>1, <1>3, <1>4, <1>6, <1>7, SlotIds
  <2>2. QED
    BY <1>1, <2>1, SlotIds
<1>9. AnswerIn(c, c.next.image)
  BY <1>1, <1>3, <1>4, <1>6 DEF AnswerIn
<1>10. QED
  BY <1>1, <1>2, <1>3, <1>4, <1>6, <1>8, <1>9 DEF r

\* The next view of a decision of id: its slot is free.
LEMMA DecidedNext ==
  ASSUME TypeInv, mem # Nothing, NEW id \in Id, Slot(mem.image) \subseteq {id},
         ~Retired(mem.image.fence, id), NEW r \in Record,
         r.state \in {"committed", "aborted"}, NEW e \in Entries,
         NEW next, next = Decide(id, r, e)
  PROVE  /\ IsView(next) /\ next.candidate = NoCandidate
         /\ next.image.fence = mem.image.fence /\ next.image.entries = e
         /\ \A i \in Id : next.image.ledger[i] = IF i = id THEN r ELSE mem.image.ledger[i]
         /\ Slot(next.image) = {}
         /\ ~Retired(next.image.fence, id) /\ next.image.ledger[id] = r
<1>1. /\ IsView(next) /\ next.candidate = NoCandidate
      /\ next.image.fence = mem.image.fence /\ next.image.entries = e
      /\ \A i \in Id : next.image.ledger[i] = IF i = id THEN r ELSE mem.image.ledger[i]
  BY DecideView DEF TypeInv
<1>2. \A i \in Id : next.image.ledger[i].state # "prepared"
  BY <1>1, SlotIds
<1>3. QED
  BY <1>1, <1>2, SlotIds

\* The next view of a commit: the candidate, recorded as committed.
LEMMA CommittedNext ==
  ASSUME TypeInv, mem # Nothing, AtRest(mem, disk.stage), NEW c, CommitPlanned(c)
  PROVE  /\ IsView(c.next) /\ c.next.candidate = NoCandidate /\ c.id \in Id
         /\ c.next.image.fence = mem.image.fence
         /\ c.next.image.entries = mem.candidate.entries
         /\ \A i \in Id : c.next.image.ledger[i] =
              IF i = c.id THEN Committed(mem.candidate.digest) ELSE mem.image.ledger[i]
         /\ Slot(c.next.image) = {} /\ Slot(mem.image) = {c.id}
         /\ mem.candidate # NoCandidate /\ mem.candidate.id = c.id
         /\ mem.image.ledger[c.id] = Prepared(mem.candidate.digest)
         /\ disk.stage = StageOf(mem)
         /\ AnswerIn(c, c.next.image)
<1>1. /\ c.id \in Id /\ mem.candidate.id = c.id /\ Slot(mem.image) = {c.id}
      /\ mem.image.ledger[c.id] = Prepared(mem.candidate.digest)
      /\ disk.stage = StageOf(mem) /\ mem # Nothing
  BY DEF AtRest, CommitPlanned
<1>2. mem.candidate # NoCandidate
  BY <1>1, NoCandidateKnown
<1>3. mem.candidate.entries \in Entries /\ Committed(mem.candidate.digest) \in Record
  BY <1>1, <1>2, MemFields, ViewFields, RecordKinds DEF TypeInv
<1>4. Committed(mem.candidate.digest).state = "committed"
  BY RecordKinds
<1>5. /\ c.next = Decide(c.id, Committed(mem.candidate.digest), mem.candidate.entries)
      /\ c.outcome = Committed(mem.candidate.digest)
      /\ ~Retired(mem.image.fence, c.id)
  BY DEF CommitPlanned
<1>6. /\ IsView(c.next) /\ c.next.candidate = NoCandidate
      /\ c.next.image.fence = mem.image.fence
      /\ c.next.image.entries = mem.candidate.entries
      /\ \A i \in Id : c.next.image.ledger[i] =
           IF i = c.id THEN Committed(mem.candidate.digest) ELSE mem.image.ledger[i]
      /\ Slot(c.next.image) = {}
      /\ ~Retired(c.next.image.fence, c.id)
      /\ c.next.image.ledger[c.id] = Committed(mem.candidate.digest)
  BY <1>1, <1>3, <1>4, <1>5, DecidedNext
<1>7. QED
  BY <1>1, <1>2, <1>5, <1>6 DEF AnswerIn

\* The next view of an abort: the entries of before, recorded as aborted.
LEMMA AbortedNext ==
  ASSUME TypeInv, mem # Nothing, AtRest(mem, disk.stage), NEW c, AbortPlanned(c)
  PROVE  /\ IsView(c.next) /\ c.next.candidate = NoCandidate /\ c.id \in Id
         /\ c.next.image.fence = mem.image.fence
         /\ c.next.image.entries = mem.image.entries
         /\ \A i \in Id : c.next.image.ledger[i] =
              IF i = c.id THEN Aborted ELSE mem.image.ledger[i]
         /\ Slot(c.next.image) = {} /\ Slot(mem.image) \subseteq {c.id}
         /\ AnswerIn(c, c.next.image)
<1>1. /\ c.id \in Id /\ Slot(mem.image) \subseteq {c.id} /\ mem # Nothing
      /\ c.next = Decide(c.id, Aborted, mem.image.entries) /\ c.outcome = Aborted
      /\ ~Retired(mem.image.fence, c.id)
  BY DEF AbortPlanned, SlotFreeFor
<1>2. /\ mem.image.entries \in Entries
      /\ Aborted \in Record /\ Aborted.state \in {"committed", "aborted"}
  BY MemFields, ImageFields, RecordKinds DEF TypeInv
<1>3. /\ IsView(c.next) /\ c.next.candidate = NoCandidate
      /\ c.next.image.fence = mem.image.fence
      /\ c.next.image.entries = mem.image.entries
      /\ \A i \in Id : c.next.image.ledger[i] =
           IF i = c.id THEN Aborted ELSE mem.image.ledger[i]
      /\ Slot(c.next.image) = {}
      /\ ~Retired(c.next.image.fence, c.id) /\ c.next.image.ledger[c.id] = Aborted
  BY SMTT(20), <1>1, <1>2, DecidedNext
<1>4. QED
  BY <1>1, <1>3 DEF AnswerIn

\* The next view of a reclaim: what is above the new fence, and a free slot.
LEMMA ReclaimedNext ==
  ASSUME TypeInv, mem # Nothing, NEW c, ReclaimPlanned(c)
  PROVE  \E g \in Generation :
           /\ g > mem.image.fence /\ c.next.image.fence = g
           /\ c.next.image.ledger = Retain(mem.image.ledger, g)
           /\ c.next.image.entries = mem.image.entries
           /\ Slot(c.next.image) = {} /\ Slot(mem.image) = {}
           /\ c.next.candidate = NoCandidate
<1>1. /\ Slot(mem.image) = {} /\ c.next.candidate = NoCandidate
      /\ \E g \in Generation :
           /\ g > mem.image.fence
           /\ c.next.image = V2(g, Retain(mem.image.ledger, g), mem.image.entries)
  BY DEF ReclaimPlanned
<1>2. PICK g \in Generation :
        /\ g > mem.image.fence
        /\ c.next.image = V2(g, Retain(mem.image.ledger, g), mem.image.entries)
  BY <1>1
<1>3. /\ c.next.image.fence = g /\ c.next.image.ledger = Retain(mem.image.ledger, g)
      /\ c.next.image.entries = mem.image.entries
  BY <1>2 DEF V2
<1>4. \A i \in Id : c.next.image.ledger[i] =
        IF Retired(g, i) THEN Unseen ELSE mem.image.ledger[i]
  BY <1>3, RetainKeepsLedger, MemFields, ImageFields DEF TypeInv
<1>5. \A i \in Id : c.next.image.ledger[i].state # "prepared"
  BY <1>1, <1>4, SlotIds, RecordKinds
<1>6. Slot(c.next.image) = {}
  BY <1>5, SlotIds
<1>7. QED
  BY <1>1, <1>2, <1>3, <1>6

-----------------------------------------------------------------------------
(* The steps of a call *)

\* A call that fails leaves files its view agrees with only if it is a point
\* write; after any other the owner has to reconcile.
LEMMA FailKeeps ==
  ASSUME TypeInv, FilesInv, call # Nothing, Fail, UNCHANGED disk
  PROVE  FilesInv'
<1>1. Sound' /\ Phase(call) /\ call' = Nothing
  BY SoundStays DEF FilesInv, Fail
<1>2. CASE call.op = "mutate"
  <2>1. uncertain' = "mutate" /\ UNCHANGED mem
    BY <1>2 DEF Fail
  <2>2. CASE Settled /\ Slot(mem.image) = {}
    BY <1>1, <2>1, <2>2 DEF Settled, LiveIs, FilesInv
  <2>3. CASE Written(call)
    <3>1. /\ mem # Nothing /\ disk.live = call.next.image
          /\ Follows(disk.live, mem.image) /\ Slot(mem.image) = {}
          /\ AtRest(mem, disk.stage)
      BY <1>2, <2>3 DEF Written
    <3>2. disk.live # NoFile
      BY <3>1, CallFields, ViewFields, NoFileAssumption DEF TypeInv, IsImage
    <3>3. Settled'
      BY <2>1, <3>1, <3>2 DEF Settled, LiveIs
    <3>4. QED
      BY <1>1, <3>3 DEF FilesInv
  <2>4. QED
    BY <1>1, <1>2, <2>2, <2>3, CallFields
       DEF Phase, Staging, Staged, Writing, Planned, MutatePlanned, Opening, Removing,
           CallStep, TypeInv
<1>3. CASE call.op = "open"
  <2>1. mem = Nothing
    BY <1>1, <1>3, CallFields
       DEF Phase, Staging, Staged, Writing, Planned, Opening, Written, Removing, CallStep,
           TypeInv
  <2>2. QED
    BY <1>1, <2>1 DEF FilesInv, Fail
<1>4. CASE call.op \notin {"open", "mutate"}
  <2>1. uncertain' = call.op /\ call.op # Nothing
    BY <1>4, CallFields, NothingAssumption DEF Fail, TypeInv
  <2>2. QED
    BY <1>1, <1>4, <2>1 DEF FilesInv
<1>5. QED
  BY <1>2, <1>3, <1>4

\* A call that ends well leaves its files settled.
LEMMA FinishKeeps ==
  ASSUME TypeInv, call # Nothing, Finish, Sound', disk'.live = call.next.image,
         AtRest(call.next, disk'.stage)
  PROVE  FilesInv'
<1>1. /\ IsView(call.next) /\ call.next # Nothing /\ mem' = call.next /\ call' = Nothing
      /\ uncertain' # "mutate"
  BY CallFields, NothingAssumption DEF Finish, TypeInv, IsView, CallOp
<1>2. disk'.live # NoFile
  BY <1>1, ViewFields, NoFileAssumption DEF IsImage
<1>3. Settled'
  BY <1>1, <1>2 DEF Settled, LiveIs, Follows
<1>4. QED
  BY <1>1, <1>3 DEF FilesInv

\* Creating a temporary changes nothing that is said of the files.
LEMMA CreateKeeps ==
  ASSUME TypeInv, FilesInv, NEW file,
         NEW step, NEW then,
         \/ step = "stage.create" /\ then = "stage.replace"
         \/ step = "live.create" /\ then = "live.replace",
         Create(file, step, then)
  PROVE  FilesInv'
<1>1. call # Nothing /\ call.step = step /\ UNCHANGED disk
  BY DEF Create, WriteFails, Running
<1>2. CASE Fail
  BY <1>1, <1>2, FailKeeps
<1>3. CASE StepTo(then) /\ UNCHANGED <<mem, heard, uncertain>>
  <2>1. /\ call' # Nothing /\ call'.step = then
        /\ call'.op = call.op /\ call'.id = call.id
        /\ call'.next = call.next /\ call'.outcome = call.outcome
    BY <1>1, <1>3, CallAdvances DEF TypeInv, CallStep
  <2>2. CASE step = "stage.create"
    <3>1. Staging(call)
      BY <1>1, <2>2 DEF FilesInv, Phase
    <3>2. Staging(call)'
      BY <1>1, <1>3, <2>1, <3>1, SettledStays
         DEF Staging, PreparePlanned, Startable, LedgerHasRoom, Known
    <3>3. Phase(call)'
      BY <2>1, <2>2, <3>2 DEF Phase
    <3>4. QED
      BY <1>1, <2>1, <3>3, SoundStays DEF FilesInv
  <2>3. CASE step = "live.create"
    <3>1. Writing(call)
      BY <1>1, <2>3 DEF FilesInv, Phase
    <3>2. Writing(call)'
      <4>1. CASE Staged(call)
        BY <1>1, <1>3, <2>1, <4>1
           DEF Writing, Staged, LiveIs, PreparePlanned, Startable, LedgerHasRoom, Known
      <4>2. CASE Opening(call)
        BY <1>1, <1>3, <2>1, <4>2 DEF Writing, Opening
      <4>3. CASE Planned(call) /\ Settled
        <5>1. Settled'
          BY <1>1, <1>3, <4>3, SettledStays
        <5>2. Planned(call)'
          BY <1>3, <2>1, <4>3
             DEF Planned, MutatePlanned, CommitPlanned, AbortPlanned, ReclaimPlanned,
                 Decide, Known, SlotFreeFor, LedgerHasRoom
        <5>3. QED
          BY <5>1, <5>2 DEF Writing
      <4>4. QED
        BY <3>1, <4>1, <4>2, <4>3 DEF Writing
    <3>3. Phase(call)'
      BY <2>1, <2>3, <3>2 DEF Phase
    <3>4. QED
      BY <1>1, <2>1, <3>3, SoundStays DEF FilesInv
  <2>4. QED
    BY <2>2, <2>3
<1>4. QED
  BY <1>2, <1>3 DEF Create, WriteFails

\* The stage of a prepare is installed: until the live file follows, recovery
\* finds a stage that commits an id the live file has never seen.
LEMMA ReplaceStageKeeps ==
  ASSUME TypeInv, FilesInv, Replace("stage", "stage.replace", "stage.sync")
  PROVE  FilesInv'
<1>1. call # Nothing /\ call.step = "stage.replace" /\ IsCall(call)
  BY CallFields DEF Replace, WriteFails, Running, TypeInv
<1>2. CASE Fail /\ UNCHANGED disk
  BY <1>1, <1>2, FailKeeps
<1>3. CASE /\ disk' = [disk EXCEPT !.stage = StageOf(call.next)]
           /\ StepTo("stage.sync") /\ UNCHANGED <<mem, heard, uncertain>>
  <2>1. call.op = "prepare" /\ PreparePlanned(call) /\ Settled
    BY <1>1 DEF FilesInv, Phase, Staging
  <2>2. /\ IsView(call.next) /\ call.next.candidate # NoCandidate /\ call.id \in Id
        /\ Slot(mem.image) = {} /\ mem.image.ledger[call.id] = Unseen
        /\ call.next.candidate.id = call.id
        /\ call.next.image.fence = mem.image.fence
        /\ \A i \in Id : i # call.id => call.next.image.ledger[i] = mem.image.ledger[i]
    BY <1>1, <2>1, PreparedNext DEF Settled, PreparePlanned
  <2>3. /\ IsImage(StageOf(call.next)) /\ StageOf(call.next).fence = call.next.image.fence
        /\ \A i \in Id : StageOf(call.next).ledger[i] =
             IF i = call.id THEN Committed(call.next.candidate.digest)
             ELSE call.next.image.ledger[i]
    BY <2>2, StageFields
  <2>4. disk'.live = disk.live /\ disk'.stage = StageOf(call.next)
    BY <1>3, <2>3, FileReplaced DEF TypeInv, TypeOK
  <2>5. /\ LiveOf(disk) = disk.live /\ IsImage(disk.live) /\ disk.live # NoFile
        /\ disk.live.fence = mem.image.fence /\ disk.live.ledger = mem.image.ledger
        /\ Slot(disk.live) = {}
    BY <2>1, <2>2, SettledFiles
  <2>6. Committed(call.next.candidate.digest).state = "committed"
    BY RecordKinds
  <2>7. Recovery(disk.live, StageOf(call.next)) = "clean"
    BY <2>2, <2>3, <2>5, <2>6, LeftoverIsClean
  <2>8. LiveOf(disk') = disk.live
    BY <2>4, <2>5 DEF LiveOf
  <2>9. Sound'
    BY <2>4, <2>5, <2>7, <2>8 DEF Sound, AlwaysRecoverable
  <2>10. /\ call' # Nothing /\ call'.step = "stage.sync"
         /\ call'.op = call.op /\ call'.id = call.id
         /\ call'.next = call.next /\ call'.outcome = call.outcome
    BY <1>1, <1>3, CallAdvances DEF TypeInv, CallStep
  <2>11. PreparePlanned(call)'
    BY <1>3, <2>1, <2>10 DEF PreparePlanned, Startable, LedgerHasRoom, Known
  <2>12. LiveIs(mem)' /\ mem' # Nothing
    BY <1>3, <2>1, <2>4 DEF Settled, LiveIs
  <2>13. Staged(call)'
    BY <2>1, <2>4, <2>10, <2>11, <2>12 DEF Staged
  <2>14. QED
    BY <2>9, <2>10, <2>13 DEF FilesInv, Phase
<1>4. QED
  BY <1>2, <1>3 DEF Replace, WriteFails, Target

LEMMA SyncStageKeeps ==
  ASSUME TypeInv, FilesInv, SyncStage
  PROVE  FilesInv'
<1>1. call # Nothing /\ call.step = "stage.sync" /\ UNCHANGED disk
  BY DEF SyncStage, Running
<1>2. CASE Fail
  BY <1>1, <1>2, FailKeeps
<1>3. CASE StepTo("live.create") /\ UNCHANGED <<mem, heard, uncertain>>
  <2>1. /\ call' # Nothing /\ call'.step = "live.create"
        /\ call'.op = call.op /\ call'.id = call.id
        /\ call'.next = call.next /\ call'.outcome = call.outcome
    BY <1>1, <1>3, CallAdvances DEF TypeInv, CallStep
  <2>2. Staged(call)
    BY <1>1 DEF FilesInv, Phase
  <2>3. Staged(call)'
    BY <1>1, <1>3, <2>1, <2>2
       DEF Staged, LiveIs, PreparePlanned, Startable, LedgerHasRoom, Known
  <2>4. Phase(call)'
    BY <2>1, <2>3 DEF Phase, Writing
  <2>5. QED
    BY <1>1, <2>1, <2>4, SoundStays DEF FilesInv
<1>4. QED
  BY <1>2, <1>3 DEF SyncStage

-----------------------------------------------------------------------------
(* The live file is replaced: the one step of a call that its owner can see *)

Installs ==
  /\ call # Nothing
  /\ disk' = [disk EXCEPT !.live = call.next.image]
  /\ StepTo("live.sync")
  /\ UNCHANGED <<mem, heard, uncertain>>

LEMMA InstalledFiles ==
  ASSUME TypeInv, Installs
  PROVE  /\ IsView(call.next) /\ IsImage(call.next.image) /\ IsCall(call)
         /\ disk'.live = call.next.image /\ disk'.stage = disk.stage
         /\ disk'.live # NoFile /\ LiveOf(disk') = call.next.image
         /\ call' # Nothing /\ call'.step = "live.sync"
         /\ call'.op = call.op /\ call'.id = call.id
         /\ call'.next = call.next /\ call'.outcome = call.outcome
         /\ mem' = mem
<1>1. IsView(call.next) /\ IsImage(call.next.image) /\ IsCall(call)
  BY CallFields, ViewFields DEF Installs, TypeInv
<1>2. disk'.live = call.next.image /\ disk'.stage = disk.stage
  BY <1>1, FileReplaced DEF Installs, TypeInv, TypeOK
<1>3. disk'.live # NoFile
  BY <1>1, <1>2, NoFileAssumption DEF IsImage
<1>4. QED
  BY <1>1, <1>2, <1>3, CallAdvances DEF Installs, TypeInv, CallStep, LiveOf

\* Files that recovery accepts, with at most one prepared record.
LEMMA InstalledSound ==
  ASSUME TypeInv, Installs, \A i, j \in Slot(call.next.image) : i = j,
         Recovery(call.next.image, disk.stage) # "refuse"
  PROVE  Sound'
BY InstalledFiles DEF Sound, AlwaysRecoverable

LEMMA InstallOpen ==
  ASSUME TypeInv, Installs, Opening(call)
  PROVE  Sound' /\ Written(call)'
<1>1. /\ call.op = "open" /\ mem = Nothing /\ disk.stage = NoFile
      /\ call.next = Loaded(LiveOf(disk)) /\ call.outcome = Unseen
      /\ LiveOf(disk) = V1([a \in Addr |-> NoValue])
  BY DEF Opening, LiveOf
<1>2. call.next.image.ledger = EmptyLedger /\ call.next.candidate = NoCandidate
  BY <1>1 DEF Loaded, V1
<1>3. Slot(call.next.image) = {}
  <2>1. \A i \in Id : call.next.image.ledger[i].state # "prepared"
    BY <1>2, RecordKinds DEF EmptyLedger
  <2>2. QED
    BY <2>1, SlotIds
<1>4. Recovery(call.next.image, disk.stage) = "none"
  BY <1>1, <1>3 DEF Recovery
<1>5. Written(call)'
  BY <1>1, <1>2, <1>3, InstalledFiles DEF Written, AnswerIn, AtRest, RemovesStage
<1>6. QED
  BY <1>3, <1>4, <1>5, InstalledSound

LEMMA InstallMutate ==
  ASSUME TypeInv, Installs, Settled, call.op = "mutate", MutatePlanned(call)
  PROVE  Sound' /\ Written(call)'
<1>1. /\ Slot(mem.image) = {} /\ Follows(call.next.image, mem.image)
      /\ call.next.candidate = NoCandidate /\ call.outcome = Unseen
      /\ mem # Nothing /\ AtRest(mem, disk.stage) /\ disk.stage = NoFile
  BY DEF MutatePlanned, Settled, AtRest
<1>2. Slot(call.next.image) = {}
  BY <1>1 DEF Follows, Slot
<1>3. Recovery(call.next.image, disk.stage) = "none"
  BY <1>1, <1>2 DEF Recovery
<1>4. AtRest(call.next, disk.stage)
  BY <1>1, <1>2 DEF AtRest
<1>5. Written(call)'
  BY <1>1, <1>2, <1>4, InstalledFiles DEF Written, AnswerIn, RemovesStage
<1>6. QED
  BY <1>2, <1>3, <1>5, InstalledSound

LEMMA InstallPrepare ==
  ASSUME TypeInv, Installs, Staged(call)
  PROVE  Sound' /\ Written(call)'
<1>1. call.op = "prepare" /\ mem # Nothing /\ PreparePlanned(call)
      /\ disk.stage = StageOf(call.next)
  BY DEF Staged
<1>2. /\ IsView(call.next) /\ call.next.candidate.id = call.id /\ call.id \in Id
      /\ Slot(call.next.image) = {call.id}
      /\ call.next.image.entries = mem.image.entries
      /\ call.next.image.ledger[call.id] = Prepared(call.next.candidate.digest)
      /\ AnswerIn(call, call.next.image)
  BY <1>1, InstalledFiles, PreparedNext DEF PreparePlanned
<1>3. AtRest(call.next, disk.stage)
  BY <1>1, <1>2 DEF AtRest
<1>4. Recovery(call.next.image, disk.stage) # "refuse"
  BY <1>2, <1>3, RestRecovers
<1>5. Written(call)'
  BY <1>1, <1>2, <1>3, InstalledFiles DEF Written, AnswerIn, RemovesStage
<1>6. QED
  BY <1>2, <1>4, <1>5, InstalledSound

LEMMA InstallCommit ==
  ASSUME TypeInv, Installs, Settled, call.op = "commit", CommitPlanned(call)
  PROVE  Sound' /\ Written(call)'
<1> DEFINE r == Committed(mem.candidate.digest)
<1>1. /\ call.next.candidate = NoCandidate /\ call.id \in Id
      /\ call.next.image.fence = mem.image.fence
      /\ \A i \in Id : call.next.image.ledger[i] =
           IF i = call.id THEN r ELSE mem.image.ledger[i]
      /\ Slot(call.next.image) = {}
      /\ mem.candidate # NoCandidate /\ mem.candidate.id = call.id
      /\ disk.stage = StageOf(mem)
      /\ AnswerIn(call, call.next.image)
  BY CommittedNext DEF Settled
<1>2. mem # Nothing /\ IsView(mem)
  BY SettledFiles
<1>3. /\ IsImage(disk.stage) /\ disk.stage.fence = mem.image.fence
      /\ \A i \in Id : disk.stage.ledger[i] =
           IF i = call.id THEN r ELSE mem.image.ledger[i]
  BY <1>1, <1>2, StageFields
<1>4. r.state = "committed"
  BY RecordKinds
<1> HIDE DEF r
<1>5. Recovery(call.next.image, disk.stage) = "clean"
  BY <1>1, <1>3, <1>4, InstalledFiles, LeftoverIsClean
<1>6. Written(call)'
  BY <1>1, <1>2, InstalledFiles DEF Written, AnswerIn, RemovesStage
<1>7. QED
  BY <1>1, <1>5, <1>6, InstalledSound

LEMMA InstallAbort ==
  ASSUME TypeInv, Installs, Settled, call.op = "abort", AbortPlanned(call)
  PROVE  Sound' /\ Written(call)'
<1>1. /\ call.next.candidate = NoCandidate /\ call.id \in Id
      /\ call.next.image.fence = mem.image.fence
      /\ \A i \in Id : call.next.image.ledger[i] =
           IF i = call.id THEN Aborted ELSE mem.image.ledger[i]
      /\ Slot(call.next.image) = {} /\ Slot(mem.image) \subseteq {call.id}
      /\ AnswerIn(call, call.next.image)
  BY AbortedNext DEF Settled
<1>2. mem # Nothing /\ IsView(mem) /\ AtRest(mem, disk.stage)
  BY SettledFiles DEF Settled
<1>3. RemovesStage <=> Slot(mem.image) # {}
  <2>1. RemovesStage <=> mem.image.ledger[call.id].state = "prepared"
    BY DEF RemovesStage, Known
  <2>2. QED
    BY <1>1, <2>1, SlotIds
<1>4. Recovery(call.next.image, disk.stage) # "refuse"
  <2>1. CASE Slot(mem.image) = {}
    BY <1>1, <1>2, <2>1 DEF AtRest, Recovery
  <2>2. CASE Slot(mem.image) # {}
    <3> DEFINE r == Committed(mem.candidate.digest)
    <3>1. mem.candidate # NoCandidate /\ mem.candidate.id = call.id /\ disk.stage = StageOf(mem)
      BY <1>1, <1>2, <2>2, RestHasCandidate DEF AtRest
    <3>2. /\ IsImage(disk.stage) /\ disk.stage.fence = mem.image.fence
          /\ \A i \in Id : disk.stage.ledger[i] =
               IF i = call.id THEN r ELSE mem.image.ledger[i]
      BY <1>2, <3>1, StageFields
    <3>3. r.state = "committed"
      BY RecordKinds
    <3> HIDE DEF r
    <3>4. Recovery(call.next.image, disk.stage) = "clean"
      BY <1>1, <3>2, <3>3, InstalledFiles, LeftoverIsClean
    <3>5. QED
      BY <3>4
  <2>3. QED
    BY <2>1, <2>2
<1>5. ~RemovesStage => AtRest(call.next, disk.stage)
  BY <1>1, <1>2, <1>3 DEF AtRest
<1>6. RemovesStage' = RemovesStage
  BY InstalledFiles DEF RemovesStage, Known
<1>7. Written(call)'
  BY <1>1, <1>2, <1>5, <1>6, InstalledFiles DEF Written, AnswerIn
<1>8. QED
  BY <1>1, <1>4, <1>7, InstalledSound

LEMMA InstallReclaim ==
  ASSUME TypeInv, Installs, Settled, call.op = "reclaim", ReclaimPlanned(call)
  PROVE  Sound' /\ Written(call)'
<1>1. /\ Slot(call.next.image) = {} /\ Slot(mem.image) = {} /\ mem # Nothing
      /\ call.next.candidate = NoCandidate /\ call.outcome = Unseen
      /\ disk.stage = NoFile
  BY ReclaimedNext DEF ReclaimPlanned, Settled, AtRest
<1>2. Recovery(call.next.image, disk.stage) = "none" /\ AtRest(call.next, disk.stage)
  BY <1>1 DEF Recovery, AtRest
<1>3. Written(call)'
  BY <1>1, <1>2, InstalledFiles DEF Written, AnswerIn, RemovesStage
<1>4. QED
  BY <1>1, <1>2, <1>3, InstalledSound

LEMMA ReplaceLiveKeeps ==
  ASSUME TypeInv, FilesInv, Replace("live", "live.replace", "live.sync")
  PROVE  FilesInv'
<1>1. call # Nothing /\ call.step = "live.replace"
  BY DEF Replace, WriteFails, Running
<1>2. CASE Fail /\ UNCHANGED disk
  BY <1>1, <1>2, FailKeeps
<1>3. CASE Installs
  <2>1. Writing(call)
    BY <1>1 DEF FilesInv, Phase
  <2>2. Sound' /\ Written(call)'
    BY <1>3, <2>1, InstallOpen, InstallMutate, InstallPrepare, InstallCommit, InstallAbort,
       InstallReclaim DEF Writing, Planned
  <2>3. QED
    BY <1>3, <2>2, InstalledFiles DEF FilesInv, Phase
<1>4. QED
  BY <1>1, <1>2, <1>3 DEF Replace, WriteFails, Target, Installs

-----------------------------------------------------------------------------
(* The call answers, or goes on to remove the stage *)

LEMMA SyncLiveKeeps ==
  ASSUME TypeInv, FilesInv, SyncLive
  PROVE  FilesInv'
<1>1. call # Nothing /\ call.step = "live.sync" /\ UNCHANGED disk
  BY DEF SyncLive, Running
<1>2. Written(call) /\ Sound' /\ IsView(call.next)
  BY <1>1, SoundStays, CallFields DEF FilesInv, Phase, TypeInv
<1>3. CASE Fail
  BY <1>1, <1>3, FailKeeps
<1>4. CASE RemovesStage /\ Installed
  <2>1. /\ call' # Nothing /\ call'.step = "remove"
        /\ call'.op = call.op /\ call'.id = call.id
        /\ call'.next = call.next /\ call'.outcome = call.outcome
        /\ mem' = call.next
    BY <1>1, <1>4, CallAdvances DEF Installed, TypeInv, CallStep
  <2>2. mem' # Nothing /\ call.op \in {"commit", "abort"}
    BY <1>2, <1>4, <2>1, NothingAssumption DEF RemovesStage, IsView
  <2>3. Removing(call)'
    <3>1. LiveOf(disk) = call.next.image /\ LiveOf(disk)' = LiveOf(disk)
      BY <1>1, <1>2, CallLive DEF LiveOf
    <3>2. disk.live # NoFile
      BY <1>2, NoFileAssumption, ViewFields DEF Written, IsImage
    <3>3. QED
      BY <1>1, <1>2, <1>4, <2>1, <2>2, <3>1, <3>2 DEF Written, Removing, AnswerIn
  <2>4. QED
    BY <1>2, <2>1, <2>3 DEF FilesInv, Phase
<1>5. CASE ~RemovesStage /\ Installed
  <2>1. Finish /\ disk'.live = call.next.image /\ AtRest(call.next, disk'.stage)
    BY <1>1, <1>2, <1>5 DEF Installed, Written
  <2>2. QED
    BY <1>1, <1>2, <2>1, FinishKeeps
<1>6. QED
  BY <1>3, <1>4, <1>5 DEF SyncLive

\* The stage is gone and the live file was written before: the call is done.  An
\* open that found no live file goes on to write the first one.
LEMMA RemovedKeeps ==
  ASSUME TypeInv, call # Nothing, Removing(call), Removed, Sound',
         disk'.live = disk.live, disk'.stage = NoFile
  PROVE  FilesInv'
<1>1. CASE disk.live # NoFile
  <2>1. disk.live = call.next.image
    BY <1>1, CallLive DEF LiveOf
  <2>2. Finish
    BY <1>1 DEF Removed
  <2>3. AtRest(call.next, disk'.stage)
    BY DEF Removing, AtRest
  <2>4. QED
    BY <2>1, <2>2, <2>3, FinishKeeps
<1>2. CASE disk.live = NoFile
  <2>1. /\ call.op = "open" /\ mem = Nothing /\ call.outcome = Unseen
        /\ LiveOf(disk) = call.next.image /\ call.next.candidate = NoCandidate
    BY <1>2 DEF Removing
  <2>2. StepTo("live.create") /\ UNCHANGED mem
    BY <1>2, <2>1 DEF Removed
  <2>3. /\ call' # Nothing /\ call'.step = "live.create"
        /\ call'.op = call.op /\ call'.next = call.next /\ call'.outcome = call.outcome
    BY <2>2, CallAdvances DEF TypeInv, CallStep
  <2>4. call.next = Loaded(LiveOf(disk)) /\ LiveOf(disk)' = LiveOf(disk)
    BY <2>1, CallFields, ViewFields DEF TypeInv, Loaded, LiveOf
  <2>5. Opening(call)'
    BY <1>2, <2>1, <2>2, <2>3, <2>4 DEF Opening
  <2>6. QED
    BY <2>3, <2>5 DEF FilesInv, Phase, Writing
<1>3. QED
  BY <1>1, <1>2

LEMMA RemoveStageKeeps ==
  ASSUME TypeInv, FilesInv, RemoveStage
  PROVE  FilesInv'
<1>1. call # Nothing /\ call.step = "remove" /\ Removing(call)
  BY DEF RemoveStage, Running, FilesInv, Phase
<1>2. CASE Fail /\ UNCHANGED disk
  BY <1>1, <1>2, FailKeeps
<1>3. CASE disk' = [disk EXCEPT !.stage = NoFile]
  <2>1. disk'.live = disk.live /\ disk'.stage = NoFile
    BY <1>3, StageRemoved DEF TypeInv, TypeOK
  <2>2. LiveOf(disk) = call.next.image /\ Slot(LiveOf(disk)) = {}
    BY <1>1 DEF Removing
  <2>3. LiveOf(disk)' = LiveOf(disk)
    BY <2>1 DEF LiveOf
  <2>4. Sound'
    BY <2>1, <2>2, <2>3 DEF Sound, AlwaysRecoverable, Recovery
  <2>5. CASE Removed
    BY <1>1, <2>1, <2>4, <2>5, RemovedKeeps
  <2>6. CASE StepTo("remove.sync") /\ UNCHANGED <<mem, heard, uncertain>>
    <3>1. /\ call' # Nothing /\ call'.step = "remove.sync"
          /\ call'.op = call.op /\ call'.id = call.id
          /\ call'.next = call.next /\ call'.outcome = call.outcome
      BY <1>1, <2>6, CallAdvances DEF TypeInv, CallStep
    <3>2. Removing(call)'
      BY <1>1, <2>1, <2>3, <2>6, <3>1 DEF Removing, AnswerIn
    <3>3. QED
      BY <2>1, <2>4, <3>1, <3>2 DEF FilesInv, Phase
  <2>7. QED
    BY <1>3, <2>5, <2>6, <1>2 DEF RemoveStage
<1>4. QED
  BY <1>2, <1>3 DEF RemoveStage

LEMMA SyncRemoveKeeps ==
  ASSUME TypeInv, FilesInv, SyncRemove
  PROVE  FilesInv'
<1>1. /\ call # Nothing /\ Removing(call) /\ disk.stage = NoFile
      /\ UNCHANGED disk /\ Sound'
  BY SoundStays DEF SyncRemove, Running, FilesInv, Phase
<1>2. CASE Fail
  BY <1>1, <1>2, FailKeeps
<1>3. CASE Removed
  BY <1>1, <1>3, RemovedKeeps
<1>4. QED
  BY <1>2, <1>3 DEF SyncRemove

LEMMA StepKeeps ==
  ASSUME TypeInv, FilesInv, Step
  PROVE  FilesInv'
<1>1. CASE Create("stage", "stage.create", "stage.replace")
  BY <1>1, CreateKeeps
<1>2. CASE Create("live", "live.create", "live.replace")
  BY <1>2, CreateKeeps
<1>3. QED
  BY <1>1, <1>2, ReplaceStageKeeps, SyncStageKeeps, ReplaceLiveKeeps, SyncLiveKeeps,
     RemoveStageKeeps, SyncRemoveKeeps DEF Step

-----------------------------------------------------------------------------
(* The invariant holds *)

\* Whatever an owner that reconciles calls, and whatever fails, short of a power
\* loss.
LEMMA NextKeeps ==
  ASSUME Reconciles, TypeInv, FilesInv, [Next]_vars, ~PowerLoss
  PROVE  FilesInv'
<1>1. ASSUME NEW next \in Entries, Mutate(next)
      PROVE  FilesInv'
  BY <1>1, MutateBegins
<1>2. ASSUME NEW at \in Addr, NEW e \in Val \cup {NoValue}, mem # Nothing
      PROVE  [mem.image.entries EXCEPT ![at] = e] \in Entries
  BY <1>2, MemFields, ImageFields DEF TypeInv, Entries
<1>3. ASSUME NEW at \in Addr, (\E secret \in Val : Put(at, secret)) \/ Delete(at)
      PROVE  FilesInv'
  BY <1>1, <1>2, <1>3 DEF Put, Delete, Mutate, Invokes, Ready
<1>4. ASSUME NEW batch \in Batches, Apply(batch)
      PROVE  FilesInv'
  <2>1. Outcome(mem.image.entries, batch) \in Entries
    BY <1>4, OutcomeInEntries, BatchesAssumption, MemFields, ImageFields
       DEF Apply, Ready, TypeInv
  <2>2. QED
    BY <1>1, <1>4, <2>1 DEF Apply
<1>5. ASSUME NEW id \in Id, NEW d \in Digest, NEW batch \in Batches, Prepare(id, d, batch)
      PROVE  FilesInv'
  BY <1>5, PrepareBegins
<1>6. ASSUME NEW id \in Id, State(id) \/ Commit(id) \/ Abort(id)
      PROVE  FilesInv'
  BY <1>6, StateKeeps, CommitBegins, AbortBegins
<1>7. ASSUME NEW g \in Generation, Reclaim(g)
      PROVE  FilesInv'
  BY <1>7, ReclaimBegins
<1>8. CASE Crash
  BY <1>8, SoundStays DEF Crash, FilesInv
<1>9. CASE \/ \E id \in Id : AnswerAgain(id)
           \/ Writeback
           \/ UNCHANGED vars
  <2>1. UNCHANGED <<disk, mem, call, uncertain>>
    BY <1>9 DEF AnswerAgain, Answer, Writeback, vars
  <2>2. Sound' /\ (Settled => Settled')
    BY <2>1, SoundStays, SettledStays DEF FilesInv
  <2>3. CASE call = Nothing
    BY <2>1, <2>2, <2>3 DEF FilesInv
  <2>4. CASE call # Nothing
    <3>1. Phase(call)'
      BY <2>1, <2>4
         DEF FilesInv, Phase, Staging, Staged, Writing, Written, Removing, Opening,
             Settled, LiveIs, Planned, MutatePlanned, PreparePlanned, CommitPlanned,
             AbortPlanned, ReclaimPlanned, RemovesStage, Startable, LedgerHasRoom, Known,
             Decide, SlotFreeFor
    <3>2. QED
      BY <2>1, <2>2, <2>4, <3>1 DEF FilesInv
  <2>5. QED
    BY <2>3, <2>4
<1>10. ASSUME Next
       PROVE  FilesInv'
  <2>1. CASE Open \/ Step \/ Crash \/ Writeback
    BY <1>8, <1>9, <2>1, OpenKeeps, StepKeeps
  <2>2. CASE \/ \E at \in Addr, secret \in Val : Put(at, secret)
             \/ \E at \in Addr : Delete(at)
             \/ \E batch \in Batches : Apply(batch)
    BY <1>3, <1>4, <2>2
  <2>3. CASE \/ \E id \in Id, d \in Digest, batch \in Batches : Prepare(id, d, batch)
             \/ \E id \in Id : State(id) \/ Commit(id) \/ Abort(id) \/ AnswerAgain(id)
             \/ \E g \in Generation : Reclaim(g)
    BY <1>5, <1>6, <1>7, <1>9, <2>3
  <2>4. QED
    BY <1>10, <2>1, <2>2, <2>3 DEF Next
<1>11. QED
  BY <1>9, <1>10

LEMMA InitFiles == Init => FilesInv
<1> SUFFICES ASSUME Init
             PROVE  FilesInv
  OBVIOUS
<1>1. LiveOf(disk).ledger = EmptyLedger
  BY NoFileAssumption DEF Init, LiveOf, V1
<1>2. \A i \in Id : LiveOf(disk).ledger[i].state # "prepared"
  BY <1>1, RecordKinds DEF EmptyLedger
<1>3. Slot(LiveOf(disk)) = {}
  BY <1>2, SlotIds
<1>4. disk.stage = NoFile /\ call = Nothing /\ mem = Nothing
  BY DEF Init
<1>5. QED
  BY <1>3, <1>4 DEF FilesInv, Sound, AlwaysRecoverable, Recovery

\* An owner that reconciles, on a machine that loses no power.
Calm == Reconciles /\ ~PowerLosses

LEMMA NoPowerLoss == Calm /\ [Next]_vars => ~PowerLoss
BY DEF Calm, PowerLoss

LEMMA FilesHold == ASSUME Calm PROVE Spec => []FilesInv
<1>1. TypeInv /\ FilesInv /\ [Next]_vars => FilesInv'
  BY NextKeeps, NoPowerLoss DEF Calm
<1>2. QED
  BY <1>1, InitFiles, TypesHold, PTL DEF Spec

\* Whatever instant the process stops at, and whichever I/O error a call has met,
\* the next open accepts the two files it finds (file/prepared.rs 404-474).
THEOREM FileAlwaysRecoverable == Calm => (Spec => []AlwaysRecoverable)
<1> SUFFICES ASSUME Calm
             PROVE  Spec => []AlwaysRecoverable
  OBVIOUS
<1>1. FilesInv => AlwaysRecoverable
  BY DEF FilesInv, Sound
<1>2. QED
  BY <1>1, FilesHold, PTL

\* Between calls, with no I/O error to resolve, what the store answers from
\* memory is what its live file says, and the stage exists exactly while a
\* transaction is prepared (file/prepared.rs 186-254, 404-474).
THEOREM FileViewMatchesFiles == Calm => (Spec => []ViewMatchesFiles)
<1> SUFFICES ASSUME Calm
             PROVE  Spec => []ViewMatchesFiles
  OBVIOUS
<1>1. FilesInv => ViewMatchesFiles
  <2> SUFFICES ASSUME FilesInv, mem # Nothing, call = Nothing, uncertain = Nothing
               PROVE  /\ mem.image = disk.live
                      /\ IF Slot(mem.image) = {}
                         THEN mem.candidate = NoCandidate /\ disk.stage = NoFile
                         ELSE disk.stage = StageOf(mem)
    BY DEF ViewMatchesFiles, Ready
  <2>1. Settled
    BY DEF FilesInv
  <2>2. Nothing # "mutate"
    BY NothingAssumption DEF CallOp
  <2>3. QED
    BY <2>1, <2>2 DEF Settled, LiveIs, AtRest
<1>2. QED
  BY <1>1, FilesHold, PTL

-----------------------------------------------------------------------------
(* The two files as a PreparedStore *)

\* The contract speaks of the same records, ledgers and entries.
LEMMA LiveVocabulary ==
  /\ Live!Entries = Entries
  /\ Live!Unseen = Unseen /\ Live!Aborted = Aborted
  /\ \A d : Live!Prepared(d) = Prepared(d) /\ Live!Committed(d) = Committed(d)
  /\ Live!EmptyLedger = EmptyLedger
  /\ \A fence, id : Live!Retired(fence, id) <=> Retired(fence, id)
  /\ \A ledger : /\ Live!PreparedIds(ledger) = PreparedIds(ledger)
                 /\ Live!TerminalCount(ledger) = TerminalCount(ledger)
  /\ \A ledger, fence : Live!Retain(ledger, fence) = Retain(ledger, fence)
  /\ Live!Slot = Slot(LiveOf(disk))
<1>1. /\ Live!Entries = Entries
      /\ Live!Unseen = Unseen /\ Live!Aborted = Aborted
      /\ \A d : Live!Prepared(d) = Prepared(d) /\ Live!Committed(d) = Committed(d)
  BY DEF Live!Entries, Entries, Live!Unseen, Unseen, Live!Aborted, Aborted,
         Live!Prepared, Prepared, Live!Committed, Committed
<1>2. /\ Live!EmptyLedger = EmptyLedger
      /\ \A fence, id : Live!Retired(fence, id) <=> Retired(fence, id)
  BY <1>1 DEF Live!EmptyLedger, EmptyLedger, Live!Retired, Retired
<1>3. \A ledger : /\ Live!PreparedIds(ledger) = PreparedIds(ledger)
                  /\ Live!TerminalCount(ledger) = TerminalCount(ledger)
  <2>1. \A ledger : /\ Live!PreparedIds(ledger) = PreparedIds(ledger)
                    /\ Live!TerminalIds(ledger) = TerminalIds(ledger)
    BY DEF Live!PreparedIds, PreparedIds, Live!TerminalIds, TerminalIds
  <2>2. \A set : Live!Cardinality(set) = Cardinality(set)
    BY DEF Live!Cardinality, Cardinality
  <2>3. QED
    BY <2>1, <2>2 DEF Live!TerminalCount, TerminalCount
<1>4. \A ledger, fence : Live!Retain(ledger, fence) = Retain(ledger, fence)
  BY <1>1, <1>2 DEF Live!Retain, Retain
<1>5. Live!Slot = Slot(LiveOf(disk))
  BY <1>3 DEF Live!Slot, Slot
<1>6. QED
  BY <1>1, <1>2, <1>3, <1>4, <1>5

\* While the view still answers for a point write that failed, either the slot
\* is free or the live file has the view's entries again.
FrozenReads ==
  mem # Nothing /\ uncertain = "mutate" =>
    Slot(LiveOf(disk)) = {} \/ mem.image.entries = LiveOf(disk).entries

LEMMA ReadsFrozen == TypeInv /\ FilesInv => FrozenReads
<1> SUFFICES ASSUME TypeInv, FilesInv, mem # Nothing, uncertain = "mutate"
             PROVE  Slot(LiveOf(disk)) = {} \/ mem.image.entries = LiveOf(disk).entries
  BY DEF FrozenReads
<1>1. CASE Settled
  BY <1>1, SettledFiles
<1>2. CASE call = Nothing
  BY <1>1, <1>2 DEF FilesInv
<1>3. CASE call # Nothing /\ Staged(call)
  <2>1. LiveIs(mem) /\ disk.live # NoFile
    BY <1>3 DEF Staged, LiveIs
  <2>2. LiveOf(disk) = disk.live /\ Slot(disk.live) = Slot(mem.image)
    BY <2>1 DEF LiveIs, LiveOf, Follows, Slot
  <2>3. QED
    BY <2>1, <2>2 DEF LiveIs
<1>4. CASE call # Nothing /\ (Written(call) \/ Removing(call))
  <2>1. LiveOf(disk) = call.next.image /\ (Written(call) => disk.live = LiveOf(disk))
    BY <1>4, CallLive DEF Written
  <2>2. QED
    BY <1>4, <2>1 DEF Written, Removing
<1>5. CASE call # Nothing
  BY <1>1, <1>3, <1>4, <1>5, CallFields
     DEF FilesInv, Phase, Staging, Writing, Opening, CallStep, TypeInv
<1>6. QED
  BY <1>2, <1>5

\* What is read is entries, whichever of the two it is read from.
ReadsTyped == EntriesRead \in Entries

LEMMA ReadsTypes == TypeInv => ReadsTyped
BY LiveImage, MemFields, ImageFields DEF ReadsTyped, EntriesRead, TypeInv, TypeOK

\* A step that leaves the live image and the candidate alone can change what is
\* read only while the slot is free: for the contract it is a point write.
LEMMA QuietStep ==
  ASSUME TypeInv, FilesInv, TypeInv', FilesInv', LiveOf(disk') = LiveOf(disk),
         CandidateIn(disk') = CandidateIn(disk)
  PROVE  Live!Next \/ UNCHANGED Live!vars
<1>1. CASE EntriesRead' = EntriesRead
  BY <1>1 DEF Live!vars
<1>2. CASE EntriesRead' # EntriesRead
  <2>1. Slot(LiveOf(disk)) = {}
    <3>1. FrozenReads /\ FrozenReads'
      BY ReadsFrozen, PTL
    <3>2. CASE EntriesRead # LiveOf(disk).entries
      BY <3>1, <3>2 DEF EntriesRead, FrozenReads
    <3>3. CASE EntriesRead' # LiveOf(disk').entries
      BY <3>1, <3>3 DEF EntriesRead, FrozenReads
    <3>4. QED
      BY <1>2, <3>2, <3>3
  <2>2. ReadsTyped'
    BY ReadsTypes, PTL
  <2>3. Live!Mutate
    BY <2>1, <2>2, LiveVocabulary DEF Live!Mutate, ReadsTyped
  <2>4. QED
    BY <2>3 DEF Live!Next
<1>3. QED
  BY <1>1, <1>2

\* A view whose image the live file follows is what is read.
LEMMA ReadsView ==
  ASSUME mem # Nothing, LiveIs(mem)
  PROVE  EntriesRead = mem.image.entries
BY DEF EntriesRead, LiveIs, LiveOf

\* The record of one id is what a decision changes in the ledger.
LEMMA LedgerReplaced ==
  ASSUME NEW a, IsImage(a), NEW b, IsImage(b), NEW id \in Id, NEW r,
         \A i \in Id : b.ledger[i] = IF i = id THEN r ELSE a.ledger[i]
  PROVE  b.ledger = [a.ledger EXCEPT ![id] = r]
<1>1. a.ledger \in Ledger /\ b.ledger \in Ledger
  BY ImageFields
<1>2. QED
  BY <1>1 DEF Ledger

LEMMA InstallPrepareIsStep ==
  ASSUME TypeInv, Installs, Staged(call)
  PROVE  Live!Next
<1> DEFINE d == call.next.candidate.digest
<1>1. /\ mem # Nothing /\ LiveIs(mem) /\ PreparePlanned(call)
      /\ disk.stage = StageOf(call.next) /\ disk.live # NoFile
  BY DEF Staged, LiveIs
<1>2. /\ IsView(call.next) /\ call.next.candidate # NoCandidate /\ call.id \in Id
      /\ Slot(mem.image) = {} /\ mem.image.ledger[call.id] = Unseen
      /\ ~Retired(mem.image.fence, call.id)
      /\ call.next.image.fence = mem.image.fence
      /\ call.next.image.entries = mem.image.entries
      /\ \A i \in Id : call.next.image.ledger[i] =
           IF i = call.id THEN Prepared(d) ELSE mem.image.ledger[i]
      /\ Slot(call.next.image) = {call.id}
      /\ d \in Digest /\ call.next.candidate.entries \in Entries
  BY <1>1, InstalledFiles, PreparedNext
<1>3. /\ LiveOf(disk) = disk.live /\ disk.live.fence = mem.image.fence
      /\ disk.live.ledger = mem.image.ledger /\ Slot(disk.live) = {}
  BY <1>1, <1>2 DEF LiveIs, Follows, LiveOf, Slot
<1>4. /\ LiveOf(disk') = call.next.image /\ disk'.stage = disk.stage /\ mem' = mem
      /\ uncertain' = uncertain
  BY InstalledFiles DEF Installs
<1>5. EntriesRead' = EntriesRead
  BY <1>1, <1>2, <1>4, ReadsView DEF EntriesRead
<1>6. LiveOf(disk').ledger = [LiveOf(disk).ledger EXCEPT ![call.id] = Prepared(d)]
  <2>1. IsImage(mem.image) /\ IsImage(call.next.image)
    BY <1>1, InstalledFiles, MemFields DEF TypeInv
  <2>2. call.next.image.ledger = [mem.image.ledger EXCEPT ![call.id] = Prepared(d)]
    BY SMTT(20), <1>2, <2>1, LedgerReplaced
  <2>3. QED
    BY <1>3, <1>4, <2>2
<1>7. CandidateIn(disk') = call.next.candidate.entries
  <2>1. /\ disk'.stage # NoFile /\ disk'.stage.entries = call.next.candidate.entries
    BY <1>1, <1>2, <1>4, StageFields, NoFileAssumption DEF IsImage
  <2>2. QED
    BY <1>2, <1>4, <2>1 DEF CandidateIn
<1>8. TerminalCount(LiveOf(disk).ledger) < MaxTerminals
  BY <1>1, <1>3 DEF PreparePlanned, LedgerHasRoom
<1>9. Live!Prepare(call.id, d)
  BY <1>2, <1>3, <1>4, <1>5, <1>6, <1>7, <1>8, LiveVocabulary DEF Live!Prepare
<1>10. QED
  BY <1>2, <1>9 DEF Live!Next

LEMMA InstallCommitIsStep ==
  ASSUME TypeInv, Installs, Settled, CommitPlanned(call)
  PROVE  Live!Next
<1> DEFINE d == mem.candidate.digest
<1>1. /\ call.next.candidate = NoCandidate /\ call.id \in Id
      /\ call.next.image.fence = mem.image.fence
      /\ call.next.image.entries = mem.candidate.entries
      /\ \A i \in Id : call.next.image.ledger[i] =
           IF i = call.id THEN Committed(d) ELSE mem.image.ledger[i]
      /\ Slot(call.next.image) = {} /\ Slot(mem.image) = {call.id}
      /\ mem.candidate # NoCandidate
      /\ mem.image.ledger[call.id] = Prepared(d)
      /\ disk.stage = StageOf(mem)
  BY CommittedNext DEF Settled
<1>2. /\ IsView(mem) /\ IsImage(mem.image) /\ LiveOf(disk) = disk.live
      /\ disk.live.fence = mem.image.fence /\ disk.live.ledger = mem.image.ledger
      /\ Slot(disk.live) = {call.id}
  BY <1>1, SettledFiles
<1>3. uncertain # "mutate"
  BY <1>1 DEF Settled, LiveIs
<1>4. /\ LiveOf(disk') = call.next.image /\ uncertain' = uncertain
      /\ IsImage(call.next.image)
  BY InstalledFiles DEF Installs
<1>5. CandidateIn(disk) = mem.candidate.entries
  <2>1. disk.stage # NoFile /\ disk.stage.entries = mem.candidate.entries
    BY <1>1, <1>2, StageFields, NoFileAssumption DEF IsImage
  <2>2. QED
    BY <1>2, <2>1 DEF CandidateIn
<1>6. EntriesRead' = CandidateIn(disk)
  BY <1>1, <1>3, <1>4, <1>5 DEF EntriesRead
<1>7. CandidateIn(disk') = NoEntries
  BY <1>1, <1>4 DEF CandidateIn
<1>8. LiveOf(disk').ledger = [LiveOf(disk).ledger EXCEPT ![call.id] = Committed(d)]
  <2>1. call.next.image.ledger = [mem.image.ledger EXCEPT ![call.id] = Committed(d)]
    BY <1>1, <1>2, <1>4, LedgerReplaced
  <2>2. QED
    BY <1>2, <1>4, <2>1
<1>9. /\ LiveOf(disk).ledger[call.id].state = "prepared"
      /\ LiveOf(disk).ledger[call.id].digest = d
  BY <1>1, <1>2 DEF Prepared
<1>10. Live!Commit(call.id)
  BY <1>1, <1>2, <1>4, <1>6, <1>7, <1>8, <1>9, LiveVocabulary DEF Live!Commit
<1>11. QED
  BY <1>1, <1>10 DEF Live!Next

LEMMA InstallAbortIsStep ==
  ASSUME TypeInv, Installs, Settled, AbortPlanned(call)
  PROVE  Live!Next
<1>1. /\ call.id \in Id /\ call.next.image.fence = mem.image.fence
      /\ call.next.image.entries = mem.image.entries
      /\ \A i \in Id : call.next.image.ledger[i] =
           IF i = call.id THEN Aborted ELSE mem.image.ledger[i]
      /\ Slot(call.next.image) = {} /\ Slot(mem.image) \subseteq {call.id}
  BY AbortedNext DEF Settled
<1>2. /\ mem # Nothing /\ IsImage(mem.image) /\ LiveOf(disk) = disk.live
      /\ disk.live.fence = mem.image.fence /\ disk.live.ledger = mem.image.ledger
      /\ Slot(disk.live) = Slot(mem.image)
  BY SettledFiles
<1>3. /\ LiveOf(disk') = call.next.image /\ uncertain' = uncertain /\ mem' = mem
      /\ IsImage(call.next.image)
  BY InstalledFiles DEF Installs
<1>4. EntriesRead' = EntriesRead
  <2>1. EntriesRead = mem.image.entries
    BY <1>2, ReadsView DEF Settled
  <2>2. QED
    BY <1>1, <1>2, <1>3, <2>1 DEF EntriesRead
<1>5. CandidateIn(disk') = NoEntries
  BY <1>1, <1>3 DEF CandidateIn
<1>6. LiveOf(disk').ledger = [LiveOf(disk).ledger EXCEPT ![call.id] = Aborted]
  <2>1. IsImage(mem.image) /\ IsImage(call.next.image)
    BY <1>2, <1>3
  <2>2. call.next.image.ledger = [mem.image.ledger EXCEPT ![call.id] = Aborted]
    BY SMTT(20), <1>1, <2>1, LedgerReplaced
  <2>3. QED
    BY <1>2, <1>3, <2>2
<1>7. /\ ~Retired(mem.image.fence, call.id)
      /\ mem.image.ledger[call.id].state \in {"unseen", "prepared"}
      /\ TerminalCount(mem.image.ledger) < MaxTerminals
  BY DEF AbortPlanned, Known, LedgerHasRoom
<1>8. Live!Abort(call.id)
  BY <1>1, <1>2, <1>3, <1>4, <1>5, <1>6, <1>7, LiveVocabulary DEF Live!Abort
<1>9. QED
  BY <1>1, <1>8 DEF Live!Next

LEMMA InstallReclaimIsStep ==
  ASSUME TypeInv, Installs, Settled, ReclaimPlanned(call)
  PROVE  Live!Next
<1>1. /\ mem # Nothing /\ LiveOf(disk) = disk.live
      /\ disk.live.fence = mem.image.fence /\ disk.live.ledger = mem.image.ledger
      /\ Slot(disk.live) = Slot(mem.image)
  BY SettledFiles
<1>2. PICK g \in Generation :
        /\ g > mem.image.fence /\ call.next.image.fence = g
        /\ call.next.image.ledger = Retain(mem.image.ledger, g)
        /\ call.next.image.entries = mem.image.entries
        /\ Slot(call.next.image) = {} /\ Slot(mem.image) = {}
  BY <1>1, ReclaimedNext
<1>3. LiveOf(disk') = call.next.image /\ uncertain' = uncertain /\ mem' = mem
  BY InstalledFiles DEF Installs
<1>4. EntriesRead' = EntriesRead
  <2>1. EntriesRead = mem.image.entries
    BY <1>1, ReadsView DEF Settled
  <2>2. QED
    BY <1>1, <1>2, <1>3, <2>1 DEF EntriesRead
<1>5. CandidateIn(disk') = CandidateIn(disk)
  BY <1>1, <1>2, <1>3 DEF CandidateIn
<1>6. Live!Reclaim(g)
  BY <1>1, <1>2, <1>3, <1>4, <1>5, LiveVocabulary DEF Live!Reclaim
<1>7. QED
  BY <1>6 DEF Live!Next

LEMMA InstallMutateIsStep ==
  ASSUME TypeInv, TypeInv', Installs, Settled, MutatePlanned(call)
  PROVE  Live!Next
<1>1. /\ LiveOf(disk) = disk.live /\ Slot(disk.live) = {}
      /\ disk.live.fence = mem.image.fence /\ disk.live.ledger = mem.image.ledger
  BY SettledFiles DEF MutatePlanned
<1>2. /\ LiveOf(disk') = call.next.image
      /\ call.next.image.fence = mem.image.fence
      /\ call.next.image.ledger = mem.image.ledger
  BY InstalledFiles DEF MutatePlanned, Follows
<1>3. CandidateIn(disk') = CandidateIn(disk)
  BY <1>1, <1>2 DEF CandidateIn, Slot
<1>4. ReadsTyped'
  BY ReadsTypes, PTL
<1>5. Live!Mutate
  BY <1>1, <1>2, <1>3, <1>4, LiveVocabulary DEF Live!Mutate, ReadsTyped
<1>6. QED
  BY <1>5 DEF Live!Next

\* Replacing the live file is the one step the contract sees.
LEMMA InstallIsStep ==
  ASSUME TypeInv, FilesInv, TypeInv', FilesInv', Installs, call.step = "live.replace"
  PROVE  Live!Next \/ UNCHANGED Live!vars
<1>1. Writing(call)
  BY DEF Installs, FilesInv, Phase
<1>2. CASE Opening(call)
  <2>1. LiveOf(disk') = LiveOf(disk) /\ disk'.stage = NoFile /\ disk.stage = NoFile
    BY <1>2, InstalledFiles DEF Opening, Loaded
  <2>2. CandidateIn(disk') = CandidateIn(disk)
    BY <2>1 DEF CandidateIn
  <2>3. QED
    BY <2>1, <2>2, QuietStep
<1>3. QED
  BY <1>1, <1>2, InstallPrepareIsStep, InstallCommitIsStep, InstallAbortIsStep,
     InstallReclaimIsStep, InstallMutateIsStep DEF Writing, Planned

\* Where disk does not change, neither does what recovery reads of it; and a
\* stage changes while the slot is free.
LEMMA NextIsStep ==
  ASSUME TypeInv, FilesInv, TypeInv', FilesInv', [Next]_vars, ~PowerLoss
  PROVE  Live!Next \/ UNCHANGED Live!vars
<1>1. CASE UNCHANGED disk
  BY <1>1, QuietStep
<1>2. CASE disk' # disk /\ disk'.live = disk.live /\ Slot(LiveOf(disk)) = {}
  <2>1. LiveOf(disk') = LiveOf(disk)
    BY <1>2 DEF LiveOf
  <2>2. CandidateIn(disk') = CandidateIn(disk)
    BY <1>2, <2>1 DEF CandidateIn
  <2>3. QED
    BY <2>1, <2>2, QuietStep
<1>3. CASE Installs /\ call.step = "live.replace"
  BY <1>3, InstallIsStep
<1>4. ASSUME disk' # disk
      PROVE  \/ Replace("stage", "stage.replace", "stage.sync")
             \/ Replace("live", "live.replace", "live.sync")
             \/ RemoveStage
  BY <1>4
     DEF Next, vars, Open, Put, Delete, Apply, Mutate, Prepare, Commit, Committable, Abort,
         Abortable, Reclaim, State, AnswerAgain, Answer, Start, Step, Create, WriteFails, SyncStage,
         SyncLive, SyncRemove,
         Crash, Writeback
<1>5. ASSUME disk' # disk, Replace("stage", "stage.replace", "stage.sync")
      PROVE  disk'.live = disk.live /\ Slot(LiveOf(disk)) = {}
  <2>1. /\ call # Nothing /\ call.step = "stage.replace"
        /\ disk' = [disk EXCEPT !.stage = StageOf(call.next)]
    BY <1>5 DEF Replace, WriteFails, Running, Target
  <2>2. Settled /\ Slot(mem.image) = {}
    BY <2>1 DEF FilesInv, Phase, Staging, PreparePlanned, Startable
  <2>3. QED
    BY <2>1, <2>2, SettledFiles DEF TypeInv, TypeOK, AreFiles
<1>6. ASSUME disk' # disk, Replace("live", "live.replace", "live.sync")
      PROVE  Installs /\ call.step = "live.replace"
  BY <1>6 DEF Replace, WriteFails, Running, Target, Installs
<1>7. ASSUME disk' # disk, RemoveStage
      PROVE  disk'.live = disk.live /\ Slot(LiveOf(disk)) = {}
  <2>1. call # Nothing /\ Removing(call) /\ disk' = [disk EXCEPT !.stage = NoFile]
    BY <1>7 DEF RemoveStage, Running, FilesInv, Phase
  <2>2. LiveOf(disk) = call.next.image
    BY <2>1, CallLive
  <2>3. QED
    BY <2>1, <2>2, StageRemoved DEF Removing, TypeInv, TypeOK
<1>8. QED
  BY <1>1, <1>2, <1>3, <1>4, <1>5, <1>6, <1>7

LEMMA InitIsInit == Init => Live!Init
<1> SUFFICES ASSUME Init
             PROVE  Live!Init
  OBVIOUS
<1>1. TypeInv
  BY InitTypes
<1>2. EntriesRead \in Entries
  BY <1>1, ReadsTypes DEF ReadsTyped
<1>3. LiveOf(disk).fence = 0 /\ LiveOf(disk).ledger = EmptyLedger
  BY NoFileAssumption DEF Init, LiveOf, V1
<1>4. CandidateIn(disk) = NoEntries
  BY DEF Init, CandidateIn
<1>5. QED
  BY <1>2, <1>3, <1>4, LiveVocabulary DEF Live!Init

\* The file store, read as recovery reads its files, is a PreparedStore: no call
\* is ever seen half done, through any crash of the process and any I/O error
\* (file/prepared.rs 27-184 against transaction.rs 164-206).
THEOREM FileImplementsPreparedStore == Calm => (Spec => ImplementsPreparedStore)
<1> SUFFICES ASSUME Calm
             PROVE  Spec => ImplementsPreparedStore
  OBVIOUS
<1>1. TypeInv /\ FilesInv /\ TypeInv' /\ FilesInv' /\ [Next]_vars => [Live!Next]_(Live!vars)
  BY NextIsStep, NoPowerLoss
<1>2. QED
  BY <1>1, InitIsInit, TypesHold, FilesHold, PTL
     DEF Spec, ImplementsPreparedStore, Live!Spec

-----------------------------------------------------------------------------
(* Answers *)

Answered == AnswersKept /\ OneDecision

\* An answer that repeats what the live file holds of an id that is not retired
\* contradicts no earlier one.
LEMMA HearingKeeps ==
  ASSUME TypeInv, Answered, NEW id \in Id, NEW r \in Record, r # Unseen,
         ~Retired(LiveOf(disk).fence, id), LiveOf(disk).ledger[id] = r,
         heard' = [heard EXCEPT ![id] = @ \cup {r.state}], LiveOf(disk') = LiveOf(disk)
  PROVE  Answered'
<1>1. heard \in [Id -> SUBSET {"prepared", "committed", "aborted"}]
  BY DEF TypeInv, TypeOK
<1>2. \A i \in Id : heard'[i] = IF i = id THEN heard[i] \cup {r.state} ELSE heard[i]
  BY <1>1
<1>3. r.state = "aborted" <=> r = Aborted
  BY RecordStates, RecordKinds
<1>4. AnswersKept'
  BY <1>2, <1>3 DEF Answered, AnswersKept, Keeps, Remembers
<1>5. OneDecision'
  <2>1. \A i \in Id \ {id} : heard'[i] = heard[i]
    BY <1>2
  <2>2. "committed" \in heard'[id] => r.state = "committed"
    BY <1>4 DEF AnswersKept, Keeps, Remembers
  <2>3. "aborted" \in heard'[id] => r.state = "aborted"
    BY <1>3, <1>4 DEF AnswersKept, Keeps, Remembers
  <2>4. QED
    BY <2>1, <2>2, <2>3 DEF Answered, OneDecision
<1>6. QED
  BY <1>4, <1>5 DEF Answered

\* A step the contract allows loses no answer: a decision is only ever made of
\* an id nobody was told is decided, and only retirement forgets one.
LEMMA ContractKeepsAnswers ==
  ASSUME TypeInv, TypeInv', Answered, UNCHANGED heard, Live!Next \/ UNCHANGED Live!vars
  PROVE  Answered'
<1> DEFINE ledger == LiveOf(disk).ledger
           fence == LiveOf(disk).fence
<1>1. /\ ledger \in Ledger /\ fence \in Nat
      /\ \A i \in Id : ledger[i] \in Record
  BY LiveImage, ImageFields DEF TypeInv, TypeOK
<1>2. /\ Unseen.state = "unseen" /\ Aborted.state = "aborted"
      /\ \A d : Prepared(d).state = "prepared" /\ Committed(d).state = "committed"
  BY RecordKinds
<1>3. OneDecision'
  BY DEF Answered, OneDecision
<1>4. CASE UNCHANGED <<ledger, fence>>
  BY <1>3, <1>4 DEF Answered, AnswersKept, Keeps, Remembers
<1>5. ASSUME NEW id \in Id, NEW r, ledger' = [ledger EXCEPT ![id] = r], fence' = fence,
             \/ ledger[id] = Unseen
             \/ ledger[id].state = "prepared" /\ (r.state = "committed" \/ r = Aborted),
             r # Unseen
      PROVE  Answered'
  <2>1. \A i \in Id : ledger'[i] = IF i = id THEN r ELSE ledger[i]
    BY <1>1, <1>5 DEF Ledger
  <2>2. Retired(fence, id) \/ ("committed" \notin heard[id] /\ "aborted" \notin heard[id])
    BY <1>2, <1>5 DEF Answered, AnswersKept, Keeps, Remembers
  <2>3. AnswersKept'
    BY <1>5, <2>1, <2>2 DEF Answered, AnswersKept, Keeps, Remembers
  <2>4. QED
    BY <1>3, <2>3 DEF Answered
<1>6. CASE Live!Mutate
  BY <1>4, <1>6 DEF Live!Mutate
<1>7. ASSUME NEW id \in Id, NEW d \in Digest, Live!Prepare(id, d)
      PROVE  Answered'
  <2>1. /\ ledger[id] = Unseen /\ fence' = fence
        /\ ledger' = [ledger EXCEPT ![id] = Prepared(d)]
    BY <1>7, LiveVocabulary DEF Live!Prepare
  <2>2. Prepared(d) # Unseen
    BY <1>2
  <2>3. QED
    BY <1>5, <2>1, <2>2
<1>8. ASSUME NEW id \in Id, Live!Commit(id)
      PROVE  Answered'
  <2>1. /\ ledger[id].state = "prepared" /\ fence' = fence
        /\ ledger' = [ledger EXCEPT ![id] = Committed(ledger[id].digest)]
    BY <1>8, LiveVocabulary DEF Live!Commit
  <2>2. Committed(ledger[id].digest).state = "committed" /\ Committed(ledger[id].digest) # Unseen
    BY <1>2
  <2>3. QED
    BY <1>5, <2>1, <2>2
<1>9. ASSUME NEW id \in Id, Live!Abort(id)
      PROVE  Answered'
  <2>1. /\ ledger[id].state \in {"unseen", "prepared"} /\ fence' = fence
        /\ ledger' = [ledger EXCEPT ![id] = Aborted]
    BY <1>9, LiveVocabulary DEF Live!Abort
  <2>2. ledger[id].state = "prepared" \/ ledger[id] = Unseen
    BY <1>1, <2>1, RecordKinds
  <2>3. QED
    BY <1>2, <1>5, <2>1, <2>2
<1>10. ASSUME NEW g \in Generation, Live!Reclaim(g)
       PROVE  Answered'
  <2>1. g > fence /\ fence' = g /\ ledger' = Retain(ledger, g)
    BY <1>10, LiveVocabulary DEF Live!Reclaim
  <2>2. \A i \in Id : /\ Retired(fence, i) => Retired(g, i)
                      /\ Retired(g, i) \/ ledger'[i] = ledger[i]
    BY <1>1, <2>1, RetainKeepsLedger, GenerationAssumption DEF Retired
  <2>3. AnswersKept'
    BY <2>1, <2>2 DEF Answered, AnswersKept, Keeps, Remembers
  <2>4. QED
    BY <1>3, <2>3 DEF Answered
<1>11. CASE UNCHANGED Live!vars
  BY <1>4, <1>11 DEF Live!vars
<1>12. QED
  BY <1>6, <1>7, <1>8, <1>9, <1>10, <1>11 DEF Live!Next

\* A call that ends answers what its image holds.
LEMMA FinishKeepsAnswers ==
  ASSUME TypeInv, TypeInv', Answered, call # Nothing, Finish,
         Live!Next \/ UNCHANGED Live!vars, LiveOf(disk') = LiveOf(disk),
         LiveOf(disk) = call.next.image, AnswerIn(call, call.next.image)
  PROVE  Answered'
<1>1. CASE call.outcome = Unseen
  BY <1>1, ContractKeepsAnswers DEF Finish
<1>2. CASE call.outcome # Unseen
  <2>1. /\ call.id \in Id /\ call.outcome \in Record
        /\ ~Retired(LiveOf(disk).fence, call.id)
        /\ LiveOf(disk).ledger[call.id] = call.outcome
        /\ heard' = [heard EXCEPT ![call.id] = @ \cup {call.outcome.state}]
    BY <1>2, CallFields DEF AnswerIn, Finish, TypeInv
  <2>2. QED
    BY <1>2, <2>1, HearingKeeps
<1>3. QED
  BY <1>1, <1>2

LEMMA NextKeepsAnswers ==
  ASSUME Reconciles, TypeInv, FilesInv, TypeInv', FilesInv', Answered, [Next]_vars, ~PowerLoss
  PROVE  Answered'
<1>1. Live!Next \/ UNCHANGED Live!vars
  BY NextIsStep
<1>2. CASE UNCHANGED heard
  BY <1>1, <1>2, ContractKeepsAnswers
<1>3. ASSUME NEW id \in Id, AnswerAgain(id)
      PROVE  Answered'
  <2>1. Settled /\ ~Retired(mem.image.fence, id) /\ Known(id) # Unseen
    BY <1>3, InvokesSettled DEF AnswerAgain
  <2>2. /\ LiveOf(disk) = disk.live /\ disk.live.fence = mem.image.fence
        /\ disk.live.ledger[id] = Known(id) /\ Known(id) \in Record
    BY <2>1, SettledFiles, ImageFields DEF Known
  <2>3. heard' = [heard EXCEPT ![id] = @ \cup {Known(id).state}] /\ UNCHANGED disk
    BY <1>3 DEF AnswerAgain, Answer
  <2>4. QED
    BY <2>1, <2>2, <2>3, HearingKeeps
<1>4. ASSUME NEW id \in Id, State(id), heard' # heard
      PROVE  Answered'
  <2> DEFINE view == Recovered(disk.live, disk.stage)
             r == StateKnown(id, view)
  <2>1. /\ disk.live # NoFile /\ r # Unseen /\ UNCHANGED disk
        /\ heard' = [heard EXCEPT ![id] = @ \cup {r.state}]
    BY <1>4 DEF State, Start
  <2>2. LiveOf(disk) = disk.live /\ IsImage(disk.live) /\ view.image = disk.live
    BY <2>1, LiveImage, RecoveredView DEF TypeInv, TypeOK
  <2>3. ~Retired(disk.live.fence, id) /\ disk.live.ledger[id] = r /\ r \in Record
    BY <2>1, <2>2, ImageFields DEF StateKnown
  <2> HIDE DEF r, view
  <2>4. QED
    BY <2>1, <2>2, <2>3, HearingKeeps
<1>5. ASSUME call # Nothing, Finish, UNCHANGED disk \/ disk' = [disk EXCEPT !.stage = NoFile],
             Written(call) \/ Removing(call)
      PROVE  Answered'
  <2>1. LiveOf(disk) = call.next.image /\ AnswerIn(call, call.next.image)
    BY <1>5, CallLive DEF Written, Removing
  <2>2. disk'.live = disk.live
    BY <1>5, StageRemoved DEF TypeInv, TypeOK
  <2>3. LiveOf(disk) = call.next.image /\ LiveOf(disk') = LiveOf(disk)
    BY <2>1, <2>2 DEF LiveOf
  <2>4. QED
    BY <1>1, <1>5, <2>1, <2>3, FinishKeepsAnswers
<1>6. ASSUME Step, heard' # heard
      PROVE  /\ call # Nothing /\ Finish
             /\ UNCHANGED disk \/ disk' = [disk EXCEPT !.stage = NoFile]
             /\ Written(call) \/ Removing(call)
  <2>1. SyncLive \/ RemoveStage \/ SyncRemove
    BY <1>6 DEF Step, Create, Replace, WriteFails, SyncStage, Fail
  <2>2. call # Nothing /\ (Written(call) \/ Removing(call))
    BY <2>1 DEF SyncLive, RemoveStage, SyncRemove, Running, FilesInv, Phase
  <2>3. Finish
    BY <1>6, <2>1 DEF SyncLive, RemoveStage, SyncRemove, Installed, Removed, Fail
  <2>4. UNCHANGED disk \/ disk' = [disk EXCEPT !.stage = NoFile]
    BY <2>1 DEF SyncLive, RemoveStage, SyncRemove
  <2>5. QED
    BY <2>2, <2>3, <2>4
<1>7. ASSUME heard' # heard
      PROVE  Step \/ \E id \in Id : State(id) \/ AnswerAgain(id)
  BY <1>7
     DEF Next, vars, Open, Put, Delete, Apply, Mutate, Prepare, Commit, Committable, Abort,
         Abortable, Reclaim,
         Start, Crash, Writeback
<1>8. QED
  BY <1>2, <1>3, <1>4, <1>5, <1>6, <1>7

LEMMA InitAnswered == Init => Answered
BY DEF Init, Answered, AnswersKept, Keeps, Remembers, OneDecision

LEMMA AnswersHold == ASSUME Calm PROVE Spec => []Answered
<1>1. TypeInv /\ FilesInv /\ TypeInv' /\ FilesInv' /\ Answered /\ [Next]_vars => Answered'
  BY NextKeepsAnswers, NoPowerLoss DEF Calm
<1>2. QED
  BY <1>1, InitAnswered, TypesHold, FilesHold, PTL DEF Spec

\* No crash of the process and no I/O error loses an outcome the owner was told,
\* until it retires the generation itself (file/prepared.rs 27-184).
THEOREM FileAnswersKept == Calm => (Spec => []AnswersKept)
<1> SUFFICES ASSUME Calm
             PROVE  Spec => []AnswersKept
  OBVIOUS
<1>1. Answered => AnswersKept
  BY DEF Answered
<1>2. QED
  BY <1>1, AnswersHold, PTL

\* No transaction is ever answered as committed and as aborted, through any
\* sequence of calls, crashes, I/O errors and reconciliations.
THEOREM FileOneDecision == Calm => (Spec => []OneDecision)
<1> SUFFICES ASSUME Calm
             PROVE  Spec => []OneDecision
  OBVIOUS
<1>1. Answered => OneDecision
  BY DEF Answered
<1>2. QED
  BY <1>1, AnswersHold, PTL

-----------------------------------------------------------------------------
(* The holder of the slot *)

\* A transaction that is prepared in an image can be decided there: its id is not
\* retired, the ledger has a line left, and the image was admitted with its size.
Decidable(image) ==
  Slot(image) # {} =>
    /\ EncodingFits(image.entries, image.ledger)
    /\ TerminalCount(image.ledger) < MaxTerminals
    /\ \A id \in Slot(image) : ~Retired(image.fence, id)

\* Prepare established it for the image it is about to write.
Reserved ==
  /\ Decidable(LiveOf(disk))
  /\ call # Nothing /\ call.op = "prepare" => Decidable(call.next.image)

LEMMA PrepareReserves ==
  ASSUME Reconciles, TypeInv, FilesInv, NEW id \in Id, NEW d \in Digest,
         NEW batch \in Batches, Prepare(id, d, batch)
  PROVE  UNCHANGED disk /\ Decidable(call'.next.image)
<1> DEFINE candidate == Outcome(mem.image.entries, batch)
           ledger == [mem.image.ledger EXCEPT ![id] = Prepared(d)]
           next == [image |-> V2(mem.image.fence, ledger, mem.image.entries),
                    candidate |-> [id |-> id, digest |-> d, entries |-> candidate]]
<1>1. /\ mem # Nothing /\ IsImage(mem.image) /\ Startable(id) /\ LedgerHasRoom
      /\ ImageFits(next.image) /\ Start("prepare", id, next, "stage.create", Prepared(d))
  BY InvokesSettled DEF Prepare
<1>2. /\ next.image.v2 /\ next.image.fence = mem.image.fence /\ next.image.ledger = ledger
  BY DEF V2
<1>3. call'.next.image = next.image /\ UNCHANGED disk
  BY <1>1 DEF Start
<1>4. /\ ledger[id].state = "prepared" /\ \A i \in Id \ {id} : ledger[i] = mem.image.ledger[i]
      /\ mem.image.ledger[id].state = "unseen"
  BY <1>1, ImageFields, RecordKinds DEF Ledger, Startable, Known
<1> HIDE DEF next, ledger
<1>5. Slot(next.image) \subseteq {id}
  <2>1. \A i \in Id : mem.image.ledger[i].state # "prepared"
    BY <1>1, SlotIds DEF Startable
  <2>2. \A i \in Id \ {id} : next.image.ledger[i].state # "prepared"
    BY <1>2, <1>4, <2>1
  <2>3. QED
    BY <2>2, SlotIds
<1>6. TerminalIds(ledger) = TerminalIds(mem.image.ledger)
  BY <1>4 DEF TerminalIds
<1>7. Decidable(next.image)
  <2>1. EncodingFits(next.image.entries, next.image.ledger)
    BY <1>1, <1>2 DEF ImageFits
  <2>2. TerminalCount(next.image.ledger) < MaxTerminals
    BY <1>1, <1>2, <1>6 DEF LedgerHasRoom, TerminalCount
  <2>3. \A i \in Slot(next.image) : ~Retired(next.image.fence, i)
    BY <1>1, <1>2, <1>5 DEF Startable
  <2>4. QED
    BY <2>1, <2>2, <2>3 DEF Decidable
<1>8. QED
  BY <1>3, <1>7

\* A call in progress stays the call it is until it ends, and only prepare begins
\* as one.
LEMMA CallsContinue ==
  ASSUME TypeInv, [Next]_vars, call' # Nothing, call'.op = "prepare",
         ~ \E id \in Id, d \in Digest, batch \in Batches : Prepare(id, d, batch)
  PROVE  call # Nothing /\ call.op = "prepare" /\ call'.next = call.next
<1>1. CASE Step
  <2>1. \/ call' = Nothing
        \/ call # Nothing /\ \E step \in CallStep : StepTo(step)
    BY <1>1 DEF Step, Create, Replace, WriteFails, SyncStage, SyncLive, RemoveStage, SyncRemove,
                Running, Fail, Finish, Installed, Removed, CallStep
  <2>2. QED
    BY <2>1, CallAdvances DEF TypeInv
<1>2. CASE ~Step
  <2>1. \/ UNCHANGED call \/ call' = Nothing
        \/ \E op \in CallOp \ {"prepare"} : \E id, next, step, outcome :
             Start(op, id, next, step, outcome)
    <3>1. \/ UNCHANGED vars \/ Crash \/ Writeback \/ PowerLoss
          \/ Open \/ \E at \in Addr, secret \in Val : Put(at, secret)
          \/ \E at \in Addr : Delete(at)
          \/ \E batch \in Batches : Apply(batch)
          \/ \E id \in Id : State(id) \/ Commit(id) \/ Abort(id) \/ AnswerAgain(id)
          \/ \E g \in Generation : Reclaim(g)
      BY <1>2 DEF Next
    <3>2. CASE UNCHANGED vars \/ Crash \/ Writeback \/ PowerLoss
      BY <3>2 DEF vars, Crash, Writeback, PowerLoss
    <3>3. ASSUME NEW next, Mutate(next)
          PROVE  \E n : Start("mutate", Nothing, n, "live.create", Unseen)
      BY <3>3 DEF Mutate
    <3>4. CASE \/ \E at \in Addr, secret \in Val : Put(at, secret)
               \/ \E at \in Addr : Delete(at)
               \/ \E batch \in Batches : Apply(batch)
      <4>1. \E n : Start("mutate", Nothing, n, "live.create", Unseen)
        BY <3>3, <3>4 DEF Put, Delete, Apply
      <4>2. QED
        BY <4>1 DEF CallOp
    <3>5. CASE \E id \in Id : State(id) \/ AnswerAgain(id)
      BY <3>5 DEF State, AnswerAgain, Answer, CallOp
    <3>6. CASE \E id \in Id : Commit(id) \/ Abort(id)
      BY <3>6 DEF Commit, Abort, CallOp
    <3>7. CASE Open \/ \E g \in Generation : Reclaim(g)
      BY <3>7 DEF Open, Reclaim, CallOp
    <3>8. QED
      BY <3>1, <3>2, <3>4, <3>5, <3>6, <3>7
  <2>2. QED
    BY <2>1 DEF Start
<1>3. QED
  BY <1>1, <1>2

\* The live file changes at its rename only.
LEMMA LiveChanges ==
  ASSUME TypeInv, [Next]_vars, ~PowerLoss, LiveOf(disk') # LiveOf(disk)
  PROVE  Installs
<1>1. \/ Replace("stage", "stage.replace", "stage.sync")
      \/ Replace("live", "live.replace", "live.sync")
      \/ RemoveStage
  BY DEF Next, vars, Open, Put, Delete, Apply, Mutate, Prepare, Commit, Committable, Abort,
         Abortable, Reclaim, State, AnswerAgain, Answer, Start, Step, Create, WriteFails, SyncStage,
         SyncLive, SyncRemove, Crash, Writeback
<1>2. disk'.live # disk.live
  BY DEF LiveOf
<1>3. CASE Replace("live", "live.replace", "live.sync")
  BY <1>2, <1>3 DEF Replace, WriteFails, Running, Target, Installs
<1>4. CASE Replace("stage", "stage.replace", "stage.sync") \/ RemoveStage
  BY <1>2, <1>4 DEF Replace, WriteFails, RemoveStage, TypeInv, TypeOK, AreFiles
<1>5. QED
  BY <1>1, <1>3, <1>4

LEMMA NextReserves ==
  ASSUME Calm, TypeInv, FilesInv, FilesInv', Reserved, [Next]_vars
  PROVE  Reserved'
<1>1. CASE \E id \in Id, d \in Digest, batch \in Batches : Prepare(id, d, batch)
  BY <1>1, PrepareReserves DEF Calm, Reserved
<1>2. CASE ~ \E id \in Id, d \in Digest, batch \in Batches : Prepare(id, d, batch)
  <2>1. call' # Nothing /\ call'.op = "prepare" => Decidable(call'.next.image)
    BY <1>2, CallsContinue DEF Reserved
  <2>2. CASE LiveOf(disk') = LiveOf(disk)
    BY <2>1, <2>2 DEF Reserved
  <2>3. CASE LiveOf(disk') # LiveOf(disk)
    <3>1. Installs
      BY <2>3, LiveChanges, NoPowerLoss
    <3>2. /\ LiveOf(disk') = call.next.image /\ call' # Nothing /\ call'.step = "live.sync"
          /\ call'.op = call.op /\ call'.next = call.next
      BY <3>1, InstalledFiles
    <3>3. call'.op # "prepare" => Slot(call'.next.image) = {}
      BY <3>2 DEF FilesInv, Phase, Written
    <3>4. Decidable(LiveOf(disk'))
      BY <2>1, <3>2, <3>3 DEF Decidable
    <3>5. QED
      BY <2>1, <3>4 DEF Reserved
  <2>4. QED
    BY <2>2, <2>3
<1>3. QED
  BY <1>1, <1>2

\* The holder of a reserved slot meets no refusal.
LEMMA HolderDecides ==
  ASSUME Calm, TypeInv, FilesInv, Reserved, Invokes, NEW id \in Slot(mem.image)
  PROVE  Committable(id) /\ Abortable(id)
<1>1. /\ Settled /\ IsImage(mem.image) /\ disk.live = mem.image /\ LiveOf(disk) = mem.image
      /\ mem.candidate.id = id /\ Slot(mem.image) = {id} /\ id \in Id
      /\ disk.stage = StageOf(mem)
  <2>1. Settled /\ mem # Nothing /\ IsImage(mem.image)
    BY InvokesSettled DEF Calm
  <2>2. disk.live = mem.image
    BY <2>1 DEF Settled, LiveIs
  <2>3. QED
    BY <2>1, <2>2, SettledFiles, SlotIds DEF Settled, AtRest
<1>2. /\ EncodingFits(mem.image.entries, mem.image.ledger) /\ LedgerHasRoom
      /\ ~Retired(mem.image.fence, id)
  BY <1>1 DEF Reserved, Decidable, LedgerHasRoom
<1>3. Known(id).state = "prepared"
  BY <1>1, SlotIds DEF Known
<1>4. Committable(id)
  BY <1>1, <1>2, <1>3 DEF Committable
<1>5. ImageFits(Decide(id, Aborted, mem.image.entries).image)
  <2>1. EncodingFits(mem.image.entries, [mem.image.ledger EXCEPT ![id] = Aborted])
    BY <1>1, <1>2, <1>3, AbortedFits, ImageFields DEF Known, LedgerHasRoom
  <2>2. QED
    BY <2>1 DEF ImageFits, Decide, V2
<1>6. QED
  BY <1>1, <1>2, <1>3, <1>4, <1>5 DEF Abortable, SlotFreeFor

\* Prepare reserves what its decision needs: an owner that holds the slot and
\* knows where it stands can both commit and abort it (file/prepared.rs 384-440,
\* file.rs 525-537).
THEOREM FileHolderCanDecide == Calm => (Spec => []HolderCanDecide)
<1> SUFFICES ASSUME Calm
             PROVE  Spec => []HolderCanDecide
  OBVIOUS
<1>1. Init => Reserved
  <2> SUFFICES ASSUME Init
               PROVE  Reserved
    OBVIOUS
  <2>1. LiveOf(disk).ledger = EmptyLedger
    BY NoFileAssumption DEF Init, LiveOf, V1
  <2>2. Slot(LiveOf(disk)) = {}
    BY <2>1, SlotIds, RecordKinds DEF EmptyLedger
  <2>3. QED
    BY <2>2 DEF Init, Reserved, Decidable
<1>2. TypeInv /\ FilesInv /\ FilesInv' /\ Reserved /\ [Next]_vars => Reserved'
  BY NextReserves
<1>3. TypeInv /\ FilesInv /\ Reserved => HolderCanDecide
  BY HolderDecides DEF HolderCanDecide
<1>4. QED
  BY <1>1, <1>2, <1>3, TypesHold, FilesHold, PTL DEF Spec

-----------------------------------------------------------------------------
(* A machine that loses power: what the file system would answer after a     *)
(* loss, beside what it answers now.  A directory entry that was written     *)
(* back on its own may be newer or older than its neighbour, so four files   *)
(* are in play: two on disk and two durable.  DurableInv says that they can  *)
(* differ only where a call stands between a change of the directory and     *)
(* the sync after it, or in the entries of a live file whose best-effort     *)
(* sync failed; and that the durable pair, too, is one the next open         *)
(* accepts.                                                                  *)

\* The owner reconciles, and no call ends between a change of the directory and
\* the sync the code requires after it: the process is not killed there and the
\* sync does not fail.  A power loss may still come at any moment.
Enduring ==
  /\ Reconciles /\ PowerLosses /\ ~Kills
  /\ Faults \cap {"revalidate", "sync"} = {}

At(steps) == call # Nothing /\ call.step \in steps

SoundFiles(files) ==
  /\ Recovery(LiveOf(files), files.stage) # "refuse"
  /\ \A i, j \in Slot(LiveOf(files)) : i = j

StagesAgree == ~At({"stage.sync", "remove.sync"}) => durable.stage = disk.stage

\* The durable live file may lack point writes, while the slot is free.
LivesAgree ==
  ~At({"live.sync"}) =>
    /\ Follows(LiveOf(durable), LiveOf(disk))
    /\ Slot(LiveOf(disk)) # {} => durable.live = disk.live
    /\ disk.live = NoFile => durable.live = NoFile

\* A live file that was replaced and is not synced: the durable one is the new
\* file, or still the one the call started from, with the stage beside it.
Unsynced(c) ==
  /\ (c.op = "prepare" /\ PreparePlanned(c)) \/ Planned(c)
  /\ c.op # "prepare" => AtRest(mem, disk.stage)
  /\ \/ durable.live = disk.live
     \/ /\ Follows(LiveOf(durable), mem.image)
        /\ Slot(mem.image) # {} => durable.live = mem.image

LiveOlder ==
  At({"live.sync"}) =>
    IF call.op = "open" THEN LiveOf(durable) = disk.live ELSE Unsynced(call)

DurableInv == SoundFiles(durable) /\ StagesAgree /\ LivesAgree /\ LiveOlder

\* Recovery looks at the entries of neither file.
LEMMA FollowsRecovery ==
  ASSUME NEW a, NEW b, Follows(a, b), NEW stage
  PROVE  Recovery(a, stage) = Recovery(b, stage) /\ Slot(a) = Slot(b)
BY DEF Follows, Recovery, CleanupOnly, Slot

\* Nothing is in flight before the step, nor after it.
LEMMA NothingInFlight ==
  ASSUME DurableInv, UNCHANGED <<disk, durable>>,
         ~At({"stage.sync", "live.sync", "remove.sync"}),
         ~At({"stage.sync", "live.sync", "remove.sync"})'
  PROVE  DurableInv'
<1>1. durable.stage = disk.stage
  BY DEF DurableInv, StagesAgree, At
<1>2. /\ Follows(LiveOf(durable), LiveOf(disk))
      /\ Slot(LiveOf(disk)) # {} => durable.live = disk.live
      /\ disk.live = NoFile => durable.live = NoFile
  BY DEF DurableInv, LivesAgree, At
<1>3. SoundFiles(durable)'
  BY DEF DurableInv, SoundFiles
<1>4. StagesAgree' /\ LivesAgree'
  BY <1>1, <1>2 DEF StagesAgree, LivesAgree
<1>5. LiveOlder'
  BY DEF LiveOlder, At
<1>6. QED
  BY <1>3, <1>4, <1>5 DEF DurableInv

\* What was just synced, or just restored, is the same twice.
LEMMA SyncedAgrees ==
  ASSUME Sound', durable' = disk', ~At({"live.sync"})'
  PROVE  DurableInv'
<1>1. SoundFiles(durable)'
  BY DEF Sound, AlwaysRecoverable, SoundFiles
<1>2. StagesAgree' /\ LivesAgree'
  BY DEF StagesAgree, LivesAgree, Follows
<1>3. LiveOlder'
  BY DEF LiveOlder
<1>4. QED
  BY <1>1, <1>2, <1>3 DEF DurableInv

-----------------------------------------------------------------------------
(* The steps of a call *)

LEMMA NoRequiredSyncFails == Enduring => "revalidate" \notin Faults /\ "sync" \notin Faults
BY DEF Enduring

LEMMA StartDurable ==
  ASSUME DurableInv, call = Nothing, UNCHANGED <<disk, durable>>,
         call' = Nothing \/ call'.step \in {"stage.create", "live.create", "remove"}
  PROVE  DurableInv'
BY NothingInFlight DEF At

LEMMA CreateDurable ==
  ASSUME TypeInv, DurableInv, NEW file \in {"live", "stage"},
         NEW step \in {"stage.create", "live.create"},
         NEW then \in {"stage.replace", "live.replace"}, Create(file, step, then)
  PROVE  DurableInv'
<1>1. call # Nothing /\ call.step = step /\ UNCHANGED <<disk, durable>>
  BY DEF Create, WriteFails, Running
<1>2. call' = Nothing \/ call'.step = then
  BY <1>1, CallAdvances DEF Create, WriteFails, Fail, TypeInv, CallStep
<1>3. QED
  BY <1>1, <1>2, NothingInFlight DEF At

LEMMA ReplaceStageDurable ==
  ASSUME TypeInv, FilesInv, DurableInv, Replace("stage", "stage.replace", "stage.sync")
  PROVE  DurableInv'
<1>1. call # Nothing /\ call.step = "stage.replace" /\ UNCHANGED durable
  BY DEF Replace, WriteFails, Running
<1>2. CASE Fail /\ UNCHANGED disk
  BY <1>1, <1>2, NothingInFlight DEF Fail, At
<1>3. CASE disk' = [disk EXCEPT !["stage"] = Target("stage")] /\ StepTo("stage.sync")
  <2>1. disk'.live = disk.live /\ LiveOf(disk)' = LiveOf(disk)
    BY <1>3 DEF TypeInv, TypeOK, AreFiles, LiveOf
  <2>2. call' # Nothing /\ call'.step = "stage.sync"
    BY <1>1, <1>3, CallAdvances DEF TypeInv, CallStep
  <2>3. SoundFiles(durable)'
    BY <1>1 DEF DurableInv, SoundFiles
  <2>4. LivesAgree'
    BY <1>1, <2>1 DEF DurableInv, LivesAgree, At
  <2>5. StagesAgree' /\ LiveOlder'
    BY <2>2 DEF StagesAgree, LiveOlder, At
  <2>6. QED
    BY <2>3, <2>4, <2>5 DEF DurableInv
<1>4. QED
  BY <1>2, <1>3 DEF Replace, WriteFails

LEMMA SyncStageDurable ==
  ASSUME Enduring, TypeInv, FilesInv', SyncStage
  PROVE  DurableInv'
<1>1. durable' = disk /\ UNCHANGED disk /\ StepTo("live.create")
  BY DEF SyncStage, Synced, Enduring
<1>2. call' # Nothing /\ call'.step = "live.create"
  BY <1>1, CallAdvances DEF SyncStage, Running, TypeInv, CallStep
<1>3. QED
  BY <1>1, <1>2, SyncedAgrees DEF FilesInv, At

\* The durable live file is left behind by one call.
LEMMA InstallsDurable ==
  ASSUME TypeInv, FilesInv, DurableInv, Installs, call.step = "live.replace", UNCHANGED durable
  PROVE  DurableInv'
<1>1. /\ durable.stage = disk.stage
      /\ Follows(LiveOf(durable), LiveOf(disk))
      /\ Slot(LiveOf(disk)) # {} => durable.live = disk.live
      /\ disk.live = NoFile => durable.live = NoFile
  BY DEF DurableInv, StagesAgree, LivesAgree, At
<1>2. /\ IsImage(call.next.image)
      /\ disk'.live = call.next.image /\ disk'.stage = disk.stage
      /\ call' # Nothing /\ call'.step = "live.sync"
      /\ call'.op = call.op /\ call'.id = call.id
      /\ call'.next = call.next /\ call'.outcome = call.outcome
      /\ mem' = mem
  BY InstalledFiles
<1>3. Writing(call)
  BY DEF Installs, FilesInv, Phase
<1>4. CASE Opening(call)
  <2>1. LiveOf(durable) = LiveOf(disk)
    BY <1>1, <1>4 DEF Opening, LiveOf
  <2>2. call.next.image = LiveOf(disk) /\ call.op = "open"
    BY <1>4, LiveImage, LoadedView DEF Opening, TypeInv, TypeOK
  <2>3. LiveOlder'
    BY <1>2, <2>1, <2>2 DEF LiveOlder, LiveOf
  <2>4. QED
    BY <1>1, <1>2, <2>3 DEF DurableInv, SoundFiles, StagesAgree, LivesAgree, At
<1>5. CASE Staged(call) \/ (Planned(call) /\ Settled)
  <2>1. /\ mem # Nothing /\ LiveIs(mem) /\ call.op # "open"
        /\ call.op # "prepare" => AtRest(mem, disk.stage)
        /\ (call.op = "prepare" /\ PreparePlanned(call)) \/ Planned(call)
    BY <1>5 DEF Staged, Settled, Planned
  <2>2. /\ LiveOf(disk) = disk.live /\ Follows(disk.live, mem.image)
        /\ Slot(disk.live) = Slot(mem.image)
        /\ Slot(mem.image) # {} => disk.live = mem.image
    BY <2>1 DEF LiveIs, LiveOf, Follows, Slot
  <2>3. Follows(LiveOf(durable), mem.image)
    BY <1>1, <2>2 DEF Follows
  <2>4. Slot(mem.image) # {} => durable.live = mem.image
    BY <1>1, <2>2
  <2>5. /\ PreparePlanned(call) => PreparePlanned(call)'
        /\ Planned(call) => Planned(call)'
    BY <1>2
       DEF PreparePlanned, Startable, LedgerHasRoom, Known, Planned, MutatePlanned,
           CommitPlanned, AbortPlanned, ReclaimPlanned, Decide, SlotFreeFor
  <2>6. LiveOlder'
    BY <1>2, <2>1, <2>3, <2>4, <2>5 DEF LiveOlder, Unsynced
  <2>7. QED
    BY <1>1, <1>2, <2>6 DEF DurableInv, SoundFiles, StagesAgree, LivesAgree, At
<1>6. QED
  BY <1>3, <1>4, <1>5 DEF Writing

LEMMA ReplaceLiveDurable ==
  ASSUME TypeInv, FilesInv, DurableInv, Replace("live", "live.replace", "live.sync")
  PROVE  DurableInv'
<1>1. call # Nothing /\ call.step = "live.replace" /\ UNCHANGED durable
  BY DEF Replace, WriteFails, Running
<1>2. CASE Fail /\ UNCHANGED disk
  BY <1>1, <1>2, NothingInFlight DEF Fail, At
<1>3. CASE Installs
  BY <1>1, <1>3, InstallsDurable
<1>4. QED
  BY <1>1, <1>2, <1>3 DEF Replace, WriteFails, Target, Installs

LEMMA SyncLiveDurable ==
  ASSUME Enduring, TypeInv, FilesInv, FilesInv', DurableInv, SyncLive
  PROVE  DurableInv'
<1>1. call # Nothing /\ call.step = "live.sync" /\ UNCHANGED disk /\ Written(call)
  BY DEF SyncLive, Running, FilesInv, Phase
<1>2. CASE durable' = Synced /\ Installed
  <2>1. durable' = disk'
    BY <1>1, <1>2 DEF Synced, Enduring
  <2>2. call' = Nothing \/ call'.step = "remove"
    BY <1>1, <1>2, CallAdvances DEF Installed, Finish, TypeInv, CallStep
  <2>3. QED
    BY <2>1, <2>2, SyncedAgrees DEF FilesInv, At
<1>3. CASE ~RequiresSync /\ Installed /\ UNCHANGED durable
  <2>1. call.op \in {"open", "mutate"} /\ call' = Nothing
    BY <1>1, <1>3, CallFields
       DEF Written, RequiresSync, Installed, RemovesStage, Finish, TypeInv, CallOp
  <2>2. /\ disk.live = call.next.image /\ Slot(disk.live) = {}
        /\ disk.live # NoFile /\ LiveOf(disk) = disk.live
    BY <1>1, <2>1, CallFields, ViewFields, NoFileAssumption
       DEF Written, TypeInv, IsImage, LiveOf
  <2>3. Follows(LiveOf(durable), disk.live)
    <3>1. CASE call.op = "open"
      BY <1>1, <3>1 DEF DurableInv, LiveOlder, At, Follows
    <3>2. CASE call.op = "mutate"
      <4>1. Unsynced(call) /\ Follows(disk.live, mem.image)
        BY <1>1, <2>2, <3>2 DEF DurableInv, LiveOlder, At, Written
      <4>2. QED
        BY <2>2, <4>1 DEF Unsynced, Follows, LiveOf
    <3>3. QED
      BY <2>1, <3>1, <3>2
  <2>4. SoundFiles(durable)'
    BY <1>3 DEF DurableInv, SoundFiles
  <2>5. StagesAgree'
    BY <1>1, <1>3 DEF DurableInv, StagesAgree, At
  <2>6. LivesAgree' /\ LiveOlder'
    BY <1>1, <1>3, <2>1, <2>2, <2>3 DEF LivesAgree, LiveOlder, At, LiveOf
  <2>7. QED
    BY <2>4, <2>5, <2>6 DEF DurableInv
<1>4. QED
  BY <1>2, <1>3, NoRequiredSyncFails DEF SyncLive

LEMMA RemoveStageDurable ==
  ASSUME TypeInv, DurableInv, RemoveStage
  PROVE  DurableInv'
<1>1. call # Nothing /\ call.step = "remove" /\ UNCHANGED durable
  BY DEF RemoveStage, Running
<1>2. CASE Fail /\ UNCHANGED disk
  BY <1>1, <1>2, NothingInFlight DEF Fail, At
<1>3. CASE disk' = [disk EXCEPT !.stage = NoFile] /\ disk.stage = NoFile /\ Removed
  <2>1. disk' = disk
    BY <1>3 DEF TypeInv, TypeOK, AreFiles
  <2>2. call' = Nothing \/ call'.step = "live.create"
    BY <1>1, <1>3, CallAdvances DEF Removed, Finish, TypeInv, CallStep
  <2>3. QED
    BY <1>1, <2>1, <2>2, NothingInFlight DEF At
<1>4. CASE disk' = [disk EXCEPT !.stage = NoFile] /\ StepTo("remove.sync")
  <2>1. disk'.live = disk.live /\ LiveOf(disk)' = LiveOf(disk)
    BY <1>4, StageRemoved DEF TypeInv, TypeOK, LiveOf
  <2>2. call' # Nothing /\ call'.step = "remove.sync"
    BY <1>1, <1>4, CallAdvances DEF TypeInv, CallStep
  <2>3. SoundFiles(durable)'
    BY <1>1 DEF DurableInv, SoundFiles
  <2>4. LivesAgree'
    BY <1>1, <2>1 DEF DurableInv, LivesAgree, At
  <2>5. StagesAgree' /\ LiveOlder'
    BY <2>2 DEF StagesAgree, LiveOlder, At
  <2>6. QED
    BY <2>3, <2>4, <2>5 DEF DurableInv
<1>5. QED
  BY <1>2, <1>3, <1>4 DEF RemoveStage

LEMMA SyncRemoveDurable ==
  ASSUME Enduring, TypeInv, FilesInv', SyncRemove
  PROVE  DurableInv'
<1>1. call # Nothing /\ durable' = disk /\ UNCHANGED disk /\ Removed
  BY NoRequiredSyncFails DEF SyncRemove, Running, Synced, Enduring
<1>2. call' = Nothing \/ call'.step = "live.create"
  BY <1>1, CallAdvances DEF Removed, Finish, TypeInv, CallStep
<1>3. QED
  BY <1>1, <1>2, SyncedAgrees DEF FilesInv, At

LEMMA StepDurable ==
  ASSUME Enduring, TypeInv, FilesInv, FilesInv', DurableInv, Step
  PROVE  DurableInv'
<1>1. CASE Create("stage", "stage.create", "stage.replace")
  BY <1>1, CreateDurable
<1>2. CASE Create("live", "live.create", "live.replace")
  BY <1>2, CreateDurable
<1>3. QED
  BY <1>1, <1>2, ReplaceStageDurable, SyncStageDurable, ReplaceLiveDurable,
     SyncLiveDurable, RemoveStageDurable, SyncRemoveDurable DEF Step

-----------------------------------------------------------------------------
(* The machine *)

\* An entry written back on its own brings the durable pair closer to disk.
LEMMA WritebackDurable ==
  ASSUME TypeInv, FilesInv, DurableInv, Writeback
  PROVE  DurableInv'
<1>1. UNCHANGED <<disk, mem, call>>
  BY DEF Writeback
<1>2. /\ AreFiles(disk) /\ AreFiles(durable)
      /\ Recovery(LiveOf(disk), disk.stage) # "refuse"
      /\ \A i, j \in Slot(LiveOf(disk)) : i = j
  BY DEF TypeInv, TypeOK, FilesInv, Sound, AlwaysRecoverable
<1>3. CASE durable' = [durable EXCEPT !["live"] = disk["live"]]
  <2>1. /\ durable'.live = disk.live /\ durable'.stage = durable.stage
        /\ LiveOf(durable') = LiveOf(disk)
    BY <1>2, <1>3 DEF AreFiles, LiveOf
  <2>2. SoundFiles(durable)'
    <3>1. CASE At({"live.sync"})
      <4>1. durable.stage = disk.stage
        BY <3>1 DEF DurableInv, StagesAgree, At
      <4>2. QED
        BY <1>2, <2>1, <4>1 DEF SoundFiles
    <3>2. CASE ~At({"live.sync"})
      <4>1. Follows(LiveOf(durable), LiveOf(disk))
        BY <3>2 DEF DurableInv, LivesAgree
      <4>2. QED
        BY <2>1, <4>1, FollowsRecovery DEF DurableInv, SoundFiles
    <3>3. QED
      BY <3>1, <3>2
  <2>3. StagesAgree' /\ LivesAgree'
    BY <1>1, <2>1 DEF DurableInv, StagesAgree, LivesAgree, At, Follows, LiveOf
  <2>4. LiveOlder'
    <3> SUFFICES ASSUME At({"live.sync"})
                 PROVE  IF call.op = "open" THEN LiveOf(durable') = disk.live
                        ELSE Unsynced(call)'
      BY <1>1 DEF LiveOlder, At
    <3>1. call # Nothing /\ Written(call) /\ disk.live = call.next.image
      BY DEF At, FilesInv, Phase, Written
    <3>2. disk.live # NoFile
      BY <3>1, CallFields, ViewFields, NoFileAssumption DEF TypeInv, IsImage
    <3>3. call.op # "open" => Unsynced(call)
      BY DEF DurableInv, LiveOlder
    <3>4. call.op # "open" => Unsynced(call)'
      BY <1>1, <2>1, <3>3
         DEF Unsynced, PreparePlanned, Startable, LedgerHasRoom, Known, Planned,
             MutatePlanned, CommitPlanned, AbortPlanned, ReclaimPlanned, Decide, SlotFreeFor
    <3>5. QED
      BY <2>1, <3>2, <3>4 DEF LiveOf
  <2>5. QED
    BY <2>2, <2>3, <2>4 DEF DurableInv
<1>4. CASE durable' = [durable EXCEPT !["stage"] = disk["stage"]]
  <2>1. durable'.live = durable.live /\ durable'.stage = disk.stage
    BY <1>2, <1>4 DEF AreFiles
  <2>2. CASE durable' = durable
    BY <1>1, <2>2
       DEF DurableInv, SoundFiles, StagesAgree, LivesAgree, LiveOlder, At, Unsynced,
           PreparePlanned, Startable, LedgerHasRoom, Known, Planned, MutatePlanned,
           CommitPlanned, AbortPlanned, ReclaimPlanned, Decide, SlotFreeFor
  <2>3. CASE durable' # durable
    <3>1. durable.stage # disk.stage
      BY <1>2, <1>4, <2>3 DEF AreFiles
    <3>2. ~At({"live.sync"})
      BY <3>1 DEF DurableInv, StagesAgree, At
    <3>3. Follows(LiveOf(durable), LiveOf(disk)) /\ LiveOf(durable') = LiveOf(durable)
      BY <2>1, <3>2 DEF DurableInv, LivesAgree, LiveOf
    <3>4. SoundFiles(durable)'
      BY <1>2, <2>1, <3>3, FollowsRecovery DEF SoundFiles
    <3>5. LivesAgree'
      BY <1>1, <2>1, <3>2, <3>3 DEF DurableInv, LivesAgree, At
    <3>6. StagesAgree' /\ LiveOlder'
      BY <1>1, <2>1, <3>2 DEF StagesAgree, LiveOlder, At
    <3>7. QED
      BY <3>4, <3>5, <3>6 DEF DurableInv
  <2>4. QED
    BY <2>2, <2>3
<1>5. QED
  BY <1>3, <1>4 DEF Writeback

\* A power loss leaves the durable pair, which the next open accepts.
LEMMA PowerLossKeeps ==
  ASSUME DurableInv, PowerLoss
  PROVE  FilesInv' /\ DurableInv'
<1>1. disk' = durable /\ durable' = durable /\ call' = Nothing /\ mem' = Nothing
  BY DEF PowerLoss
<1>2. Sound'
  BY <1>1 DEF DurableInv, SoundFiles, Sound, AlwaysRecoverable
<1>3. FilesInv'
  BY <1>1, <1>2 DEF FilesInv
<1>4. QED
  BY <1>1, <1>2, <1>3, SyncedAgrees DEF At

LEMMA NextDurable ==
  ASSUME Enduring, TypeInv, FilesInv, DurableInv, [Next]_vars
  PROVE  FilesInv' /\ DurableInv'
<1>1. CASE PowerLoss
  BY <1>1, PowerLossKeeps
<1>2. CASE ~PowerLoss
  <2>1. FilesInv'
    BY <1>2, NextKeeps DEF Enduring
  <2>2. CASE Step \/ Writeback
    BY <2>1, <2>2, StepDurable, WritebackDurable
  <2>3. CASE Crash
    BY <2>1, <2>3, StartDurable DEF Crash, Enduring
  <2>4. CASE UNCHANGED <<disk, durable, mem, call>>
    BY <2>1, <2>4
       DEF DurableInv, SoundFiles, StagesAgree, LivesAgree, LiveOlder, At, Unsynced,
           PreparePlanned, Startable, LedgerHasRoom, Known, Planned, MutatePlanned,
           CommitPlanned, AbortPlanned, ReclaimPlanned, Decide, SlotFreeFor
  <2>5. CASE \/ Open
             \/ \E at \in Addr, secret \in Val : Put(at, secret)
             \/ \E at \in Addr : Delete(at)
             \/ \E batch \in Batches : Apply(batch)
             \/ \E id \in Id, d \in Digest, batch \in Batches : Prepare(id, d, batch)
             \/ \E id \in Id : State(id) \/ Commit(id) \/ Abort(id)
             \/ \E g \in Generation : Reclaim(g)
    <3>1. call = Nothing /\ UNCHANGED <<disk, durable>>
      <4>1. call = Nothing
        BY <2>5
           DEF Open, Put, Delete, Apply, Mutate, Prepare, State, Commit, Committable,
                Abort, Abortable, Reclaim,
               Invokes, Ready
      <4>2. UNCHANGED <<disk, durable>>
        BY <2>5
           DEF Open, Put, Delete, Apply, Mutate, Prepare, State, Commit, Committable,
                Abort, Abortable, Reclaim,
               Start
      <4>3. QED
        BY <4>1, <4>2
    <3>2. call' = Nothing \/ call'.step \in {"stage.create", "live.create", "remove"}
      <4>1. ASSUME NEW op, NEW id, NEW next, NEW step, NEW outcome,
                   Start(op, id, next, step, outcome)
            PROVE  call'.step = step
        BY <4>1 DEF Start
      <4>2. CASE Open \/ \E id \in Id : State(id)
        BY <3>1, <4>1, <4>2 DEF Open, State
      <4>3. CASE \E next : Mutate(next)
        BY <4>1, <4>3 DEF Mutate
      <4>4. CASE \/ \E id \in Id, d \in Digest, batch \in Batches : Prepare(id, d, batch)
                 \/ \E id \in Id : Commit(id) \/ Abort(id)
                 \/ \E g \in Generation : Reclaim(g)
        BY <4>1, <4>4 DEF Prepare, Commit, Committable, Abort, Abortable, Reclaim
      <4>5. QED
        BY <2>5, <4>2, <4>3, <4>4 DEF Put, Delete, Apply
    <3>3. QED
      BY <2>1, <3>1, <3>2, StartDurable
  <2>6. (\E id \in Id : AnswerAgain(id)) => UNCHANGED <<disk, durable, mem, call>>
    BY DEF AnswerAgain, Answer
  <2>7. QED
    BY <1>2, <2>1, <2>2, <2>3, <2>4, <2>5, <2>6 DEF Next, vars
<1>3. QED
  BY <1>1, <1>2

LEMMA InitDurable == Init => FilesInv /\ DurableInv
<1> SUFFICES ASSUME Init
             PROVE  FilesInv /\ DurableInv
  OBVIOUS
<1>1. FilesInv /\ durable = disk /\ call = Nothing
  BY InitFiles DEF Init
<1>2. QED
  BY <1>1
     DEF FilesInv, Sound, AlwaysRecoverable, DurableInv, SoundFiles, StagesAgree,
         LivesAgree, Follows, LiveOlder, At

LEMMA DurableHolds == ASSUME Enduring PROVE Spec => [](FilesInv /\ DurableInv)
<1>1. TypeInv /\ FilesInv /\ DurableInv /\ [Next]_vars => FilesInv' /\ DurableInv'
  BY NextDurable
<1>2. QED
  BY <1>1, InitDurable, TypesHold, PTL DEF Spec

\* Whatever instant the power goes off at, and whichever directory entries were
\* written back by then, the next open accepts the two files it finds, where the
\* process ends only between calls, no sync or check that a transaction requires
\* fails and the owner reconciles (file/prepared.rs 186-254, 404-474).
THEOREM FilePowerRecoverable == Enduring => (Spec => []AlwaysRecoverable)
<1> SUFFICES ASSUME Enduring
             PROVE  Spec => []AlwaysRecoverable
  OBVIOUS
<1>1. FilesInv => AlwaysRecoverable
  BY DEF FilesInv, Sound
<1>2. QED
  BY <1>1, DurableHolds, PTL

-----------------------------------------------------------------------------
(* What was answered is durable *)

\* While a replaced live file is not synced, no call answers.
LEMMA UnsyncedAnswersNothing ==
  ASSUME TypeInv, [Next]_vars, At({"live.sync"})'
  PROVE  UNCHANGED heard
<1>1. (Step /\ heard' # heard) => call' = Nothing
  BY DEF Step, Create, Replace, WriteFails, SyncStage, SyncLive, RemoveStage, SyncRemove, Installed,
         Removed, Finish, Fail
<1>2. (\E id \in Id : State(id) \/ AnswerAgain(id)) /\ heard' # heard => call' = Nothing
  BY DEF State, AnswerAgain, Answer, Start, Invokes, Ready
<1>3. heard' # heard => Step \/ \E id \in Id : State(id) \/ AnswerAgain(id)
  BY DEF Next, vars, Open, Put, Delete, Apply, Mutate, Prepare, Commit, Committable, Abort,
         Abortable, Reclaim,
         Start, Crash, Writeback, PowerLoss
<1>4. QED
  BY <1>1, <1>2, <1>3 DEF At

\* A directory is synced whole, and an entry written back is the one on disk.
LEMMA DurableOrDisk ==
  ASSUME TypeInv, [Next]_vars, PowerLosses
  PROVE  \/ durable' = durable
         \/ durable' = disk /\ UNCHANGED disk
         \/ Writeback
<1>1. Step => durable' = durable \/ (durable' = disk /\ UNCHANGED disk)
  BY DEF Step, Create, Replace, WriteFails, SyncStage, SyncLive, RemoveStage, SyncRemove, Synced
<1>2. QED
  BY <1>1
     DEF Next, vars, Open, Put, Delete, Apply, Mutate, Prepare, Commit, Committable, Abort,
         Abortable, Reclaim,
         State, AnswerAgain, Answer, Start, Crash, PowerLoss

LEMMA LiveMoves ==
  ASSUME TypeInv, [Next]_vars, PowerLosses
  PROVE  LiveOf(durable') \in {LiveOf(durable), LiveOf(disk')}
<1>1. CASE durable' = durable \/ (durable' = disk /\ UNCHANGED disk)
  BY <1>1
<1>2. CASE Writeback
  <2>1. disk' = disk /\ durable'.live \in {durable.live, disk.live}
    BY <1>2 DEF Writeback, TypeInv, TypeOK, AreFiles
  <2>2. QED
    BY <2>1 DEF LiveOf
<1>3. QED
  BY <1>1, <1>2, DurableOrDisk

AnsweredTwice == Answered /\ AnswersDurable

LEMMA NextKeepsDurableAnswers ==
  ASSUME Enduring, TypeInv, FilesInv, DurableInv, TypeInv', FilesInv', DurableInv',
         AnsweredTwice, [Next]_vars
  PROVE  AnsweredTwice'
<1>1. CASE PowerLoss
  <2>1. disk' = durable /\ UNCHANGED <<durable, heard>>
    BY <1>1 DEF PowerLoss
  <2>2. QED
    BY <2>1 DEF AnsweredTwice, Answered, AnswersKept, AnswersDurable, Keeps, Remembers, OneDecision
<1>2. CASE ~PowerLoss
  <2>1. Answered'
    BY <1>2, NextKeepsAnswers DEF AnsweredTwice, Enduring
  <2>2. AnswersDurable'
    <3>1. CASE ~At({"live.sync"})'
      <4>1. Follows(LiveOf(durable'), LiveOf(disk'))
        BY <3>1 DEF DurableInv, LivesAgree
      <4>2. QED
        BY <2>1, <4>1 DEF Answered, AnswersKept, AnswersDurable, Follows, Keeps, Remembers
    <3>2. CASE At({"live.sync"})'
      <4>1. UNCHANGED heard /\ LiveOf(durable') \in {LiveOf(durable), LiveOf(disk')}
        BY <3>2, UnsyncedAnswersNothing, LiveMoves DEF Enduring
      <4>2. QED
        BY <2>1, <4>1 DEF AnsweredTwice, Answered, AnswersKept, AnswersDurable, Keeps, Remembers
    <3>3. QED
      BY <3>1, <3>2
  <2>3. QED
    BY <2>1, <2>2 DEF AnsweredTwice
<1>3. QED
  BY <1>1, <1>2

LEMMA InitAnsweredTwice == Init => AnsweredTwice
BY InitAnswered DEF Init, AnsweredTwice, Answered, AnswersKept, AnswersDurable, Keeps, Remembers

LEMMA DurableAnswersHold == ASSUME Enduring PROVE Spec => []AnsweredTwice
<1>1. /\ TypeInv /\ FilesInv /\ DurableInv /\ TypeInv' /\ FilesInv' /\ DurableInv'
      /\ AnsweredTwice /\ [Next]_vars
      => AnsweredTwice'
  BY NextKeepsDurableAnswers
<1>2. QED
  BY <1>1, InitAnsweredTwice, TypesHold, DurableHolds, PTL DEF Spec

\* Where the process ends only between calls, no sync or check that a transaction
\* requires fails and the owner reconciles, no power loss loses an outcome the
\* owner was told, an answer read back from the files included.  Without any one
\* of the three it is false: open and state answer what they find, synced or not.
\* What holds without them is FileAcknowledgedIsDurable, below
\* (file/prepared.rs 27-184, 186-254).
THEOREM FileAnswersDurable == Enduring => (Spec => []AnswersDurable)
<1> SUFFICES ASSUME Enduring
             PROVE  Spec => []AnswersDurable
  OBVIOUS
<1>1. AnsweredTwice => AnswersDurable
  BY DEF AnsweredTwice
<1>2. QED
  BY <1>1, DurableAnswersHold, PTL

-----------------------------------------------------------------------------
(* The durable files as a PreparedStore *)

\* The durable live file gains or loses point writes at most, and only while no
\* transaction is durably prepared.
Unmoved ==
  /\ Follows(LiveOf(durable'), LiveOf(durable))
  /\ Slot(LiveOf(durable)) # {} => durable' = durable

\* The live file a call has installed becomes durable.
Moved ==
  /\ call # Nothing /\ call.op # "open" /\ Written(call)
  /\ LiveOf(durable') = call.next.image
  /\ (call.op = "prepare" /\ PreparePlanned(call)) \/ Planned(call)
  /\ call.op # "prepare" => AtRest(mem, disk.stage)
  /\ Follows(LiveOf(durable), mem.image)
  /\ Slot(mem.image) # {} => durable.live = mem.image
  /\ durable.stage = disk.stage

\* What is durable of a stage whose directory is not synced says nothing yet.
LEMMA UnsyncedStageIsFree ==
  ASSUME TypeInv, FilesInv, DurableInv, At({"stage.sync", "remove.sync"})
  PROVE  Slot(LiveOf(durable)) = {}
<1>1. Slot(LiveOf(disk)) = {}
  <2>1. CASE call.step = "stage.sync"
    <3>1. LiveIs(mem) /\ Slot(mem.image) = {}
      BY <2>1 DEF At, FilesInv, Phase, Staged, PreparePlanned, Startable
    <3>2. QED
      BY <3>1 DEF LiveIs, LiveOf, Follows, Slot
  <2>2. CASE call.step = "remove.sync"
    BY <2>2 DEF At, FilesInv, Phase, Removing
  <2>3. QED
    BY <2>1, <2>2 DEF At
<1>2. Follows(LiveOf(durable), LiveOf(disk))
  BY DEF DurableInv, LivesAgree, At
<1>3. QED
  BY <1>1, <1>2, FollowsRecovery

\* Where no live file waits for its sync, what becomes durable of disk says the
\* same.
LEMMA AgreedDisk ==
  ASSUME DurableInv, ~At({"live.sync"}), LiveOf(durable') = LiveOf(disk),
         Slot(LiveOf(durable)) # {} => durable' = durable
  PROVE  Unmoved
BY DEF DurableInv, LivesAgree, Follows, Unmoved

\* Where one waits, the durable pair becomes the pair on disk.
LEMMA InstalledMoves ==
  ASSUME TypeInv, FilesInv, DurableInv, At({"live.sync"}), durable'.live = disk.live,
         durable'.stage = disk.stage, AreFiles(durable')
  PROVE  Unmoved \/ Moved
<1>1. /\ call # Nothing /\ Written(call) /\ disk.live = call.next.image
      /\ durable.stage = disk.stage
  BY DEF At, FilesInv, Phase, Written, DurableInv, StagesAgree
<1>2. disk.live # NoFile
  BY <1>1, CallFields, ViewFields, NoFileAssumption DEF TypeInv, IsImage
<1>3. LiveOf(durable') = call.next.image
  BY <1>1, <1>2 DEF LiveOf
<1>4. CASE call.op = "open"
  <2>1. LiveOf(durable) = call.next.image /\ Slot(call.next.image) = {}
    BY <1>1, <1>4 DEF DurableInv, LiveOlder, Written
  <2>2. QED
    BY <1>3, <2>1 DEF Unmoved, Follows
<1>5. CASE call.op # "open" /\ durable.live = disk.live
  <2>1. durable' = durable
    BY <1>1, <1>5 DEF TypeInv, TypeOK, AreFiles
  <2>2. QED
    BY <2>1 DEF Unmoved, Follows
<1>6. CASE call.op # "open" /\ durable.live # disk.live
  <2>1. Unsynced(call)
    BY <1>6 DEF DurableInv, LiveOlder
  <2>2. QED
    BY <1>1, <1>3, <1>6, <2>1 DEF Unsynced, Moved
<1>7. QED
  BY <1>4, <1>5, <1>6

LEMMA DurableMoves ==
  ASSUME Enduring, TypeInv, FilesInv, DurableInv, TypeInv', [Next]_vars
  PROVE  Unmoved \/ Moved
<1>1. AreFiles(disk) /\ AreFiles(durable) /\ AreFiles(durable')
  BY DEF TypeInv, TypeOK
<1>2. CASE durable' = durable
  BY <1>2 DEF Unmoved, Follows
<1>3. ASSUME durable' \in {disk, [durable EXCEPT !["live"] = disk["live"]],
                           [durable EXCEPT !["stage"] = disk["stage"]]},
             durable' # durable
      PROVE  Unmoved \/ Moved
  <2>1. CASE At({"live.sync"})
    <3>1. durable.stage = disk.stage
      BY <2>1 DEF DurableInv, StagesAgree, At
    <3>2. durable'.stage = disk.stage
      BY <1>1, <1>3, <3>1 DEF AreFiles
    <3>3. durable'.live = disk.live
      BY <1>1, <1>3, <3>1 DEF AreFiles
    <3>4. QED
      BY <1>1, <2>1, <3>2, <3>3, InstalledMoves
  <2>2. CASE At({"stage.sync", "remove.sync"})
    <3>1. LiveOf(durable') \in {LiveOf(durable), LiveOf(disk)}
      BY <1>1, <1>3 DEF AreFiles, LiveOf
    <3>2. Follows(LiveOf(disk), LiveOf(durable))
      BY <2>2 DEF DurableInv, LivesAgree, At, Follows
    <3>3. QED
      BY <2>2, <3>1, <3>2, UnsyncedStageIsFree DEF Unmoved, Follows
  <2>3. CASE ~At({"live.sync", "stage.sync", "remove.sync"})
    <3>1. /\ durable.stage = disk.stage
          /\ Slot(LiveOf(disk)) # {} => durable.live = disk.live
          /\ Follows(LiveOf(durable), LiveOf(disk))
      BY <2>3 DEF DurableInv, StagesAgree, LivesAgree, At
    <3>2. durable'.stage = disk.stage /\ durable'.live = disk.live
      BY <1>1, <1>3, <3>1 DEF AreFiles
    <3>3. LiveOf(durable') = LiveOf(disk)
      BY <3>2 DEF LiveOf
    <3>4. Slot(LiveOf(durable)) = {}
      <4>1. durable.live # disk.live
        BY <1>1, <1>3, <3>1, <3>2 DEF AreFiles
      <4>2. QED
        BY <3>1, <4>1, FollowsRecovery
    <3>5. QED
      BY <3>1, <3>3, <3>4 DEF Unmoved, Follows
  <2>4. QED
    BY <2>1, <2>2, <2>3 DEF At
<1>4. durable' = durable \/ (durable' = disk /\ UNCHANGED disk) \/ Writeback
  BY DurableOrDisk DEF Enduring
<1>5. QED
  BY <1>2, <1>3, <1>4 DEF Writeback

LEMMA LastingVocabulary ==
  /\ Lasting!Aborted = Aborted
  /\ Lasting!Slot = Slot(LiveOf(durable))
  /\ \A fence, id : Lasting!Retired(fence, id) <=> Retired(fence, id)
  /\ \A ledger : Lasting!TerminalIds(ledger) = TerminalIds(ledger)
<1>1. \A ledger : Lasting!PreparedIds(ledger) = PreparedIds(ledger)
  BY DEF Lasting!PreparedIds, PreparedIds
<1>2. QED
  BY <1>1
     DEF Lasting!Aborted, Aborted, Lasting!Slot, Slot, Lasting!Retired, Retired,
         Lasting!TerminalIds, TerminalIds

\* A call that makes its live file durable decides no id that was decided.
LEMMA MovedKeepsOutcomes ==
  ASSUME TypeInv, Moved
  PROVE  \A id \in TerminalIds(LiveOf(durable).ledger) :
           \/ LiveOf(durable').ledger[id] = LiveOf(durable).ledger[id]
           \/ Retired(LiveOf(durable').fence, id)
<1> SUFFICES ASSUME NEW id \in TerminalIds(mem.image.ledger)
             PROVE  \/ call.next.image.ledger[id] = mem.image.ledger[id]
                    \/ Retired(call.next.image.fence, id)
  BY DEF Moved, Follows
<1>1. id \in Id /\ mem.image.ledger[id].state \in {"committed", "aborted"}
  BY DEF TerminalIds
<1>2. mem # Nothing /\ IsCall(call) /\ IsImage(mem.image)
  BY CallFields, MemFields DEF Moved, Written, TypeInv
<1>3. CASE call.op = "prepare" /\ PreparePlanned(call)
  BY <1>1, <1>2, <1>3, PreparedNext, RecordKinds
<1>4. CASE call.op = "mutate" /\ MutatePlanned(call)
  BY <1>4 DEF MutatePlanned, Follows
<1>5. CASE call.op = "commit" /\ CommitPlanned(call)
  <2>1. AtRest(mem, disk.stage)
    BY <1>5 DEF Moved
  <2>2. QED
    BY <1>1, <1>2, <1>5, <2>1, CommittedNext, RecordKinds
<1>6. CASE call.op = "abort" /\ AbortPlanned(call)
  <2>1. AtRest(mem, disk.stage)
    BY <1>6 DEF Moved
  <2>2. mem.image.ledger[call.id].state \in {"unseen", "prepared"}
    BY <1>6 DEF AbortPlanned, Known
  <2>3. QED
    BY <1>1, <1>2, <1>6, <2>1, <2>2, AbortedNext
<1>7. CASE call.op = "reclaim" /\ ReclaimPlanned(call)
  BY <1>1, <1>2, <1>7, ReclaimedNext, RetainKeepsLedger, ImageFields
<1>8. QED
  BY <1>3, <1>4, <1>5, <1>6, <1>7 DEF Moved, Planned

\* In the same environment a durable outcome stays until the retirement of its
\* generation is durable (transaction.rs 164-206).
THEOREM FileDurableOutcomesAreFinal == Enduring => (Spec => DurableOutcomesAreFinal)
<1> SUFFICES ASSUME Enduring
             PROVE  Spec => DurableOutcomesAreFinal
  OBVIOUS
<1>1. TypeInv /\ FilesInv /\ DurableInv /\ TypeInv' /\ [Next]_vars => Lasting!KeepsOutcomes
  <2> SUFFICES ASSUME TypeInv, FilesInv, DurableInv, TypeInv', [Next]_vars
               PROVE  \A id \in TerminalIds(LiveOf(durable).ledger) :
                        \/ LiveOf(durable').ledger[id] = LiveOf(durable).ledger[id]
                        \/ Retired(LiveOf(durable').fence, id)
    BY LastingVocabulary DEF Lasting!KeepsOutcomes
  <2>1. CASE Unmoved
    BY <2>1 DEF Unmoved, Follows
  <2>2. QED
    BY <2>1, DurableMoves, MovedKeepsOutcomes
<1>2. QED
  BY <1>1, TypesHold, DurableHolds, PTL
     DEF Spec, DurableOutcomesAreFinal, Lasting!OutcomesAreFinal

\* What a reader of the durable files may see of one step while id is prepared.
Decides(id) ==
  \/ UNCHANGED <<LiveOf(durable).entries, CandidateIn(durable), LiveOf(durable).ledger>>
  \/ /\ LiveOf(durable)'.ledger[id].state = "committed"
     /\ LiveOf(durable)'.entries = CandidateIn(durable)
  \/ /\ LiveOf(durable)'.ledger[id] = Aborted
     /\ LiveOf(durable)'.entries = LiveOf(durable).entries

LEMMA MovedDecides ==
  ASSUME TypeInv, Moved, NEW id \in Slot(LiveOf(durable))
  PROVE  Decides(id)
<1>1. mem # Nothing /\ IsView(mem) /\ call # Nothing /\ LiveOf(durable)' = call.next.image
  BY MemFields DEF Moved, Written, TypeInv, LiveOf
<1>2. /\ Slot(mem.image) # {} /\ id \in Slot(mem.image) /\ durable.live = mem.image
      /\ LiveOf(durable) = mem.image
  <2>1. Slot(LiveOf(durable)) = Slot(mem.image)
    BY FollowsRecovery DEF Moved
  <2>2. durable.live = mem.image /\ mem.image # NoFile
    BY <1>1, <2>1, ViewFields, NoFileAssumption DEF Moved, IsImage
  <2>3. QED
    BY <2>1, <2>2 DEF LiveOf
<1>3. AtRest(mem, disk.stage) /\ (CommitPlanned(call) \/ AbortPlanned(call))
  BY <1>2
     DEF Moved, PreparePlanned, Startable, Planned, MutatePlanned, ReclaimPlanned
<1>4. CASE CommitPlanned(call)
  <2>1. /\ call.next.image.entries = mem.candidate.entries
        /\ call.next.image.ledger[call.id] = Committed(mem.candidate.digest)
        /\ Slot(mem.image) = {call.id} /\ mem.candidate # NoCandidate
        /\ disk.stage = StageOf(mem)
    BY <1>1, <1>3, <1>4, CommittedNext
  <2>2. CandidateIn(durable) = mem.candidate.entries
    <3>1. /\ disk.stage # NoFile /\ disk.stage.entries = mem.candidate.entries
      BY <1>1, <2>1, StageFields, NoFileAssumption DEF IsImage
    <3>2. QED
      BY <1>2, <3>1 DEF CandidateIn, Moved
  <2>3. id = call.id /\ Committed(mem.candidate.digest).state = "committed"
    BY <1>2, <2>1, RecordKinds
  <2>4. QED
    BY <1>1, <2>1, <2>2, <2>3 DEF Decides
<1>5. CASE AbortPlanned(call)
  <2>1. /\ call.next.image.entries = mem.image.entries
        /\ call.next.image.ledger[call.id] = Aborted
        /\ id = call.id
    BY <1>1, <1>2, <1>3, <1>5, AbortedNext
  <2>2. QED
    BY <1>1, <1>2, <2>1 DEF Decides
<1>6. QED
  BY <1>3, <1>4, <1>5

\* In the same environment, while a transaction is durably prepared, a power loss
\* at any moment finds its old entries, or exactly the candidate that was durably
\* prepared (file/prepared.rs 119-254).
THEOREM FileDurableSlotFreezesReads == Enduring => (Spec => DurableSlotFreezesReads)
<1> SUFFICES ASSUME Enduring
             PROVE  Spec => DurableSlotFreezesReads
  OBVIOUS
<1>1. TypeInv /\ FilesInv /\ DurableInv /\ TypeInv' /\ [Next]_vars => Lasting!FreezesReads
  <2> SUFFICES ASSUME TypeInv, FilesInv, DurableInv, TypeInv', [Next]_vars,
                      NEW id \in Slot(LiveOf(durable))
               PROVE  Decides(id)
    BY LastingVocabulary DEF Decides, Lasting!FreezesReads
  <2>1. CASE Unmoved
    <3>1. UNCHANGED durable
      BY <2>1 DEF Unmoved
    <3>2. QED
      BY <3>1 DEF Decides, LiveOf, CandidateIn, Slot
  <2>2. QED
    BY <2>1, DurableMoves, MovedDecides
<1>2. QED
  BY <1>1, TypesHold, DurableHolds, PTL
     DEF Spec, DurableSlotFreezesReads, Lasting!SlotFreezesReads

-----------------------------------------------------------------------------
(* What a call acknowledged is durable in every environment.  AckInv says   *)
(* that each image the store may go on from remembers what was acknowledged *)
(* (the two live files, the view, and what the call in progress will leave) *)
(* and how far a deciding call has got: from the sync of its live file on,  *)
(* the disk holds its outcome, and from the removal of the stage on the     *)
(* durable files hold it too.                                               *)

LEMMA SameRecords ==
  ASSUME NEW image, NEW told, Remembers(image, told),
         NEW after, after.fence = image.fence,
         \A i \in Id : after.ledger[i] = image.ledger[i]
  PROVE  Remembers(after, told)
BY DEF Remembers, Retired

\* A decision that is not taken twice takes nothing back.
LEMMA DecidedRemembers ==
  ASSUME NEW image, NEW told, Remembers(image, told), NEW id \in Id, NEW r \in Record,
         r # Unseen, image.ledger[id] \in Record,
         image.ledger[id] = Unseen \/ image.ledger[id].state = "prepared",
         NEW after, after.fence = image.fence,
         \A i \in Id : after.ledger[i] = IF i = id THEN r ELSE image.ledger[i]
  PROVE  Remembers(after, told)
<1> SUFFICES ASSUME NEW i \in Id, ~Retired(image.fence, i)
             PROVE  /\ "committed" \in told[i] => after.ledger[i].state = "committed"
                    /\ "aborted" \in told[i] => after.ledger[i] = Aborted
                    /\ "prepared" \in told[i] => after.ledger[i] # Unseen
  BY DEF Remembers, Retired
<1>1. CASE i # id
  BY <1>1 DEF Remembers
<1>2. CASE i = id
  BY <1>2, RecordKinds DEF Remembers
<1>3. QED
  BY <1>1, <1>2

LEMMA ReclaimedRemembers ==
  ASSUME NEW image, IsImage(image), NEW told, Remembers(image, told), NEW g \in Nat,
         g > image.fence, NEW after, after.fence = g, after.ledger = Retain(image.ledger, g)
  PROVE  Remembers(after, told)
<1>1. \A i \in Id : /\ after.ledger[i] = IF Retired(g, i) THEN Unseen ELSE image.ledger[i]
                    /\ Retired(image.fence, i) => Retired(g, i)
  BY RetainKeepsLedger, ImageFields, GenerationAssumption DEF Retired
<1>2. QED
  BY <1>1 DEF Remembers

\* A deciding call, its outcome, and where the files are at each step of it.
Decision ==
  call # Nothing /\ call.op \in Deciding =>
    /\ call.id \in Id /\ ~Retired(call.next.image.fence, call.id)
    /\ call.outcome # Unseen /\ call.next.image.ledger[call.id] = call.outcome
    /\ call.step \in {"live.sync", "remove", "remove.sync"} => disk.live = call.next.image
    /\ IF call.step \in {"remove", "remove.sync"}
       THEN durable.live = call.next.image
       ELSE mem # call.next

Acks == [Id -> SUBSET {"prepared", "committed", "aborted"}]

AckInv ==
  /\ acknowledged \in Acks
  /\ AcknowledgedOnce
  /\ Remembers(LiveOf(disk), acknowledged)
  /\ Remembers(LiveOf(durable), acknowledged)
  /\ mem # Nothing => Remembers(mem.image, acknowledged)
  /\ call # Nothing => Remembers(call.next.image, acknowledged)
  /\ Decision

LEMMA SameLive ==
  ASSUME NEW files, NEW other, files.live = other.live
  PROVE  LiveOf(files) = LiveOf(other)
BY DEF LiveOf

LEMMA HoldsNext ==
  ASSUME TypeOK, call # Nothing, NEW files, files.live = call.next.image
  PROVE  LiveOf(files) = call.next.image
BY CallFields, ViewFields, NoFileAssumption DEF IsImage, LiveOf

\* The call that ends with its outcome on disk and durable is acknowledged.
LEMMA Acknowledged ==
  ASSUME TypeOK, AckInv, call # Nothing, call.op \in Deciding, call' = Nothing,
         mem' = call.next, disk'.live = call.next.image, durable'.live = call.next.image,
         acknowledged' = [acknowledged EXCEPT ![call.id] = @ \cup {call.outcome.state}]
  PROVE  AckInv'
<1>1. /\ call.id \in Id /\ ~Retired(call.next.image.fence, call.id)
      /\ call.outcome # Unseen /\ call.next.image.ledger[call.id] = call.outcome
      /\ Remembers(call.next.image, acknowledged) /\ acknowledged \in Acks
      /\ AcknowledgedOnce
  BY DEF AckInv, Decision
<1>2. call.outcome \in Record /\ call.outcome.state \in {"prepared", "committed", "aborted"}
  BY <1>1, CallFields, RecordKinds, RecordStates
<1>3. /\ acknowledged' \in Acks
      /\ \A i \in Id : acknowledged'[i] =
           IF i = call.id THEN acknowledged[i] \cup {call.outcome.state} ELSE acknowledged[i]
  BY <1>1, <1>2 DEF Acks
<1>4. /\ "committed" \in acknowledged[call.id] => call.outcome.state = "committed"
      /\ "aborted" \in acknowledged[call.id] => call.outcome = Aborted
  BY <1>1 DEF Remembers
<1>5. AcknowledgedOnce'
  BY <1>1, <1>3, <1>4, RecordKinds DEF AcknowledgedOnce
<1>6. Remembers(call.next.image, acknowledged')
  <2> SUFFICES ASSUME NEW i \in Id, ~Retired(call.next.image.fence, i)
               PROVE  LET record == call.next.image.ledger[i]
                      IN  /\ "committed" \in acknowledged'[i] => record.state = "committed"
                          /\ "aborted" \in acknowledged'[i] => record = Aborted
                          /\ "prepared" \in acknowledged'[i] => record # Unseen
    BY DEF Remembers
  <2>1. CASE i # call.id
    BY <1>1, <1>3, <2>1 DEF Remembers
  <2>2. CASE i = call.id
    BY <1>1, <1>2, <1>3, <1>4, <2>2, RecordStates
  <2>3. QED
    BY <2>1, <2>2
<1>7. LiveOf(disk') = call.next.image /\ LiveOf(durable') = call.next.image
  BY HoldsNext
<1>8. QED
  BY <1>3, <1>5, <1>6, <1>7 DEF AckInv, Decision

\* A step that acknowledges nothing, and what any step does to the history.
Unheard == acknowledged' = acknowledged

Recorded ==
  acknowledged' = IF Acknowledges
                  THEN [acknowledged EXCEPT ![call.id] = @ \cup {call.outcome.state}]
                  ELSE acknowledged

LEMMA FailAcks ==
  ASSUME TypeOK, AckInv, call # Nothing, Fail, UNCHANGED <<disk, durable>>, Recorded
  PROVE  AckInv'
<1>1. CASE Acknowledges
  <2>1. call.op \in Deciding /\ mem = call.next
    BY <1>1 DEF Acknowledges, Finish, Fail
  <2>2. call.step \in {"remove", "remove.sync"}
    BY <2>1 DEF AckInv, Decision
  <2>3. disk.live = call.next.image /\ durable.live = call.next.image
    BY <2>1, <2>2 DEF AckInv, Decision
  <2>4. QED
    BY <1>1, <2>1, <2>3, Acknowledged DEF Recorded, Fail
<1>2. CASE ~Acknowledges
  BY <1>2 DEF Recorded, Fail, AckInv, Decision, AcknowledgedOnce
<1>3. QED
  BY <1>1, <1>2

LEMMA FinishAcks ==
  ASSUME TypeOK, AckInv, call # Nothing, Finish, disk'.live = disk.live,
         durable'.live \in {durable.live, disk.live}, Recorded,
         call.op \in Deciding => disk'.live = call.next.image /\ durable'.live = call.next.image
  PROVE  AckInv'
<1>1. CASE call.op \in Deciding
  BY <1>1, Acknowledged DEF Recorded, Acknowledges, Finish
<1>2. CASE call.op \notin Deciding
  <2>1. Unheard /\ call' = Nothing /\ mem' = call.next
    BY <1>2 DEF Unheard, Recorded, Acknowledges, Finish
  <2>2. LiveOf(disk') = LiveOf(disk) /\ LiveOf(durable') \in {LiveOf(durable), LiveOf(disk)}
    BY SameLive
  <2>3. QED
    BY <2>1, <2>2 DEF Unheard, AckInv, Decision, AcknowledgedOnce
<1>3. QED
  BY <1>1, <1>2

\* A step forward in the call: the live files stay or become what it writes.
LEMMA AdvanceAcks ==
  ASSUME TypeOK, AckInv, call # Nothing, NEW step \in CallStep, StepTo(step), Unheard,
         disk'.live \in {disk.live, call.next.image},
         durable'.live \in {durable.live, disk.live},
         mem' \in {mem, call.next},
         call.op \in Deciding =>
           /\ step \in {"live.sync", "remove", "remove.sync"} => disk'.live = call.next.image
           /\ IF step \in {"remove", "remove.sync"}
              THEN durable'.live = call.next.image
              ELSE mem' = mem /\ call.step \notin {"remove", "remove.sync"}
  PROVE  AckInv'
<1>1. /\ call' # Nothing /\ call'.step = step /\ call'.op = call.op /\ call'.id = call.id
      /\ call'.next = call.next /\ call'.outcome = call.outcome
  BY CallAdvances
<1>2. /\ LiveOf(disk') \in {LiveOf(disk), call.next.image}
      /\ LiveOf(durable') \in {LiveOf(durable), LiveOf(disk)}
  BY SameLive, HoldsNext
<1>3. Decision'
  BY <1>1 DEF AckInv, Decision
<1>4. QED
  BY <1>1, <1>2, <1>3 DEF Unheard, AckInv, AcknowledgedOnce

\* A call begins with what it will leave remembering all that was acknowledged.
LEMMA StartAcks ==
  ASSUME TypeOK, AckInv, NEW op \in CallOp, NEW id \in Id \cup {Nothing},
         NEW next, IsView(next), NEW step \in {"stage.create", "live.create", "remove"},
         NEW outcome \in Record, Start(op, id, next, step, outcome), Unheard,
         Remembers(next.image, acknowledged),
         op \in Deciding =>
           /\ id \in Id /\ ~Retired(next.image.fence, id) /\ step # "remove"
           /\ outcome # Unseen /\ next.image.ledger[id] = outcome /\ mem # next
  PROVE  AckInv'
<1>1. /\ call' # Nothing /\ call'.op = op /\ call'.id = id /\ call'.next = next
      /\ call'.step = step /\ call'.outcome = outcome
  BY StartedCall DEF CallStep
<1>2. UNCHANGED <<disk, durable, mem>>
  BY DEF Start
<1>3. Decision'
  BY <1>1, <1>2 DEF Decision
<1>4. QED
  BY <1>1, <1>2, <1>3 DEF Unheard, AckInv, AcknowledgedOnce

LEMMA MutateAcks ==
  ASSUME TypeInv, AckInv, NEW next \in Entries, Mutate(next), Unheard
  PROVE  AckInv'
<1> DEFINE image == [mem.image EXCEPT !.entries = next]
           view == [mem EXCEPT !.image = image]
<1>1. mem # Nothing /\ Start("mutate", Nothing, view, "live.create", Unseen)
  BY DEF Mutate, Invokes, Ready
<1>2. /\ IsView(mem) /\ IsImage(image)
      /\ image.fence = mem.image.fence /\ image.ledger = mem.image.ledger
  BY <1>1, MemFields, EntriesReplaced DEF TypeInv
<1> HIDE DEF image
<1>3. IsView(view) /\ view.image = image
  BY <1>2 DEF IsView, View, IsImage
<1>4. Remembers(view.image, acknowledged)
  BY <1>1, <1>2, <1>3, SameRecords DEF AckInv
<1> HIDE DEF view
<1>5. QED
  BY <1>1, <1>3, <1>4, StartAcks, RecordKinds DEF TypeInv, CallOp, Deciding

LEMMA PrepareAcks ==
  ASSUME TypeInv, AckInv, NEW id \in Id, NEW d \in Digest, NEW batch \in Batches,
         Prepare(id, d, batch), Unheard
  PROVE  AckInv'
<1> DEFINE candidate == Outcome(mem.image.entries, batch)
           ledger == [mem.image.ledger EXCEPT ![id] = Prepared(d)]
           image == V2(mem.image.fence, ledger, mem.image.entries)
           next == [image |-> image,
                    candidate |-> [id |-> id, digest |-> d, entries |-> candidate]]
<1>1. /\ mem # Nothing /\ Start("prepare", id, next, "stage.create", Prepared(d))
      /\ ~Retired(mem.image.fence, id) /\ mem.image.ledger[id] = Unseen
  BY DEF Prepare, Startable, Known, Invokes, Ready
<1>2. candidate \in Entries
  BY <1>1, OutcomeInEntries, BatchesAssumption, MemFields, ImageFields DEF TypeInv
<1>3. IsView(next)
  BY <1>1, <1>2, PrepareView DEF TypeInv
<1>4. /\ ledger \in Ledger /\ mem.image.ledger[id] \in Record
      /\ \A i \in Id : ledger[i] = IF i = id THEN Prepared(d) ELSE mem.image.ledger[i]
  BY <1>1, MemFields, ImageFields, RecordKinds DEF TypeInv, Ledger
<1> HIDE DEF ledger
<1>5. image.fence = mem.image.fence /\ image.ledger = ledger
  BY <1>1, <1>4, V2Image, MemFields, ImageFields DEF TypeInv
<1> HIDE DEF image
<1>6. /\ next.image = image
      /\ Prepared(d) \in Record /\ Prepared(d) # Unseen
  BY RecordKinds
<1> HIDE DEF next
<1>7. Remembers(next.image, acknowledged)
  BY <1>1, <1>4, <1>5, <1>6, DecidedRemembers DEF AckInv
<1>8. ~Retired(next.image.fence, id) /\ next.image.ledger[id] = Prepared(d) /\ mem # next
  BY <1>1, <1>4, <1>5, <1>6
<1>9. QED
  BY <1>1, <1>3, <1>6, <1>7, <1>8, StartAcks DEF TypeInv, CallOp

\* commit and abort replace a record that is unseen or prepared.
LEMMA DecideAcks ==
  ASSUME TypeInv, AckInv, Ready, NEW op \in {"commit", "abort"}, NEW id \in Id,
         NEW r \in Record, r.state \in {"committed", "aborted"}, NEW e \in Entries,
         Start(op, id, Decide(id, r, e), "live.create", r), Unheard,
         ~Retired(mem.image.fence, id), Known(id).state \in {"unseen", "prepared"}
  PROVE  AckInv'
<1>1. mem # Nothing
  BY DEF Ready
<1>2. /\ IsView(Decide(id, r, e))
      /\ Decide(id, r, e).image.fence = mem.image.fence
      /\ \A i \in Id : Decide(id, r, e).image.ledger[i] =
           IF i = id THEN r ELSE mem.image.ledger[i]
  BY <1>1, DecideView DEF TypeInv
<1>3. mem.image.ledger[id] \in Record /\ mem.image.ledger[id].state \in {"unseen", "prepared"}
  BY <1>1, MemFields, ImageFields DEF TypeInv, Known
<1>4. r # Unseen /\ (mem.image.ledger[id] = Unseen \/ mem.image.ledger[id].state = "prepared")
  BY <1>3, RecordKinds
<1>5. Remembers(Decide(id, r, e).image, acknowledged)
  BY <1>1, <1>2, <1>3, <1>4, DecidedRemembers DEF AckInv
<1>6. mem # Decide(id, r, e)
  BY <1>2, <1>3
<1>7. QED
  BY <1>2, <1>4, <1>5, <1>6, StartAcks DEF TypeInv, CallOp

LEMMA ReclaimAcks ==
  ASSUME TypeInv, AckInv, NEW g \in Generation, Reclaim(g), Unheard
  PROVE  AckInv'
<1> DEFINE next == V2(g, Retain(mem.image.ledger, g), mem.image.entries)
           view == [mem EXCEPT !.image = next]
<1>1. /\ mem # Nothing /\ g > mem.image.fence
      /\ Start("reclaim", Nothing, view, "live.create", Unseen)
  BY DEF Reclaim, Invokes, Ready
<1>2. /\ IsView(mem) /\ IsImage(mem.image) /\ IsImage(next) /\ g \in Nat
      /\ next.fence = g /\ next.ledger = Retain(mem.image.ledger, g)
  BY <1>1, MemFields, ImageFields, RetainKeepsLedger, V2Image, GenerationAssumption
     DEF TypeInv
<1> HIDE DEF next
<1>3. IsView(view) /\ view.image = next
  BY <1>2 DEF IsView, View, IsImage
<1>4. Remembers(view.image, acknowledged)
  BY <1>1, <1>2, <1>3, ReclaimedRemembers DEF AckInv
<1> HIDE DEF view
<1>5. QED
  BY <1>1, <1>3, <1>4, StartAcks, RecordKinds DEF TypeInv, CallOp, Deciding

\* The view open and state put in place has the live file's records.
LEMMA ReconciledAcks ==
  ASSUME TypeInv, AckInv, Unheard, Open \/ \E id \in Id : State(id)
  PROVE  AckInv'
<1> DEFINE view == Recovered(LiveOf(disk), disk.stage)
<1>1. IsView(view) /\ Remembers(view.image, acknowledged)
  BY LiveImage, RecoveredView DEF TypeInv, TypeOK, AckInv
<1>2. CASE mem' = view /\ UNCHANGED <<disk, durable, call>>
  <2> HIDE DEF view
  <2>1. call = Nothing
    BY DEF Open, State, Ready
  <2>2. QED
    BY <1>1, <1>2, <2>1 DEF Unheard, AckInv, AcknowledgedOnce, Decision
<1>3. CASE \E op \in {"open", "state"}, id \in Id \cup {Nothing},
              step \in {"live.create", "remove"}, outcome \in Record :
             Start(op, id, view, step, outcome)
  <2> HIDE DEF view
  <2>1. QED
    BY <1>1, <1>3, StartAcks DEF TypeInv, CallOp, Deciding
<1>4. CASE Open
  BY <1>2, <1>3, <1>4, RecordKinds DEF Open
<1>5. ASSUME NEW id \in Id, State(id)
      PROVE  AckInv'
  <2>1. view = Recovered(disk.live, disk.stage)
    BY <1>5, LiveImage DEF State, TypeInv, TypeOK
  <2>2. StateKnown(id, view) \in Record
    BY <1>1, ViewFields, ImageFields, RecordKinds DEF StateKnown
  <2> HIDE DEF view
  <2>3. QED
    BY <1>2, <1>3, <1>5, <2>1, <2>2 DEF State
<1>6. QED
  BY <1>4, <1>5

LEMMA CreateAcks ==
  ASSUME TypeOK, AckInv, Recorded, NEW file,
         NEW step \in {"stage.create", "live.create"},
         NEW then \in {"stage.replace", "live.replace"}, Create(file, step, then)
  PROVE  AckInv'
<1>1. call # Nothing /\ call.step = step
  BY DEF Create, Running
<1>2. CASE WriteFails(file)
  BY <1>1, <1>2, FailAcks DEF WriteFails
<1>3. CASE StepTo(then) /\ UNCHANGED <<disk, durable, temps, mem, heard, uncertain>>
  <2>1. Unheard
    BY <1>1, <1>3, CallAdvances
       DEF Unheard, Recorded, Acknowledges, Finish, CallStep
  <2>2. QED
    BY <1>1, <1>3, <2>1, AdvanceAcks DEF CallStep
<1>4. QED
  BY <1>2, <1>3 DEF Create

LEMMA ReplaceAcks ==
  ASSUME TypeOK, AckInv, Recorded,
         \/ Replace("stage", "stage.replace", "stage.sync")
         \/ Replace("live", "live.replace", "live.sync")
  PROVE  AckInv'
<1>1. PICK file \in {"stage", "live"}, step \in {"stage.replace", "live.replace"},
           then \in {"stage.sync", "live.sync"} :
        /\ Replace(file, step, then)
        /\ then = "live.sync" => file = "live"
  OBVIOUS
<1>2. call # Nothing /\ call.step = step
  BY <1>1 DEF Replace, Running
<1>3. CASE WriteFails(file)
  BY <1>2, <1>3, FailAcks DEF WriteFails
<1>4. CASE /\ disk' = [disk EXCEPT ![file] = Target(file)]
           /\ StepTo(then) /\ UNCHANGED <<durable, temps, mem, heard, uncertain>>
  <2>1. Unheard
    BY <1>2, <1>4, CallAdvances
       DEF Unheard, Recorded, Acknowledges, Finish, CallStep
  <2>2. /\ file = "live" => disk'.live = call.next.image
        /\ file = "stage" => disk'.live = disk.live
    BY <1>4 DEF Target, TypeOK, AreFiles
  <2>3. QED
    BY <1>1, <1>2, <1>4, <2>1, <2>2, AdvanceAcks DEF CallStep
<1>5. QED
  BY <1>1, <1>3, <1>4 DEF Replace

LEMMA SyncStageAcks ==
  ASSUME PowerLosses, TypeOK, AckInv, Recorded, SyncStage
  PROVE  AckInv'
<1>1. call # Nothing /\ call.step = "stage.sync" /\ UNCHANGED disk
  BY DEF SyncStage, Running
<1>2. CASE Fail /\ UNCHANGED durable
  BY <1>1, <1>2, FailAcks
<1>3. CASE durable' = Synced /\ StepTo("live.create") /\ UNCHANGED <<mem, heard, uncertain>>
  <2>1. Unheard
    BY <1>1, <1>3, CallAdvances
       DEF Unheard, Recorded, Acknowledges, Finish, CallStep
  <2>2. QED
    BY <1>1, <1>3, <2>1, AdvanceAcks DEF CallStep, Synced
<1>4. QED
  BY <1>2, <1>3 DEF SyncStage

LEMMA SyncLiveAcks ==
  ASSUME PowerLosses, TypeOK, AckInv, Recorded, SyncLive
  PROVE  AckInv'
<1>1. /\ call # Nothing /\ call.step = "live.sync" /\ UNCHANGED disk
      /\ call.op \in Deciding => disk.live = call.next.image /\ RequiresSync
  BY DEF SyncLive, Running, AckInv, Decision, Deciding, RequiresSync
<1>2. CASE Fail /\ UNCHANGED durable
  BY <1>1, <1>2, FailAcks
<1>3. CASE /\ Installed
           /\ durable' = disk \/ (~RequiresSync /\ UNCHANGED durable)
  <2>1. /\ durable'.live \in {durable.live, disk.live}
        /\ call.op \in Deciding => durable'.live = call.next.image
    BY <1>1, <1>3
  <2>2. CASE Finish
    BY <1>1, <2>1, <2>2, FinishAcks
  <2>3. CASE mem' = call.next /\ StepTo("remove")
    <3>1. Unheard
      BY <1>1, <2>3, CallAdvances
         DEF Unheard, Recorded, Acknowledges, Finish, CallStep
    <3>2. QED
      BY <1>1, <2>1, <2>3, <3>1, AdvanceAcks DEF CallStep
  <2>4. QED
    BY <1>3, <2>2, <2>3 DEF Installed
<1>4. QED
  BY <1>2, <1>3 DEF SyncLive, Synced

LEMMA RemovedAcks ==
  ASSUME TypeOK, AckInv, Recorded, call # Nothing, call.step \in {"remove", "remove.sync"},
         Removed, disk'.live = disk.live, durable' = durable \/ durable' = disk
  PROVE  AckInv'
<1>1. call.op \in Deciding => disk.live = call.next.image /\ durable.live = call.next.image
  BY DEF AckInv, Decision
<1>2. CASE Finish
  BY <1>1, <1>2, FinishAcks
<1>3. CASE call.op = "open" /\ StepTo("live.create") /\ UNCHANGED <<temps, mem, heard, uncertain>>
  <2>1. Unheard
    BY <1>3, CallAdvances DEF Unheard, Recorded, Acknowledges, Deciding
  <2>2. QED
    BY <1>3, <2>1, AdvanceAcks DEF CallStep, Deciding
<1>4. QED
  BY <1>2, <1>3 DEF Removed

LEMMA RemoveAcks ==
  ASSUME PowerLosses, TypeOK, AckInv, Recorded, RemoveStage \/ SyncRemove
  PROVE  AckInv'
<1>1. call # Nothing /\ call.step \in {"remove", "remove.sync"}
  BY DEF RemoveStage, SyncRemove, Running
<1>2. CASE Fail /\ UNCHANGED <<disk, durable>>
  BY <1>1, <1>2, FailAcks
<1>3. CASE Removed /\ durable' \in {durable, disk} /\ disk'.live = disk.live
  BY <1>1, <1>3, RemovedAcks
<1>4. CASE /\ call.step = "remove" /\ UNCHANGED <<durable, mem>>
           /\ disk'.live = disk.live /\ StepTo("remove.sync")
  <2>1. Unheard
    BY <1>1, <1>4, CallAdvances
       DEF Unheard, Recorded, Acknowledges, Finish, CallStep
  <2>2. call.op \in Deciding => disk.live = call.next.image /\ durable.live = call.next.image
    BY <1>1 DEF AckInv, Decision
  <2>3. QED
    BY <1>1, <1>4, <2>1, <2>2, AdvanceAcks DEF CallStep
<1>5. [disk EXCEPT !.stage = NoFile].live = disk.live
  BY StageRemoved DEF TypeOK
<1>6. QED
  BY <1>2, <1>3, <1>4, <1>5 DEF RemoveStage, SyncRemove, Running, Synced

\* The machine takes the view and the call away and leaves either live file.
LEMMA EndingAcks ==
  ASSUME TypeOK, AckInv, Unheard, Crash \/ PowerLoss
  PROVE  AckInv'
<1>1. /\ mem' = Nothing /\ call' = Nothing /\ durable' = durable
      /\ disk' = disk \/ disk' = durable
  BY DEF Crash, PowerLoss
<1>2. QED
  BY <1>1 DEF Unheard, AckInv, Decision, AcknowledgedOnce

LEMMA WritebackAcks ==
  ASSUME TypeOK, AckInv, Unheard, Writeback
  PROVE  AckInv'
<1>1. /\ UNCHANGED <<disk, mem, call>>
      /\ durable'.live \in {durable.live, disk.live}
  BY DEF Writeback, TypeOK, AreFiles
<1>2. LiveOf(durable') \in {LiveOf(durable), LiveOf(disk)}
  BY <1>1, SameLive
<1>3. QED
  BY <1>1, <1>2 DEF Unheard, AckInv, Decision, AcknowledgedOnce

\* Only a call's own last step acknowledges.
LEMMA OthersUnheard ==
  ASSUME TypeOK, Recorded, Next, ~Step
  PROVE  Unheard
<1>1. Crash \/ PowerLoss => ~Acknowledges
  BY CallFields, NothingAssumption DEF Crash, PowerLoss, Acknowledges, Finish, IsView
<1>2. Writeback => ~Acknowledges
  BY DEF Writeback, Acknowledges, Finish
<1>3. CASE call = Nothing
  BY <1>3 DEF Recorded, Acknowledges, Unheard
<1>4. CASE call # Nothing
  BY <1>1, <1>2, <1>4
     DEF Next, Open, Put, Delete, Apply, Mutate, Prepare, Commit, Committable, Abort,
         Abortable, Reclaim, State, AnswerAgain, Invokes, Ready, Recorded, Unheard
<1>5. QED
  BY <1>3, <1>4

LEMMA NextAcks ==
  ASSUME PowerLosses, TypeInv, AckInv, [AckNext]_ackVars
  PROVE  AckInv'
<1>1. CASE UNCHANGED ackVars
  BY <1>1 DEF ackVars, vars, AckInv, Decision, AcknowledgedOnce
<1>2. CASE AckNext
  <2>1. TypeOK /\ Next /\ Recorded
    BY <1>2 DEF TypeInv, AckNext, Recorded
  <2>2. CASE Step
    BY <2>1, <2>2, CreateAcks, ReplaceAcks, SyncStageAcks, SyncLiveAcks, RemoveAcks DEF Step
  <2>3. CASE ~Step
    <3>1. Unheard
      BY <2>1, <2>3, OthersUnheard
    <3>2. ASSUME NEW at \in Addr, NEW e \in Val \cup {NoValue}, mem # Nothing
          PROVE  [mem.image.entries EXCEPT ![at] = e] \in Entries
      BY <3>2, MemFields, ImageFields DEF TypeInv, Entries
    <3>3. (\E at \in Addr, secret \in Val : Put(at, secret)) => AckInv'
      BY <3>1, <3>2, MutateAcks DEF Put, Mutate, Invokes, Ready
    <3>4. (\E at \in Addr : Delete(at)) => AckInv'
      BY <3>1, <3>2, MutateAcks DEF Delete, Ready
    <3>5. ASSUME NEW batch \in Batches, Apply(batch)
          PROVE  AckInv'
      <4>1. Outcome(mem.image.entries, batch) \in Entries
        BY <3>5, OutcomeInEntries, BatchesAssumption, MemFields, ImageFields
           DEF Apply, Ready, TypeInv
      <4>2. QED
        BY <3>1, <3>5, <4>1, MutateAcks DEF Apply
    <3>6. ASSUME NEW id \in Id, Commit(id)
          PROVE  AckInv'
      <4>1. mem # Nothing /\ mem.candidate.id = id
        BY <3>6 DEF Commit, Committable, Invokes, Ready
      <4>2. /\ Committed(mem.candidate.digest) \in Record /\ mem.candidate.entries \in Entries
            /\ Committed(mem.candidate.digest).state = "committed"
        BY <4>1, MemFields, ViewFields, RecordKinds DEF TypeInv
      <4>3. QED
        BY <3>1, <3>6, <4>2, DecideAcks DEF Commit, Committable, Invokes
    <3>7. ASSUME NEW id \in Id, Abort(id)
          PROVE  AckInv'
      <4>1. Aborted \in Record /\ Aborted.state = "aborted" /\ mem.image.entries \in Entries
        BY <3>7, MemFields, ImageFields, RecordKinds
           DEF Abort, Abortable, Invokes, Ready, TypeInv
      <4>2. QED
        BY <3>1, <3>7, <4>1, DecideAcks DEF Abort, Abortable, Invokes
    <3>8. (\E id \in Id : AnswerAgain(id)) => AckInv'
      BY <3>1 DEF AnswerAgain, Answer, Unheard, AckInv, Decision, AcknowledgedOnce
    <3>9. QED
      BY <2>1, <2>3, <3>1, <3>3, <3>4, <3>5, <3>6, <3>7, <3>8, PrepareAcks, ReclaimAcks,
         ReconciledAcks, EndingAcks, WritebackAcks DEF Next
  <2>4. QED
    BY <2>2, <2>3
<1>3. QED
  BY <1>1, <1>2

LEMMA InitAcks == AckInit => TypeInv /\ AckInv
BY InitTypes DEF AckInit, Init, AckInv, Acks, Decision, AcknowledgedOnce, Remembers

LEMMA AcksHold == ASSUME PowerLosses PROVE AckSpec => []AckInv
<1>1. TypeInv /\ [AckNext]_ackVars => TypeInv'
  BY NextTypes DEF AckNext, ackVars, vars
<1>2. TypeInv /\ AckInv /\ [AckNext]_ackVars => AckInv'
  BY NextAcks
<1>3. QED
  BY <1>1, <1>2, InitAcks, PTL DEF AckSpec

\* An outcome that prepare, commit or abort answered for what it did itself is
\* never lost, in any environment: the process may be killed at any step, every
\* kind of I/O error may happen, the power may go off at any moment, and the
\* owner need not reconcile.  The methods answer only after the directory sync
\* they require (file/prepared.rs 27-184, file.rs 452-464).
THEOREM FileAcknowledgedIsDurable == PowerLosses => (AckSpec => []AcknowledgedIsDurable)
<1> SUFFICES ASSUME PowerLosses
             PROVE  AckSpec => []AcknowledgedIsDurable
  OBVIOUS
<1>1. AckInv => AcknowledgedIsDurable
  BY DEF AckInv, AcknowledgedIsDurable
<1>2. QED
  BY <1>1, AcksHold, PTL

\* In the same environment no transaction is acknowledged both as committed and
\* as aborted, although a decision whose answer was lost may be undone and the
\* other one taken (file/prepared.rs 119-184).
THEOREM FileAcknowledgedOnce == PowerLosses => (AckSpec => []AcknowledgedOnce)
<1> SUFFICES ASSUME PowerLosses
             PROVE  AckSpec => []AcknowledgedOnce
  OBVIOUS
<1>1. AckInv => AcknowledgedOnce
  BY DEF AckInv
<1>2. QED
  BY <1>1, AcksHold, PTL
=============================================================================
