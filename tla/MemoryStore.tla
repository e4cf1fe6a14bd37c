---------------------------- MODULE MemoryStore ----------------------------
(***************************************************************************)
(* MemoryStore (connector-secrets, memory.rs): the in-process secret store *)
(* and prepared-transaction store.  One mutex guards the whole state and   *)
(* no call awaits while it holds it, so each call is one step.             *)
(*                                                                         *)
(* A reply is part of the step that computes it; heard keeps the answers   *)
(* an owner was given for each transaction.                                *)
(***************************************************************************)
EXTENDS SecretTransaction

VARIABLES
  entries,          \* the committed credential image
  retired_through,  \* the inclusive retirement fence
  terminals,        \* committed and aborted outcomes
  prepared,         \* the one prepared transaction: its id, digest, candidate
  reply,            \* the answer to the latest transaction call
  heard             \* the outcomes answered so far, per transaction

store == <<entries, retired_through, terminals, prepared>>
vars == <<entries, retired_through, terminals, prepared, reply, heard>>

CONSTANT NoId  \* the slot is free, or the call names no transaction

ASSUME NoIdAssumption == NoId \notin Id

FreeSlot == [id |-> NoId, digest |-> NoDigest, candidate |-> NoEntries]

Init ==
  /\ entries = [a \in Addr |-> NoValue]
  /\ retired_through = 0
  /\ terminals = EmptyLedger
  /\ prepared = FreeSlot
  /\ reply = [call |-> "none", id |-> NoId, result |-> "none"]
  /\ heard = [id \in Id |-> {}]

\* The call answers with an outcome of id that the owner may now rely on.
Answer(call, id, outcome) ==
  /\ reply' = [call |-> call, id |-> id, result |-> outcome.state]
  /\ heard' = [heard EXCEPT ![id] = @ \cup {outcome}]

\* The call refuses, or reports that it knows nothing of id.
Refuse(call, id, why) ==
  /\ reply' = [call |-> call, id |-> id, result |-> why]
  /\ UNCHANGED <<store, heard>>

-----------------------------------------------------------------------------
(* Ordinary mutations: refused while the slot is taken *)

\* Mutant of MutationAllowed: point writes ignore the prepared slot.
MutationAlways == TRUE

MutationAllowed == prepared.id = NoId

Mutate(next) ==
  /\ MutationAllowed
  /\ entries' = next
  /\ UNCHANGED <<retired_through, terminals, prepared, reply, heard>>

Put(at, secret) == Mutate([entries EXCEPT ![at] = secret])

Delete(at) == Mutate([entries EXCEPT ![at] = NoValue])

Apply(batch) == ~Refuses(entries, batch) /\ Mutate(Outcome(entries, batch))

-----------------------------------------------------------------------------
(* Prepared transactions *)

\* prepare of an id the store already knows answers from what it holds and
\* never looks at the batch.
PrepareAgain(id, d) ==
  /\ ~Retired(retired_through, id)
  /\ \/ /\ prepared.id # NoId
        /\ \/ prepared.id # id /\ Refuse("prepare", id, "Busy")
           \/ /\ prepared.id = id
              /\ IF prepared.digest = d
                 THEN Answer("prepare", id, Prepared(d)) /\ UNCHANGED store
                 ELSE Refuse("prepare", id, "DigestMismatch")
     \/ /\ prepared.id = NoId
        /\ \/ terminals[id] = Aborted /\ Refuse("prepare", id, "TransactionIdReused")
           \/ /\ terminals[id].state = "committed"
              /\ IF terminals[id].digest = d
                 THEN Answer("prepare", id, Committed(d)) /\ UNCHANGED store
                 ELSE Refuse("prepare", id, "DigestMismatch")

\* Mutant of Startable: a tombstone does not stop a later prepare.
StartableAfterAbort(id) ==
  /\ ~Retired(retired_through, id)
  /\ prepared.id = NoId
  /\ terminals[id].state \in {"unseen", "aborted"}

Startable(id) ==
  /\ ~Retired(retired_through, id)
  /\ prepared.id = NoId
  /\ terminals[id] = Unseen

\* Mutant of Reserves: the reservation forgets the ledger's capacity.
ReservesNothing(next) == TransactionFits(next, TerminalCount(terminals) + 1)

\* The ledger has a line left for the outcome, and so has the file.
Reserves(next) ==
  /\ TerminalCount(terminals) < MaxTerminals
  /\ TransactionFits(next, TerminalCount(terminals) + 1)

PrepareNew(id, d, batch) ==
  /\ Startable(id)
  /\ \/ /\ TerminalCount(terminals) >= MaxTerminals
        /\ Refuse("prepare", id, "Capacity")
     \/ /\ TerminalCount(terminals) < MaxTerminals
        /\ Refuses(entries, batch)
        /\ Refuse("prepare", id, "InvalidBatch")
     \/ /\ ~Refuses(entries, batch)
        /\ ~Reserves(Outcome(entries, batch))
        /\ Refuse("prepare", id, "Capacity")
     \/ /\ ~Refuses(entries, batch)
        /\ Reserves(Outcome(entries, batch))
        /\ prepared' = [id |-> id, digest |-> d, candidate |-> Outcome(entries, batch)]
        /\ Answer("prepare", id, Prepared(d))
        /\ UNCHANGED <<entries, retired_through, terminals>>

\* An aborted transaction is reported like one never seen.
State(id) ==
  /\ ~Retired(retired_through, id)
  /\ \/ /\ prepared.id = id
        /\ Answer("state", id, Prepared(prepared.digest)) /\ UNCHANGED store
     \/ /\ prepared.id # id /\ terminals[id].state = "committed"
        /\ Answer("state", id, terminals[id]) /\ UNCHANGED store
     \/ /\ prepared.id # id /\ terminals[id].state # "committed"
        /\ Refuse("state", id, "Absent")

Commit(id) ==
  /\ ~Retired(retired_through, id)
  /\ \/ /\ terminals[id].state = "committed"
        /\ Answer("commit", id, terminals[id]) /\ UNCHANGED store
     \/ /\ terminals[id] = Aborted
        /\ Refuse("commit", id, "TransactionIdReused")
     \/ /\ terminals[id] = Unseen /\ prepared.id # id
        /\ Refuse("commit", id, "NotPrepared")
     \/ /\ terminals[id] = Unseen /\ prepared.id = id
        /\ entries' = prepared.candidate
        /\ terminals' = [terminals EXCEPT ![id] = Committed(prepared.digest)]
        /\ prepared' = FreeSlot
        /\ Answer("commit", id, Committed(prepared.digest))
        /\ UNCHANGED retired_through

\* Mutant of AbortFits: abort of an unseen id grows a full ledger.
AbortFitsAlways == TransactionFits(entries, TerminalCount(terminals) + 1)

AbortFits ==
  /\ TerminalCount(terminals) < MaxTerminals
  /\ TransactionFits(entries, TerminalCount(terminals) + 1)

Abort(id) ==
  /\ ~Retired(retired_through, id)
  /\ \/ /\ terminals[id].state = "committed"
        /\ Refuse("abort", id, "AlreadyCommitted")
     \/ /\ terminals[id] = Aborted
        /\ Answer("abort", id, Aborted) /\ UNCHANGED store
     \/ /\ terminals[id] = Unseen /\ prepared.id \notin {NoId, id}
        /\ Refuse("abort", id, "Busy")
     \/ /\ terminals[id] = Unseen /\ prepared.id \in {NoId, id} /\ ~AbortFits
        /\ Refuse("abort", id, "Capacity")
     \/ /\ terminals[id] = Unseen /\ prepared.id \in {NoId, id} /\ AbortFits
        /\ prepared' = FreeSlot
        /\ terminals' = [terminals EXCEPT ![id] = Aborted]
        /\ Answer("abort", id, Aborted)
        /\ UNCHANGED <<entries, retired_through>>

\* Any call naming a retired generation.
RetiredCall(id) ==
  /\ Retired(retired_through, id)
  /\ \E call \in {"prepare", "state", "commit", "abort"} : Refuse(call, id, "Retired")

\* Mutant of MaxFence: the fence is set to the generation named, even backwards.
LatestFence(g) == g

MaxFence(g) == IF g > retired_through THEN g ELSE retired_through

Reclaim(g) ==
  \/ /\ prepared.id # NoId
     /\ Refuse("reclaim", NoId, "Busy")
  \/ /\ prepared.id = NoId
     /\ retired_through' = MaxFence(g)
     /\ terminals' = Retain(terminals, MaxFence(g))
     /\ reply' = [call |-> "reclaim", id |-> NoId, result |-> "ok"]
     /\ UNCHANGED <<entries, prepared, heard>>

Next ==
  \/ \E at \in Addr, secret \in Val : Put(at, secret)
  \/ \E at \in Addr : Delete(at)
  \/ \E batch \in Batches : Apply(batch)
  \/ \E id \in Id, d \in Digest : PrepareAgain(id, d)
  \/ \E id \in Id, d \in Digest, batch \in Batches : PrepareNew(id, d, batch)
  \/ \E id \in Id : State(id) \/ Commit(id) \/ Abort(id) \/ RetiredCall(id)
  \/ \E g \in Generation : Reclaim(g)

Spec == Init /\ [][Next]_vars

-----------------------------------------------------------------------------
(* Properties *)

Slot == [id : Id, digest : Digest, candidate : Entries] \cup {FreeSlot}

TypeOK ==
  /\ entries \in Entries
  /\ retired_through \in Nat
  /\ terminals \in Ledger
  /\ PreparedIds(terminals) = {}
  /\ prepared \in Slot
  /\ prepared.id # NoId => terminals[prepared.id] = Unseen
  /\ heard \in [Id -> SUBSET Record]

\* Nothing is kept of a retired generation, so its identifiers can only ever be
\* answered Retired and its ledger lines are free again.
FenceHolds == \A id \in Id : Retired(retired_through, id) => terminals[id] = Unseen

\* The store's two tables as one ledger.
LedgerView ==
  [id \in Id |-> IF id = prepared.id THEN Prepared(prepared.digest) ELSE terminals[id]]

Contract == INSTANCE PreparedStore WITH
  fence <- retired_through, ledger <- LedgerView, candidate <- prepared.candidate

\* Every step of MemoryStore is a step its owner's contract allows.
ImplementsPreparedStore == Contract!Spec

\* The slot's holder can always be recorded as a terminal outcome.
OutcomeReserved == Contract!OutcomeReserved

\* Outcomes stay until their generation is retired.
OutcomesAreFinal == Contract!OutcomesAreFinal

\* Reads and candidate stay frozen while a transaction is prepared.
SlotFreezesReads == Contract!SlotFreezesReads

\* Whatever the order of prepare, commit, abort, replays and reclamation, no
\* transaction is ever answered as committed and as aborted, and two answers
\* about it never carry different proposal digests.
OneDecision ==
  \A id \in Id : \A p, q \in heard[id] :
    /\ p.state = "aborted" => q.state # "committed"
    /\ p.state # "aborted" /\ q.state # "aborted" => p.digest = q.digest

\* The owner of the slot can abandon its transaction: abort of the prepared id
\* never answers Capacity (recoverable-prepared-secret-transactions.md 91).
PreparedCanAbort ==
  reply.call = "abort" /\ reply.result = "Capacity" => reply.id # prepared.id
=============================================================================
