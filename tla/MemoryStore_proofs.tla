------------------------ MODULE MemoryStore_proofs ------------------------
(***************************************************************************)
(* MemoryStore implements PreparedStore, for every set of transactions,    *)
(* digests, addresses and batches and every capacity.  The inductive       *)
(* invariant adds to the types that the fence has cleared the ledger:      *)
(* without it a reclaim that moves no fence could still forget an outcome, *)
(* which the contract does not allow.                                      *)
(***************************************************************************)
EXTENDS MemoryStore, SecretTransaction_proofs

IInv == TypeOK /\ FenceHolds

LEMMA InitInv == Init => IInv
BY RecordKinds, GenerationAssumption
   DEF Init, IInv, TypeOK, FenceHolds, Entries, EmptyLedger, Ledger, FreeSlot, Slot,
       PreparedIds, Retired

\* What heard may become when a call answers.
LEMMA AnswerKeepsHeard ==
  ASSUME TypeOK, NEW call, NEW id \in Id, NEW r \in Record, Answer(call, id, r)
  PROVE  heard' \in [Id -> SUBSET Record]
BY DEF TypeOK, Answer

\* A refusal, and any answer that leaves the store alone, keeps the invariant.
LEMMA StoreUnchanged ==
  ASSUME IInv, UNCHANGED store, heard' \in [Id -> SUBSET Record]
  PROVE  IInv'
BY DEF IInv, TypeOK, FenceHolds, store

LEMMA RefuseKeepsInv ==
  ASSUME IInv, NEW call, NEW id, NEW why, Refuse(call, id, why)
  PROVE  IInv'
BY DEF IInv, TypeOK, FenceHolds, Refuse, store

\* The records of what the store holds are records.
LEMMA HeldRecords ==
  ASSUME TypeOK
  PROVE  /\ \A id \in Id : terminals[id] \in Record
         /\ prepared.id # NoId => /\ prepared.id \in Id /\ prepared.digest \in Digest
                                  /\ prepared.candidate \in Entries
         /\ prepared.id = NoId => prepared = FreeSlot
BY NoIdAssumption DEF TypeOK, Ledger, Slot, FreeSlot

-----------------------------------------------------------------------------
(* The store's tables as the contract's ledger *)

\* The contract speaks of the same records, ledgers and entries.
LEMMA SharedVocabulary ==
  /\ Contract!Entries = Entries
  /\ Contract!Unseen = Unseen /\ Contract!Aborted = Aborted
  /\ \A d : Contract!Prepared(d) = Prepared(d) /\ Contract!Committed(d) = Committed(d)
  /\ Contract!EmptyLedger = EmptyLedger
  /\ \A fence, id : Contract!Retired(fence, id) <=> Retired(fence, id)
  /\ \A ledger : /\ Contract!PreparedIds(ledger) = PreparedIds(ledger)
                 /\ Contract!TerminalCount(ledger) = TerminalCount(ledger)
  /\ \A ledger, fence : Contract!Retain(ledger, fence) = Retain(ledger, fence)
<1>1. /\ Contract!Entries = Entries
      /\ Contract!Unseen = Unseen /\ Contract!Aborted = Aborted
      /\ \A d : Contract!Prepared(d) = Prepared(d) /\ Contract!Committed(d) = Committed(d)
  BY DEF Contract!Entries, Entries, Contract!Unseen, Unseen, Contract!Aborted, Aborted,
         Contract!Prepared, Prepared, Contract!Committed, Committed
<1>2. /\ Contract!EmptyLedger = EmptyLedger
      /\ \A fence, id : Contract!Retired(fence, id) <=> Retired(fence, id)
  BY <1>1 DEF Contract!EmptyLedger, EmptyLedger, Contract!Retired, Retired
<1>3. \A ledger : /\ Contract!PreparedIds(ledger) = PreparedIds(ledger)
                  /\ Contract!TerminalCount(ledger) = TerminalCount(ledger)
  <2>1. \A ledger : /\ Contract!PreparedIds(ledger) = PreparedIds(ledger)
                    /\ Contract!TerminalIds(ledger) = TerminalIds(ledger)
    BY DEF Contract!PreparedIds, PreparedIds, Contract!TerminalIds, TerminalIds
  <2>2. \A set : Contract!Cardinality(set) = Cardinality(set)
    BY DEF Contract!Cardinality, Cardinality
  <2>3. QED
    BY <2>1, <2>2 DEF Contract!TerminalCount, TerminalCount
<1>4. \A ledger, fence : Contract!Retain(ledger, fence) = Retain(ledger, fence)
  BY <1>1, <1>2 DEF Contract!Retain, Retain
<1>5. QED
  BY <1>1, <1>2, <1>3, <1>4

LEMMA ViewFacts ==
  ASSUME TypeOK
  PROVE  /\ LedgerView \in Ledger
         /\ \A i \in Id : LedgerView[i] =
              IF i = prepared.id THEN Prepared(prepared.digest) ELSE terminals[i]
         /\ Contract!Slot = IF prepared.id = NoId THEN {} ELSE {prepared.id}
         /\ TerminalIds(LedgerView) = TerminalIds(terminals)
<1>1. \A i \in Id : LedgerView[i] =
        IF i = prepared.id THEN Prepared(prepared.digest) ELSE terminals[i]
  BY DEF LedgerView
<1>2. LedgerView \in Ledger
  <2>1. \A i \in Id : (IF i = prepared.id THEN Prepared(prepared.digest)
                       ELSE terminals[i]) \in Record
    BY HeldRecords, RecordKinds, NoIdAssumption
  <2>2. QED
    BY <2>1 DEF LedgerView, Ledger
<1>3. Contract!Slot = IF prepared.id = NoId THEN {} ELSE {prepared.id}
  <2>1. \A i \in Id : terminals[i].state # "prepared"
    BY DEF TypeOK, PreparedIds
  <2>2. \A i \in Id : LedgerView[i].state = "prepared" <=> i = prepared.id
    BY <1>1, <2>1, RecordKinds
  <2>3. QED
    BY <2>2, HeldRecords, NoIdAssumption, SharedVocabulary DEF Contract!Slot, PreparedIds
<1>4. TerminalIds(LedgerView) = TerminalIds(terminals)
  <2>1. \A i \in Id : i = prepared.id => terminals[i] = Unseen
    BY NoIdAssumption DEF TypeOK
  <2>2. \A i \in Id : LedgerView[i].state \in {"committed", "aborted"}
                        <=> terminals[i].state \in {"committed", "aborted"}
    BY <1>1, <2>1, RecordKinds
  <2>3. QED
    BY <2>2 DEF TerminalIds
<1>5. QED
  BY <1>1, <1>2, <1>3, <1>4

\* The view after a step whose effect on the tables is known line by line.
LEMMA ViewReplaced ==
  ASSUME TypeOK, TypeOK', NEW id \in Id, NEW r \in Record,
         \A i \in Id : LedgerView'[i] = IF i = id THEN r ELSE LedgerView[i]
  PROVE  LedgerView' = [LedgerView EXCEPT ![id] = r]
<1>1. LedgerView \in [Id -> Record] /\ LedgerView' = [i \in Id |-> LedgerView'[i]]
  BY ViewFacts DEF Ledger, LedgerView
<1>2. QED
  BY <1>1

-----------------------------------------------------------------------------
(* Each call: it keeps the invariant and is a step of the contract *)

Step == IInv' /\ (Contract!Next \/ UNCHANGED Contract!vars)

LEMMA UnchangedIsStep ==
  ASSUME IInv, UNCHANGED store, heard' \in [Id -> SUBSET Record]
  PROVE  Step
BY StoreUnchanged DEF Step, store, Contract!vars, LedgerView

LEMMA RefuseIsStep ==
  ASSUME IInv, NEW call, NEW id, NEW why, Refuse(call, id, why)
  PROVE  Step
<1>1. UNCHANGED store /\ heard' \in [Id -> SUBSET Record]
  BY DEF Refuse, IInv, TypeOK
<1>2. QED
  BY <1>1, UnchangedIsStep

LEMMA AnswerIsStep ==
  ASSUME IInv, NEW call, NEW id \in Id, NEW r \in Record, Answer(call, id, r),
         UNCHANGED store
  PROVE  Step
BY AnswerKeepsHeard, UnchangedIsStep DEF IInv

LEMMA MutateIsStep ==
  ASSUME IInv, NEW next \in Entries, Mutate(next)
  PROVE  Step
<1>1. IInv'
  BY DEF IInv, TypeOK, FenceHolds, Mutate
<1>2. LedgerView' = LedgerView
  BY DEF Mutate, LedgerView
<1>3. Contract!Slot = {}
  BY ViewFacts DEF IInv, Mutate, MutationAllowed
<1>4. Contract!Mutate
  BY <1>2, <1>3, SharedVocabulary DEF Mutate, Contract!Mutate
<1>5. QED
  BY <1>1, <1>4 DEF Step, Contract!Next

\* A prepare of a new id refuses, or takes the free slot.
LEMMA PrepareIsStep ==
  ASSUME IInv, NEW id \in Id, NEW d \in Digest, NEW batch \in Batches,
         PrepareNew(id, d, batch)
  PROVE  Step
<1>1. CASE \E why : Refuse("prepare", id, why)
  BY <1>1, RefuseIsStep
<1>2. CASE ~ \E why : Refuse("prepare", id, why)
  <2>1. /\ Startable(id) /\ Reserves(Outcome(entries, batch))
        /\ prepared' = [id |-> id, digest |-> d, candidate |-> Outcome(entries, batch)]
        /\ Answer("prepare", id, Prepared(d))
        /\ UNCHANGED <<entries, retired_through, terminals>>
    BY <1>2 DEF PrepareNew
  <2>2. Outcome(entries, batch) \in Entries
    BY OutcomeInEntries, BatchesAssumption DEF IInv, TypeOK
  <2>3. heard' \in [Id -> SUBSET Record]
    BY <2>1, AnswerKeepsHeard, RecordKinds DEF IInv
  <2>4. IInv'
    <3>1. prepared' \in Slot
      BY <2>1, <2>2 DEF Slot
    <3>2. prepared'.id = id /\ terminals'[id] = Unseen
      BY <2>1 DEF Startable
    <3>3. QED
      BY <2>1, <2>3, <3>1, <3>2 DEF IInv, TypeOK, FenceHolds
  <2>5. LedgerView' = [LedgerView EXCEPT ![id] = Prepared(d)]
    <3>1. prepared.id = NoId
      BY <2>1 DEF Startable
    <3>2. \A i \in Id : LedgerView'[i] = IF i = id THEN Prepared(d) ELSE LedgerView[i]
      BY <2>1, <3>1, NoIdAssumption DEF LedgerView
    <3>3. QED
      BY <2>4, <3>2, ViewReplaced, RecordKinds DEF IInv
  <2>6. Contract!Prepare(id, d)
    <3>1. ~Contract!Retired(retired_through, id)
      BY <2>1, SharedVocabulary DEF Startable
    <3>2. Contract!Slot = {} /\ LedgerView[id] = Contract!Unseen
      BY <2>1, ViewFacts, SharedVocabulary, NoIdAssumption DEF Startable, IInv
    <3>3. Contract!TerminalCount(LedgerView) < MaxTerminals
      BY <2>1, ViewFacts, SharedVocabulary DEF Reserves, IInv, TerminalCount
    <3>4. prepared'.candidate \in Contract!Entries
      BY <2>1, <2>2, SharedVocabulary
    <3>5. QED
      BY <2>1, <2>5, <3>1, <3>2, <3>3, <3>4, SharedVocabulary DEF Contract!Prepare
  <2>7. QED
    BY <2>4, <2>6 DEF Step, Contract!Next
<1>3. QED
  BY <1>1, <1>2

LEMMA StateIsStep ==
  ASSUME IInv, NEW id \in Id, State(id)
  PROVE  Step
<1>1. /\ prepared.id = id => Prepared(prepared.digest) \in Record
      /\ terminals[id] \in Record
  BY HeldRecords, RecordKinds, NoIdAssumption DEF IInv
<1>2. QED
  BY <1>1, RefuseIsStep, AnswerIsStep DEF State

\* A commit publishes the candidate and records the outcome in one step.
LEMMA CommitIsStep ==
  ASSUME IInv, NEW id \in Id, Commit(id)
  PROVE  Step
<1>1. CASE terminals[id].state = "committed" /\ Answer("commit", id, terminals[id])
           /\ UNCHANGED store
  BY <1>1, AnswerIsStep, HeldRecords DEF IInv
<1>2. CASE \E why : Refuse("commit", id, why)
  BY <1>2, RefuseIsStep
<1>3. CASE /\ ~Retired(retired_through, id)
           /\ terminals[id] = Unseen /\ prepared.id = id
           /\ entries' = prepared.candidate
           /\ terminals' = [terminals EXCEPT ![id] = Committed(prepared.digest)]
           /\ prepared' = FreeSlot
           /\ Answer("commit", id, Committed(prepared.digest))
           /\ UNCHANGED retired_through
  <2>1. /\ prepared.digest \in Digest /\ prepared.candidate \in Entries
        /\ Committed(prepared.digest) \in Record
    BY <1>3, HeldRecords, RecordKinds, NoIdAssumption DEF IInv
  <2>2. heard' \in [Id -> SUBSET Record]
    BY <1>3, <2>1, AnswerKeepsHeard DEF IInv
  <2>3. /\ terminals' \in Ledger
        /\ \A i \in Id : terminals'[i] =
             IF i = id THEN Committed(prepared.digest) ELSE terminals[i]
    BY <1>3, <2>1 DEF IInv, TypeOK, Ledger
  <2>4. IInv'
    <3>1. prepared' \in Slot /\ prepared'.id = NoId
      BY <1>3 DEF Slot, FreeSlot
    <3>2. PreparedIds(terminals') = {}
      BY <2>3, RecordKinds DEF IInv, TypeOK, PreparedIds
    <3>3. FenceHolds'
      BY <1>3, <2>3 DEF IInv, FenceHolds, Retired
    <3>4. QED
      BY <1>3, <2>1, <2>2, <2>3, <3>1, <3>2, <3>3 DEF IInv, TypeOK
  <2>5. LedgerView' = [LedgerView EXCEPT ![id] = Committed(prepared.digest)]
    <3>1. \A i \in Id : LedgerView'[i] =
            IF i = id THEN Committed(prepared.digest) ELSE LedgerView[i]
      BY <1>3, <2>3, NoIdAssumption DEF LedgerView, FreeSlot
    <3>2. QED
      BY <2>1, <2>4, <3>1, ViewReplaced DEF IInv
  <2>6. Contract!Commit(id)
    <3>1. LedgerView[id] = Prepared(prepared.digest)
      BY <1>3 DEF LedgerView
    <3>2. LedgerView[id].state = "prepared" /\ LedgerView[id].digest = prepared.digest
      BY <3>1 DEF Prepared
    <3>3. prepared'.candidate = NoEntries
      BY <1>3 DEF FreeSlot
    <3>4. QED
      BY <1>3, <2>5, <3>2, <3>3, SharedVocabulary DEF Contract!Commit
  <2>7. QED
    BY <2>4, <2>6 DEF Step, Contract!Next
<1>4. QED
  BY <1>1, <1>2, <1>3 DEF Commit

\* An abort of the prepared or of an unseen id leaves a tombstone.
LEMMA AbortIsStep ==
  ASSUME IInv, NEW id \in Id, Abort(id)
  PROVE  Step
<1>1. CASE Answer("abort", id, Aborted) /\ UNCHANGED store
  BY <1>1, AnswerIsStep, RecordKinds
<1>2. CASE \E why : Refuse("abort", id, why)
  BY <1>2, RefuseIsStep
<1>3. CASE /\ ~Retired(retired_through, id)
           /\ terminals[id] = Unseen /\ prepared.id \in {NoId, id} /\ AbortFits
           /\ prepared' = FreeSlot
           /\ terminals' = [terminals EXCEPT ![id] = Aborted]
           /\ Answer("abort", id, Aborted)
           /\ UNCHANGED <<entries, retired_through>>
  <2>1. heard' \in [Id -> SUBSET Record]
    BY <1>3, AnswerKeepsHeard, RecordKinds DEF IInv
  <2>2. /\ terminals' \in Ledger
        /\ \A i \in Id : terminals'[i] = IF i = id THEN Aborted ELSE terminals[i]
    BY <1>3, RecordKinds DEF IInv, TypeOK, Ledger
  <2>3. IInv'
    <3>1. prepared' \in Slot /\ prepared'.id = NoId
      BY <1>3 DEF Slot, FreeSlot
    <3>2. PreparedIds(terminals') = {}
      BY <2>2, RecordKinds DEF IInv, TypeOK, PreparedIds
    <3>3. FenceHolds'
      BY <1>3, <2>2 DEF IInv, FenceHolds, Retired
    <3>4. QED
      BY <1>3, <2>1, <2>2, <3>1, <3>2, <3>3 DEF IInv, TypeOK
  <2>4. LedgerView' = [LedgerView EXCEPT ![id] = Aborted]
    <3>1. \A i \in Id : LedgerView'[i] = IF i = id THEN Aborted ELSE LedgerView[i]
      BY <1>3, <2>2, NoIdAssumption DEF LedgerView, FreeSlot
    <3>2. QED
      BY <2>3, <3>1, ViewReplaced, RecordKinds DEF IInv
  <2>5. Contract!Abort(id)
    <3>1. ~Contract!Retired(retired_through, id)
      BY <1>3, SharedVocabulary
    <3>2. Contract!Slot \subseteq {id}
      BY <1>3, ViewFacts DEF IInv
    <3>3. LedgerView[id].state \in {"unseen", "prepared"}
      BY <1>3, RecordKinds DEF LedgerView
    <3>4. Contract!TerminalCount(LedgerView) < MaxTerminals
      BY <1>3, ViewFacts, SharedVocabulary DEF AbortFits, IInv, TerminalCount
    <3>5. prepared'.candidate = NoEntries
      BY <1>3 DEF FreeSlot
    <3>6. QED
      BY <1>3, <2>4, <3>1, <3>2, <3>3, <3>4, <3>5, SharedVocabulary DEF Contract!Abort
  <2>6. QED
    BY <2>3, <2>5 DEF Step, Contract!Next
<1>4. QED
  BY <1>1, <1>2, <1>3 DEF Abort

\* A reclaim forgets what it retires; one that moves no fence forgets nothing,
\* because the ledger holds nothing of what is retired already.
LEMMA ReclaimIsStep ==
  ASSUME IInv, NEW g \in Generation, Reclaim(g)
  PROVE  Step
<1>1. CASE Refuse("reclaim", NoId, "Busy")
  BY <1>1, RefuseIsStep
<1>2. CASE /\ prepared.id = NoId
           /\ retired_through' = MaxFence(g)
           /\ terminals' = Retain(terminals, MaxFence(g))
           /\ UNCHANGED <<entries, prepared, heard>>
  <2>1. g \in Nat /\ retired_through \in Nat /\ MaxFence(g) \in Nat
    BY GenerationAssumption DEF IInv, TypeOK, MaxFence
  <2>2. /\ terminals' \in Ledger
        /\ \A i \in Id : terminals'[i] =
             IF Retired(MaxFence(g), i) THEN Unseen ELSE terminals[i]
    BY <1>2, RecordKinds DEF IInv, TypeOK, Ledger, Retain
  <2>3. IInv'
    BY <1>2, <2>1, <2>2, RecordKinds DEF IInv, TypeOK, FenceHolds, PreparedIds
  <2>4. LedgerView = terminals /\ LedgerView' = terminals'
    BY <1>2, <2>2, NoIdAssumption DEF LedgerView, IInv, TypeOK, Ledger
  <2>5. CASE g > retired_through
    <3>1. Contract!Slot = {}
      BY <1>2, ViewFacts DEF IInv
    <3>2. LedgerView' = Contract!Retain(LedgerView, g)
      BY <1>2, <2>4, <2>5, SharedVocabulary DEF MaxFence
    <3>3. Contract!Reclaim(g)
      BY <1>2, <2>5, <3>1, <3>2 DEF MaxFence, Contract!Reclaim
    <3>4. QED
      BY <2>3, <3>3 DEF Step, Contract!Next
  <2>6. CASE ~(g > retired_through)
    <3>1. MaxFence(g) = retired_through
      BY <2>6 DEF MaxFence
    <3>2. \A i \in Id : terminals'[i] = terminals[i]
      BY <2>2, <3>1 DEF IInv, FenceHolds
    <3>3. terminals' = terminals
      BY <2>2, <3>2 DEF IInv, TypeOK, Ledger
    <3>4. QED
      BY <1>2, <2>3, <2>4, <3>1, <3>3 DEF Step, Contract!vars
  <2>7. QED
    BY <2>5, <2>6
<1>3. QED
  BY <1>1, <1>2 DEF Reclaim

LEMMA NextIsStep == IInv /\ [Next]_vars => Step
<1> SUFFICES ASSUME IInv, [Next]_vars
             PROVE  Step
  OBVIOUS
<1>1. ASSUME NEW at \in Addr, NEW secret \in Val, Put(at, secret)
      PROVE  Step
  <2>1. [entries EXCEPT ![at] = secret] \in Entries
    BY DEF IInv, TypeOK, Entries
  <2>2. QED
    BY <1>1, <2>1, MutateIsStep DEF Put
<1>2. ASSUME NEW at \in Addr, Delete(at)
      PROVE  Step
  <2>1. [entries EXCEPT ![at] = NoValue] \in Entries
    BY DEF IInv, TypeOK, Entries
  <2>2. QED
    BY <1>2, <2>1, MutateIsStep DEF Delete
<1>3. ASSUME NEW batch \in Batches, Apply(batch)
      PROVE  Step
  <2>1. Outcome(entries, batch) \in Entries
    BY OutcomeInEntries, BatchesAssumption DEF IInv, TypeOK
  <2>2. QED
    BY <1>3, <2>1, MutateIsStep DEF Apply
<1>4. ASSUME NEW id \in Id, NEW d \in Digest, PrepareAgain(id, d)
      PROVE  Step
  BY <1>4, RefuseIsStep, AnswerIsStep, RecordKinds DEF PrepareAgain
<1>5. ASSUME NEW id \in Id, NEW d \in Digest, NEW batch \in Batches,
             PrepareNew(id, d, batch)
      PROVE  Step
  BY <1>5, PrepareIsStep
<1>6. ASSUME NEW id \in Id, State(id) \/ Commit(id) \/ Abort(id) \/ RetiredCall(id)
      PROVE  Step
  BY <1>6, StateIsStep, CommitIsStep, AbortIsStep, RefuseIsStep DEF RetiredCall
<1>7. ASSUME NEW g \in Generation, Reclaim(g)
      PROVE  Step
  BY <1>7, ReclaimIsStep
<1>8. CASE UNCHANGED vars
  <2>1. UNCHANGED store /\ heard' \in [Id -> SUBSET Record]
    BY <1>8 DEF vars, store, IInv, TypeOK
  <2>2. QED
    BY <2>1, UnchangedIsStep
<1>9. QED
  BY <1>1, <1>2, <1>3, <1>4, <1>5, <1>6, <1>7, <1>8 DEF Next

-----------------------------------------------------------------------------
(* The results *)

LEMMA InvariantHolds == Spec => []IInv
<1>1. IInv /\ [Next]_vars => IInv'
  BY NextIsStep DEF Step
<1>2. QED
  BY InitInv, <1>1, PTL DEF Spec

\* MemoryStore keeps its types: a terminal ledger that holds no prepared record,
\* and a slot whose transaction has no outcome yet (memory.rs 19-37).
THEOREM MemoryTypeCorrect == Spec => []TypeOK
<1>1. IInv => TypeOK
  BY DEF IInv
<1>2. QED
  BY <1>1, InvariantHolds, PTL

\* The ledger holds nothing of a retired generation (memory.rs 309-325).
THEOREM MemoryFenceHolds == Spec => []FenceHolds
<1>1. IInv => FenceHolds
  BY DEF IInv
<1>2. QED
  BY <1>1, InvariantHolds, PTL

\* Every behaviour of MemoryStore is one its owner's contract allows
\* (memory.rs 178-325 against transaction.rs 164-206).
THEOREM MemoryImplementsPreparedStore == Spec => ImplementsPreparedStore
<1>1. Init => Contract!Init
  <2>1. ASSUME Init
        PROVE  LedgerView = Contract!EmptyLedger
    BY <2>1, NoIdAssumption, SharedVocabulary DEF Init, LedgerView, FreeSlot, EmptyLedger
  <2>2. QED
    BY <2>1, InitInv, SharedVocabulary
       DEF Init, Contract!Init, IInv, TypeOK, FreeSlot
<1>2. IInv /\ [Next]_vars => [Contract!Next]_(Contract!vars)
  BY NextIsStep DEF Step
<1>3. QED
  BY <1>1, <1>2, InvariantHolds, PTL DEF Spec, ImplementsPreparedStore, Contract!Spec

Reserved == prepared.id # NoId => TerminalCount(terminals) < MaxTerminals

LEMMA NextKeepsReserved == Reserved /\ [Next]_vars => Reserved'
<1> SUFFICES ASSUME Reserved, [Next]_vars
             PROVE  Reserved'
  OBVIOUS
<1>1. CASE UNCHANGED <<prepared, terminals>>
  BY <1>1 DEF Reserved
<1>2. CASE prepared'.id = NoId
  BY <1>2 DEF Reserved
<1>3. ASSUME NEW id \in Id, NEW d \in Digest, NEW batch \in Batches,
             PrepareNew(id, d, batch)
      PROVE  Reserved'
  <2>1. \/ UNCHANGED store
        \/ Reserves(Outcome(entries, batch)) /\ UNCHANGED terminals
    BY <1>3 DEF PrepareNew, Refuse
  <2>2. QED
    BY <1>1, <2>1 DEF Reserves, Reserved, store
<1>4. ASSUME NEW id \in Id,
             \/ \E d \in Digest : PrepareAgain(id, d)
             \/ State(id) \/ Commit(id) \/ Abort(id) \/ RetiredCall(id)
      PROVE  UNCHANGED <<prepared, terminals>> \/ prepared'.id = NoId
  BY <1>4 DEF PrepareAgain, State, Commit, Abort, RetiredCall, Refuse, store, FreeSlot
<1>5. ASSUME NEW g \in Generation, Reclaim(g)
      PROVE  UNCHANGED <<prepared, terminals>> \/ prepared'.id = NoId
  BY <1>5 DEF Reclaim, Refuse, store
<1>6. QED
  BY <1>1, <1>2, <1>3, <1>4, <1>5
     DEF Next, vars, Put, Delete, Apply, Mutate

\* The reservation made by prepare holds until the decision: the slot's holder
\* always has a ledger line left (memory.rs 210-223).
THEOREM MemoryOutcomeReserved == Spec => []OutcomeReserved
<1>1. Init => Reserved
  BY DEF Init, Reserved, FreeSlot
<1>2. IInv /\ Reserved => OutcomeReserved
  BY ViewFacts, SharedVocabulary
     DEF IInv, Reserved, OutcomeReserved, Contract!OutcomeReserved, TerminalCount
<1>3. QED
  BY <1>1, <1>2, NextKeepsReserved, InvariantHolds, PTL DEF Spec

-----------------------------------------------------------------------------
(* What the contract's steps never do *)

\* Outcomes stay until their generation is retired, whatever is called on the
\* store in between (memory.rs 178-325).
THEOREM MemoryOutcomesAreFinal == Spec => OutcomesAreFinal
<1>1. IInv /\ [Next]_vars => [Contract!KeepsOutcomes]_(Contract!vars)
  <2> SUFFICES ASSUME IInv, Contract!Next, NEW id \in Contract!TerminalIds(LedgerView)
               PROVE  \/ LedgerView'[id] = LedgerView[id]
                      \/ Contract!Retired(retired_through', id)
    BY NextIsStep DEF Step, Contract!KeepsOutcomes
  <2>1. /\ id \in Id /\ LedgerView \in Ledger
        /\ LedgerView[id].state \in {"committed", "aborted"}
    BY ViewFacts DEF Contract!TerminalIds, IInv
  <2>2. CASE Contract!Mutate
    BY <2>2 DEF Contract!Mutate
  <2>3. ASSUME NEW i \in Id, NEW d \in Digest, Contract!Prepare(i, d)
        PROVE  LedgerView'[id] = LedgerView[id]
    <3>1. LedgerView[i] = Unseen
      BY <2>3, SharedVocabulary DEF Contract!Prepare
    <3>2. i # id
      BY <2>1, <3>1, RecordKinds
    <3>3. QED
      BY <2>1, <2>3, <3>2 DEF Contract!Prepare, Ledger
  <2>4. ASSUME NEW i \in Id, Contract!Commit(i) \/ Contract!Abort(i)
        PROVE  LedgerView'[id] = LedgerView[id]
    BY <2>1, <2>4 DEF Contract!Commit, Contract!Abort, Ledger
  <2>5. ASSUME NEW g \in Generation, Contract!Reclaim(g)
        PROVE  \/ LedgerView'[id] = LedgerView[id]
               \/ Contract!Retired(retired_through', id)
    BY <2>1, <2>5, SharedVocabulary, RetainKeepsLedger DEF Contract!Reclaim
  <2>6. QED
    BY <2>2, <2>3, <2>4, <2>5 DEF Contract!Next
<1>2. QED
  BY <1>1, InvariantHolds, PTL DEF Spec, OutcomesAreFinal, Contract!OutcomesAreFinal

\* While a transaction is prepared nothing but its own decision changes what is
\* read, and its commit publishes exactly its candidate (memory.rs 43-144, 258).
THEOREM MemorySlotFreezesReads == Spec => SlotFreezesReads
<1>1. IInv /\ [Next]_vars => [Contract!FreezesReads]_(Contract!vars)
  <2> SUFFICES ASSUME IInv, Contract!Next, NEW id \in Contract!Slot
               PROVE  \/ LedgerView'[id].state = "committed" /\ entries' = prepared.candidate
                      \/ LedgerView'[id] = Contract!Aborted /\ entries' = entries
    BY NextIsStep DEF Step, Contract!FreezesReads
  <2>1. /\ LedgerView \in Ledger /\ id \in Id /\ id = prepared.id
        /\ Contract!Slot = {id}
        /\ \A i \in Id : LedgerView[i].state = "prepared" => i = id
    BY ViewFacts, HeldRecords, SharedVocabulary, NoIdAssumption
       DEF IInv, Contract!Slot, PreparedIds
  <2>2. PICK i \in Id : Contract!Commit(i) \/ Contract!Abort(i)
    BY <2>1 DEF Contract!Next, Contract!Mutate, Contract!Prepare, Contract!Reclaim
  <2>3. i = id
    BY <2>1, <2>2 DEF Contract!Commit, Contract!Abort
  <2>4. CASE Contract!Commit(id)
    BY <2>1, <2>4, SharedVocabulary, RecordKinds DEF Contract!Commit, Ledger
  <2>5. CASE Contract!Abort(id)
    BY <2>1, <2>5 DEF Contract!Abort, Ledger
  <2>6. QED
    BY <2>2, <2>3, <2>4, <2>5
<1>2. QED
  BY <1>1, InvariantHolds, PTL DEF Spec, SlotFreezesReads, Contract!SlotFreezesReads

-----------------------------------------------------------------------------
(* Answers agree: until its generation is retired, every answer about a      *)
(* transaction is supported by what the store still holds of it.             *)

\* A record supports an answer it repeats, and a prepared answer it decided.
Supports(r, p) ==
  \/ r = p
  \/ p.state = "prepared" /\ r \in {Committed(p.digest), Aborted}

LEMMA SupportsItself == \A p : Supports(p, p)
BY DEF Supports

HeardHeld ==
  \A id \in Id : Retired(retired_through, id) \/
    \A p \in heard[id] : p # Unseen /\ Supports(LedgerView[id], p)

Agreeing == HeardHeld /\ OneDecision

\* A new answer is what the store holds after the call; what it held before had
\* not been told, or was the same, or was the prepared record now decided.
LEMMA AnswerAgrees ==
  ASSUME IInv, Agreeing, NEW call, NEW id \in Id, NEW p \in Record, p # Unseen,
         Answer(call, id, p), ~Retired(retired_through, id), UNCHANGED retired_through,
         LedgerView'[id] = p, \A i \in Id \ {id} : LedgerView'[i] = LedgerView[i],
         \/ LedgerView[id] = p \/ LedgerView[id] = Unseen
         \/ /\ LedgerView[id].state = "prepared"
            /\ p = Aborted \/ p = Committed(LedgerView[id].digest)
  PROVE  Agreeing'
<1>1. \A i \in Id : heard'[i] = IF i = id THEN heard[i] \cup {p} ELSE heard[i]
  BY DEF Answer, IInv, TypeOK
<1>2. \A i \in Id : heard[i] \subseteq Record
  BY DEF IInv, TypeOK
<1>3. /\ \A d : /\ Prepared(d).state = "prepared" /\ Prepared(d).digest = d
               /\ Committed(d).state = "committed" /\ Committed(d).digest = d
      /\ Aborted.state = "aborted" /\ Unseen.state = "unseen"
  BY RecordKinds DEF Prepared, Committed
<1>4. \A q \in heard[id] : q # Unseen /\ Supports(p, q)
  <2> SUFFICES ASSUME NEW q \in heard[id]
               PROVE  q # Unseen /\ Supports(p, q)
    OBVIOUS
  <2>1. q # Unseen /\ Supports(LedgerView[id], q)
    BY DEF Agreeing, HeardHeld
  <2>2. CASE LedgerView[id] = p
    BY <2>1, <2>2
  <2>3. CASE LedgerView[id] = Unseen
    BY <1>3, <2>1, <2>3 DEF Supports
  <2>4. CASE /\ LedgerView[id].state = "prepared"
             /\ p = Aborted \/ p = Committed(LedgerView[id].digest)
    BY <1>3, <2>1, <2>4 DEF Supports
  <2>5. QED
    BY <2>1, <2>2, <2>3, <2>4
<1>5. \A q \in heard'[id] : q # Unseen /\ Supports(p, q)
  <2>1. heard'[id] = heard[id] \cup {p}
    BY <1>1
  <2>2. QED
    BY <1>4, <2>1, SupportsItself
<1>6. HeardHeld'
  BY <1>1, <1>5 DEF Agreeing, HeardHeld
<1>7. OneDecision'
  <2> SUFFICES ASSUME NEW i \in Id, NEW q \in heard'[i], NEW r \in heard'[i]
               PROVE  /\ q.state = "aborted" => r.state # "committed"
                      /\ q.state # "aborted" /\ r.state # "aborted" => q.digest = r.digest
    BY DEF OneDecision
  <2>1. CASE i # id
    <3>1. heard'[i] = heard[i]
      BY <1>1, <2>1
    <3>2. QED
      BY <3>1 DEF Agreeing, OneDecision
  <2>2. CASE q \in heard[i] /\ r \in heard[i]
    BY <2>2 DEF Agreeing, OneDecision
  <2>3. CASE i = id /\ (q \notin heard[i] \/ r \notin heard[i])
    <3>1. Supports(p, q) /\ Supports(p, r) /\ (q = p \/ r = p)
      BY <1>1, <1>5, <2>3
    <3>2. QED
      BY <1>3, <3>1 DEF Supports
  <2>4. QED
    BY <2>1, <2>2, <2>3
<1>8. QED
  BY <1>6, <1>7 DEF Agreeing

\* A call that answers from what the store holds.
LEMMA RepeatAgrees ==
  ASSUME IInv, Agreeing, NEW call, NEW id \in Id, NEW p \in Record, p # Unseen,
         Answer(call, id, p), ~Retired(retired_through, id), UNCHANGED store,
         LedgerView[id] = p
  PROVE  Agreeing'
<1>1. LedgerView' = LedgerView /\ UNCHANGED retired_through
  BY DEF store, LedgerView
<1>2. QED
  BY <1>1, AnswerAgrees

\* A call that answers nothing new and leaves the records alone.
LEMMA SilentAgrees ==
  ASSUME Agreeing, UNCHANGED <<heard, retired_through, terminals, prepared>>
  PROVE  Agreeing'
BY DEF Agreeing, HeardHeld, OneDecision, LedgerView

LEMMA RefuseAgrees ==
  ASSUME Agreeing, NEW call, NEW id, NEW why, Refuse(call, id, why)
  PROVE  Agreeing'
BY SilentAgrees DEF Refuse, store

LEMMA PrepareAgrees ==
  ASSUME IInv, Agreeing, NEW id \in Id, NEW d \in Digest,
         \/ PrepareAgain(id, d)
         \/ \E batch \in Batches : PrepareNew(id, d, batch)
  PROVE  Agreeing'
<1>1. /\ Prepared(d) \in Record /\ Prepared(d) # Unseen
      /\ Committed(d) \in Record /\ Committed(d) # Unseen
  BY RecordKinds
<1>2. \A i \in Id : LedgerView[i] =
        IF i = prepared.id THEN Prepared(prepared.digest) ELSE terminals[i]
  BY ViewFacts DEF IInv
<1>3. CASE \E i, why : Refuse("prepare", i, why)
  BY <1>3, RefuseAgrees
<1>4. CASE PrepareAgain(id, d) /\ Answer("prepare", id, Prepared(d))
           /\ prepared.id = id /\ prepared.digest = d /\ UNCHANGED store
  BY <1>1, <1>2, <1>4, RepeatAgrees DEF PrepareAgain
<1>5. CASE PrepareAgain(id, d) /\ Answer("prepare", id, Committed(d))
           /\ prepared.id = NoId /\ terminals[id].state = "committed"
           /\ terminals[id].digest = d /\ UNCHANGED store
  <2>1. terminals[id] = Committed(d)
    BY <1>5, HeldRecords DEF IInv, Record, Unseen, Aborted, Prepared, Committed
  <2>2. QED
    BY <1>1, <1>2, <1>5, <2>1, RepeatAgrees, NoIdAssumption DEF PrepareAgain
<1>6. CASE /\ Startable(id)
           /\ prepared'.id = id /\ prepared'.digest = d
           /\ Answer("prepare", id, Prepared(d))
           /\ UNCHANGED <<retired_through, terminals>>
  <2>1. LedgerView[id] = Unseen /\ ~Retired(retired_through, id) /\ prepared.id = NoId
    BY <1>2, <1>6, NoIdAssumption DEF Startable
  <2>2. \A i \in Id : LedgerView'[i] = IF i = id THEN Prepared(d) ELSE LedgerView[i]
    BY <1>6, <2>1, NoIdAssumption DEF LedgerView
  <2>3. QED
    BY <1>1, <1>6, <2>1, <2>2, AnswerAgrees
<1>7. QED
  BY <1>3, <1>4, <1>5, <1>6 DEF PrepareAgain, PrepareNew

LEMMA StateAgrees ==
  ASSUME IInv, Agreeing, NEW id \in Id, State(id)
  PROVE  Agreeing'
<1>1. \A i \in Id : LedgerView[i] =
        IF i = prepared.id THEN Prepared(prepared.digest) ELSE terminals[i]
  BY ViewFacts DEF IInv
<1>2. CASE \E why : Refuse("state", id, why)
  BY <1>2, RefuseAgrees
<1>3. CASE prepared.id = id /\ Answer("state", id, Prepared(prepared.digest)) /\ UNCHANGED store
  <2>1. Prepared(prepared.digest) \in Record /\ Prepared(prepared.digest) # Unseen
    BY <1>3, HeldRecords, RecordKinds, NoIdAssumption DEF IInv
  <2>2. QED
    BY <1>1, <1>3, <2>1, RepeatAgrees DEF State
<1>4. CASE /\ prepared.id # id /\ terminals[id].state = "committed"
           /\ Answer("state", id, terminals[id]) /\ UNCHANGED store
  <2>1. terminals[id] \in Record /\ terminals[id] # Unseen
    BY <1>4, HeldRecords, RecordKinds DEF IInv
  <2>2. QED
    BY <1>1, <1>4, <2>1, RepeatAgrees DEF State
<1>5. QED
  BY <1>2, <1>3, <1>4 DEF State

LEMMA CommitAgrees ==
  ASSUME IInv, Agreeing, NEW id \in Id, Commit(id)
  PROVE  Agreeing'
<1>1. \A i \in Id : LedgerView[i] =
        IF i = prepared.id THEN Prepared(prepared.digest) ELSE terminals[i]
  BY ViewFacts DEF IInv
<1>2. CASE \E why : Refuse("commit", id, why)
  BY <1>2, RefuseAgrees
<1>3. CASE /\ terminals[id].state = "committed"
           /\ Answer("commit", id, terminals[id]) /\ UNCHANGED store
  <2>1. terminals[id] \in Record /\ terminals[id] # Unseen
    BY <1>3, HeldRecords, RecordKinds DEF IInv
  <2>2. prepared.id # id
    BY <2>1, NoIdAssumption DEF IInv, TypeOK
  <2>3. QED
    BY <1>1, <1>3, <2>1, <2>2, RepeatAgrees, NoIdAssumption DEF Commit, IInv, TypeOK
<1>4. CASE /\ terminals[id] = Unseen /\ prepared.id = id
           /\ terminals' = [terminals EXCEPT ![id] = Committed(prepared.digest)]
           /\ prepared' = FreeSlot
           /\ Answer("commit", id, Committed(prepared.digest))
           /\ UNCHANGED retired_through
  <2>1. /\ Committed(prepared.digest) \in Record /\ Committed(prepared.digest) # Unseen
        /\ LedgerView[id].state = "prepared" /\ LedgerView[id].digest = prepared.digest
    BY <1>1, <1>4, HeldRecords, RecordKinds, NoIdAssumption DEF IInv, Prepared
  <2>2. \A i \in Id : terminals'[i] =
          IF i = id THEN Committed(prepared.digest) ELSE terminals[i]
    BY <1>4 DEF IInv, TypeOK, Ledger
  <2>3. \A i \in Id : LedgerView'[i] =
          IF i = id THEN Committed(prepared.digest) ELSE LedgerView[i]
    BY <1>4, <2>2, NoIdAssumption DEF LedgerView, FreeSlot
  <2>4. QED
    BY <1>4, <2>1, <2>3, AnswerAgrees DEF Commit
<1>5. QED
  BY <1>2, <1>3, <1>4 DEF Commit

LEMMA AbortAgrees ==
  ASSUME IInv, Agreeing, NEW id \in Id, Abort(id)
  PROVE  Agreeing'
<1>1. \A i \in Id : LedgerView[i] =
        IF i = prepared.id THEN Prepared(prepared.digest) ELSE terminals[i]
  BY ViewFacts DEF IInv
<1>2. Aborted \in Record /\ Aborted # Unseen
  BY RecordKinds
<1>3. CASE \E why : Refuse("abort", id, why)
  BY <1>3, RefuseAgrees
<1>4. CASE terminals[id] = Aborted /\ Answer("abort", id, Aborted) /\ UNCHANGED store
  <2>1. prepared.id # id
    BY <1>2, <1>4, NoIdAssumption DEF IInv, TypeOK
  <2>2. QED
    BY <1>1, <1>2, <1>4, <2>1, RepeatAgrees DEF Abort
<1>5. CASE /\ terminals[id] = Unseen /\ prepared.id \in {NoId, id}
           /\ prepared' = FreeSlot
           /\ terminals' = [terminals EXCEPT ![id] = Aborted]
           /\ Answer("abort", id, Aborted)
           /\ UNCHANGED retired_through
  <2>1. LedgerView[id] = Unseen \/ LedgerView[id].state = "prepared"
    BY <1>1, <1>5, RecordKinds
  <2>2. \A i \in Id : terminals'[i] = IF i = id THEN Aborted ELSE terminals[i]
    BY <1>5 DEF IInv, TypeOK, Ledger
  <2>3. \A i \in Id : LedgerView'[i] = IF i = id THEN Aborted ELSE LedgerView[i]
    BY <1>5, <2>2, NoIdAssumption DEF LedgerView, FreeSlot
  <2>4. QED
    BY <1>2, <1>5, <2>1, <2>3, AnswerAgrees DEF Abort
<1>6. QED
  BY <1>3, <1>4, <1>5 DEF Abort

\* Retirement forgets records of which nothing more will be answered.
LEMMA ReclaimAgrees ==
  ASSUME IInv, Agreeing, NEW g \in Generation, Reclaim(g)
  PROVE  Agreeing'
<1>1. CASE Refuse("reclaim", NoId, "Busy")
  BY <1>1, RefuseAgrees
<1>2. CASE /\ prepared.id = NoId
           /\ retired_through' = MaxFence(g)
           /\ terminals' = Retain(terminals, MaxFence(g))
           /\ UNCHANGED <<prepared, heard>>
  <2>1. /\ retired_through \in Nat /\ MaxFence(g) \in Nat
        /\ MaxFence(g) >= retired_through
    BY GenerationAssumption DEF IInv, TypeOK, MaxFence
  <2>2. \A i \in Id : Retired(retired_through, i) => Retired(MaxFence(g), i)
    BY <2>1, GenerationAssumption DEF Retired
  <2>3. \A i \in Id : Retired(MaxFence(g), i) \/ LedgerView'[i] = LedgerView[i]
    BY <1>2, RetainKeepsLedger, NoIdAssumption DEF IInv, TypeOK, LedgerView
  <2>4. HeardHeld'
    BY <1>2, <2>2, <2>3 DEF Agreeing, HeardHeld
  <2>5. QED
    BY <1>2, <2>4 DEF Agreeing, OneDecision
<1>3. QED
  BY <1>1, <1>2 DEF Reclaim

LEMMA NextAgrees == IInv /\ Agreeing /\ [Next]_vars => Agreeing'
<1> SUFFICES ASSUME IInv, Agreeing, [Next]_vars
             PROVE  Agreeing'
  OBVIOUS
<1>1. ASSUME \/ \E at \in Addr, secret \in Val : Put(at, secret)
             \/ \E at \in Addr : Delete(at)
             \/ \E batch \in Batches : Apply(batch)
             \/ UNCHANGED vars
      PROVE  Agreeing'
  BY <1>1, SilentAgrees DEF Put, Delete, Apply, Mutate, vars
<1>2. ASSUME NEW id \in Id, RetiredCall(id)
      PROVE  Agreeing'
  BY <1>2, RefuseAgrees DEF RetiredCall
<1>3. QED
  BY <1>1, <1>2, PrepareAgrees, StateAgrees, CommitAgrees, AbortAgrees, ReclaimAgrees
     DEF Next

\* Whatever the order of prepare, commit, abort, replays and reclamation, no
\* transaction is ever answered as committed and as aborted, and two answers
\* about it never carry different digests (memory.rs 178-325).
THEOREM MemoryOneDecision == Spec => []OneDecision
<1>1. Init => Agreeing
  BY DEF Init, Agreeing, HeardHeld, OneDecision
<1>2. Agreeing => OneDecision
  BY DEF Agreeing
<1>3. QED
  BY <1>1, <1>2, NextAgrees, InvariantHolds, PTL DEF Spec
=============================================================================
