----------------------- MODULE PreparedStore_proofs -----------------------
(***************************************************************************)
(* The contract of a prepared secret store gives its owner what it is      *)
(* relied on for, for every set of transactions, digests and addresses and *)
(* every capacity.  Inv is inductive: the reservation needs the single     *)
(* slot, and the slot's uniqueness is what lets a decision free it.        *)
(***************************************************************************)
EXTENDS PreparedStore, SecretTransaction_proofs

LEMMA InitInv == Init => Inv
BY NoEntriesAssumption, GenerationAssumption, RecordKinds
   DEF Init, Inv, TypeOK, OneSlot, FenceHolds, OutcomeReserved, Slot, PreparedIds,
       EmptyLedger, Ledger, Retired

\* Mutate changes only the entries, and the entries stay entries.
LEMMA MutateKeepsInv == Inv /\ Mutate => Inv'
BY DEF Inv, Mutate, TypeOK, OneSlot, FenceHolds, OutcomeReserved, Slot

\* Prepare takes the free slot, and reserves the line of its outcome.
LEMMA PrepareKeepsInv ==
  ASSUME Inv, NEW id \in Id, NEW d \in Digest, Prepare(id, d)
  PROVE  Inv'
<1>1. /\ ledger' \in Ledger
      /\ \A i \in Id : ledger'[i] = IF i = id THEN Prepared(d) ELSE ledger[i]
  <2>1. ledger \in Ledger /\ ledger' = [ledger EXCEPT ![id] = Prepared(d)]
    BY DEF Inv, TypeOK, Prepare
  <2>2. QED
    BY <2>1, RecordKinds DEF Ledger
<1>2. Slot' = {id}
  BY <1>1, RecordKinds DEF Prepare, Slot, PreparedIds
<1>3. TerminalIds(ledger') = TerminalIds(ledger)
  BY <1>1, RecordKinds DEF Prepare, TerminalIds
<1>4. TypeOK'
  BY <1>1 DEF Inv, TypeOK, Prepare
<1>5. OneSlot'
  BY <1>2, NoEntriesAssumption DEF OneSlot, Prepare
<1>6. FenceHolds'
  BY <1>1 DEF Inv, FenceHolds, Prepare, Retired
<1>7. OutcomeReserved'
  BY <1>3 DEF OutcomeReserved, Prepare, TerminalCount
<1>8. QED
  BY <1>4, <1>5, <1>6, <1>7 DEF Inv

\* A decision frees the slot: there was only the one transaction in it.
LEMMA DecisionKeepsInv ==
  ASSUME Inv, NEW id \in Id, NEW r \in Record, Slot \subseteq {id},
         r.state \in {"committed", "aborted"}, ~Retired(fence, id),
         entries' \in Entries, ledger' = [ledger EXCEPT ![id] = r],
         candidate' = NoEntries, UNCHANGED fence
  PROVE  Inv'
<1>1. /\ ledger' \in Ledger
      /\ \A i \in Id : ledger'[i] = IF i = id THEN r ELSE ledger[i]
  <2>1. ledger \in Ledger
    BY DEF Inv, TypeOK
  <2>2. QED
    BY <2>1 DEF Ledger
<1>2. Slot' = {}
  BY <1>1 DEF Slot, PreparedIds
<1>3. TypeOK'
  BY <1>1 DEF Inv, TypeOK
<1>4. OneSlot' /\ OutcomeReserved'
  BY <1>2 DEF OneSlot, OutcomeReserved
<1>5. FenceHolds'
  BY <1>1 DEF Inv, FenceHolds, Retired
<1>6. QED
  BY <1>3, <1>4, <1>5 DEF Inv

\* Reclamation only forgets, and only what is at or below the new fence.
LEMMA ReclaimKeepsInv ==
  ASSUME Inv, NEW g \in Generation, Reclaim(g)
  PROVE  Inv'
<1>1. /\ ledger' \in Ledger
      /\ \A i \in Id : ledger'[i] = IF Retired(g, i) THEN Unseen ELSE ledger[i]
  BY RetainKeepsLedger DEF Inv, TypeOK, Reclaim
<1>2. Slot' = {}
  BY <1>1, RecordKinds DEF Reclaim, Slot, PreparedIds
<1>3. TypeOK'
  BY <1>1, GenerationAssumption DEF Inv, TypeOK, Reclaim
<1>4. OneSlot' /\ OutcomeReserved'
  BY <1>2 DEF Inv, OneSlot, OutcomeReserved, Reclaim
<1>5. FenceHolds'
  BY <1>1 DEF FenceHolds, Reclaim
<1>6. QED
  BY <1>3, <1>4, <1>5 DEF Inv

LEMMA NextInv == Inv /\ [Next]_vars => Inv'
<1> SUFFICES ASSUME Inv, [Next]_vars
             PROVE  Inv'
  OBVIOUS
<1>1. CASE Mutate
  BY <1>1, MutateKeepsInv
<1>2. ASSUME NEW id \in Id, NEW d \in Digest, Prepare(id, d)
      PROVE  Inv'
  BY <1>2, PrepareKeepsInv
<1>3. ASSUME NEW id \in Id, Commit(id)
      PROVE  Inv'
  <2>1. id \in Slot /\ Slot \subseteq {id}
    BY <1>3 DEF Inv, OneSlot, Commit, Slot, PreparedIds
  <2>2. ledger[id].digest \in Digest
    BY <1>3, RecordKinds DEF Inv, TypeOK, Ledger, Commit
  <2>3. candidate \in Entries
    BY <2>1 DEF Inv, TypeOK, OneSlot
  <2>4. ~Retired(fence, id)
    BY <1>3, RecordKinds DEF Inv, FenceHolds, Commit
  <2>5. QED
    BY <1>3, <2>1, <2>2, <2>3, <2>4, RecordKinds, DecisionKeepsInv DEF Commit
<1>4. ASSUME NEW id \in Id, Abort(id)
      PROVE  Inv'
  BY <1>4, RecordKinds, DecisionKeepsInv DEF Abort, Inv, TypeOK
<1>5. ASSUME NEW g \in Generation, Reclaim(g)
      PROVE  Inv'
  BY <1>5, ReclaimKeepsInv
<1>6. CASE UNCHANGED vars
  BY <1>6 DEF vars, Inv, TypeOK, OneSlot, FenceHolds, OutcomeReserved, Slot
<1>7. QED
  BY <1>1, <1>2, <1>3, <1>4, <1>5, <1>6 DEF Next

\* A store that keeps the contract has at most one prepared transaction with a
\* complete candidate, holds nothing of a retired generation, and can always
\* record the outcome of what is prepared (transaction.rs 147-206).
THEOREM ContractInvariant == Spec => []Inv
BY InitInv, NextInv, PTL DEF Spec

\* Committed and aborted records stay until their generation is retired.
THEOREM ContractOutcomesAreFinal == Spec => OutcomesAreFinal
<1>1. Inv /\ [Next]_vars => [KeepsOutcomes]_vars
  <2> SUFFICES ASSUME Inv, Next, NEW id \in TerminalIds(ledger)
               PROVE  ledger'[id] = ledger[id] \/ Retired(fence', id)
    BY DEF KeepsOutcomes
  <2>1. id \in Id /\ ledger[id].state \in {"committed", "aborted"}
    BY DEF TerminalIds
  <2>2. CASE Mutate
    BY <2>2 DEF Mutate
  <2>3. ASSUME NEW i \in Id, NEW d \in Digest, Prepare(i, d)
        PROVE  ledger'[id] = ledger[id]
    BY <2>1, <2>3, RecordKinds DEF Prepare, Inv, TypeOK, Ledger
  <2>4. ASSUME NEW i \in Id, Commit(i) \/ Abort(i)
        PROVE  ledger'[id] = ledger[id]
    BY <2>1, <2>4, RecordKinds DEF Commit, Abort, Inv, TypeOK, Ledger
  <2>5. ASSUME NEW g \in Generation, Reclaim(g)
        PROVE  ledger'[id] = ledger[id] \/ Retired(fence', id)
    BY <2>1, <2>5, RetainKeepsLedger DEF Reclaim, Inv, TypeOK
  <2>6. QED
    BY <2>2, <2>3, <2>4, <2>5 DEF Next
<1>2. QED
  BY <1>1, ContractInvariant, PTL DEF Spec, OutcomesAreFinal

\* The retirement fence never moves back.
THEOREM ContractFenceMonotone == Spec => FenceMonotone
<1>1. Inv /\ [Next]_vars => [fence' >= fence]_vars
  <2> SUFFICES ASSUME Inv, Next
               PROVE  fence' >= fence
    OBVIOUS
  <2>1. fence \in Nat
    BY DEF Inv, TypeOK
  <2>2. ASSUME NEW g \in Generation, Reclaim(g)
        PROVE  fence' >= fence
    BY <2>1, <2>2, GenerationAssumption DEF Reclaim
  <2>3. CASE UNCHANGED fence
    BY <2>1, <2>3
  <2>4. QED
    BY <2>2, <2>3 DEF Next, Mutate, Prepare, Commit, Abort
<1>2. QED
  BY <1>1, ContractInvariant, PTL DEF Spec, FenceMonotone

\* Only its own decision changes what is read while a transaction is prepared,
\* and a commit publishes exactly its candidate.
THEOREM ContractSlotFreezesReads == Spec => SlotFreezesReads
<1>1. Inv /\ [Next]_vars => [FreezesReads]_vars
  <2> SUFFICES ASSUME Inv, Next, NEW id \in Slot
               PROVE  \/ ledger'[id].state = "committed" /\ entries' = candidate
                      \/ ledger'[id] = Aborted /\ entries' = entries
    BY DEF FreezesReads
  <2>1. id \in Id /\ ledger \in Ledger
    BY DEF Slot, PreparedIds, Inv, TypeOK
  <2>2. \E i \in Id : Commit(i) \/ Abort(i)
    BY DEF Next, Mutate, Prepare, Reclaim
  <2>3. PICK i \in Id : Commit(i) \/ Abort(i)
    BY <2>2
  <2>4. i = id
    BY <2>3 DEF Inv, OneSlot, Commit, Abort, Slot, PreparedIds
  <2>5. QED
    BY <2>1, <2>3, <2>4, RecordKinds DEF Commit, Abort, Ledger
<1>2. QED
  BY <1>1, ContractInvariant, PTL DEF Spec, SlotFreezesReads
=============================================================================
