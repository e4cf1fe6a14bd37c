--------------------- MODULE SecretTransaction_proofs ---------------------
(***************************************************************************)
(* Lemmas about the operators every store is built from: batches, ledger   *)
(* records and reclamation, for every value of the constants.              *)
(***************************************************************************)
EXTENDS SecretTransaction, FiniteSetTheorems, TLAPS

\* Applying an admitted batch to a store's entries yields entries again: each
\* address holds a value or nothing (batch.rs 111-141).
LEMMA OutcomeInEntries ==
  ASSUME NEW e \in Entries, NEW batch \in SUBSET Mutation
  PROVE  Outcome(e, batch) \in Entries
<1>1. ASSUME NEW m \in Mutation, NEW a \in Addr, a \in Named(m)
      PROVE  Effect(e, m, a) \in Val \cup {NoValue}
  <2>1. CASE \E from \in Addr, to \in Addr : m = Move(from, to)
    BY <2>1 DEF Move, Effect, Entries
  <2>2. CASE \E at \in Addr, secret \in Val : m = PutAt(at, secret)
    BY <2>2 DEF PutAt, Effect
  <2>3. CASE \E at \in Addr : m = DeleteAt(at)
    BY <2>3 DEF DeleteAt, Effect
  <2>4. QED
    BY <2>1, <2>2, <2>3 DEF Mutation
<1>2. ASSUME NEW a \in Addr
      PROVE  (IF \E m \in batch : a \in Named(m)
              THEN Effect(e, CHOOSE m \in batch : a \in Named(m), a)
              ELSE e[a]) \in Val \cup {NoValue}
  <2>1. CASE \E m \in batch : a \in Named(m)
    <3> DEFINE chosen == CHOOSE m \in batch : a \in Named(m)
    <3>1. chosen \in batch /\ a \in Named(chosen)
      BY <2>1
    <3>2. Effect(e, chosen, a) \in Val \cup {NoValue}
      BY <1>1, <3>1
    <3>3. QED
      BY <2>1, <3>2
  <2>2. CASE ~ \E m \in batch : a \in Named(m)
    BY <2>2 DEF Entries
  <2>3. QED
    BY <2>1, <2>2
<1>3. QED
  BY <1>2 DEF Outcome, Entries

\* The four kinds of record, and what tells them apart.
LEMMA RecordKinds ==
  /\ Unseen \in Record /\ Aborted \in Record
  /\ \A d \in Digest : Prepared(d) \in Record /\ Committed(d) \in Record
  /\ Unseen.state = "unseen" /\ Aborted.state = "aborted"
  /\ \A d : Prepared(d).state = "prepared" /\ Committed(d).state = "committed"
  /\ \A r \in Record : r.state = "prepared" => r.digest \in Digest
  /\ \A r \in Record : r.state = "unseen" => r = Unseen
<1>1. /\ Unseen \in Record /\ Aborted \in Record
      /\ \A d \in Digest : Prepared(d) \in Record /\ Committed(d) \in Record
  BY DEF Record
<1>2. Unseen.state = "unseen" /\ Aborted.state = "aborted"
  BY DEF Unseen, Aborted
<1>3. \A d : /\ Prepared(d).state = "prepared" /\ Committed(d).state = "committed"
            /\ Prepared(d).digest = d
  BY DEF Prepared, Committed
<1>4. ASSUME NEW r \in Record
      PROVE  /\ r.state = "prepared" => r.digest \in Digest
             /\ r.state = "unseen" => r = Unseen
  <2>1. \/ r = Unseen \/ r = Aborted
        \/ \E d \in Digest : r = Prepared(d) \/ r = Committed(d)
    BY DEF Record
  <2>2. CASE r = Unseen \/ r = Aborted
    BY <1>2, <2>2
  <2>3. CASE \E d \in Digest : r = Prepared(d) \/ r = Committed(d)
    BY <1>3, <2>3
  <2>4. QED
    BY <2>1, <2>2, <2>3
<1>5. QED
  BY <1>1, <1>2, <1>3, <1>4

\* The states a record may have; an aborted record carries nothing else.
LEMMA RecordStates ==
  /\ \A r \in Record : r.state \in {"unseen", "prepared", "committed", "aborted"}
  /\ \A r \in Record : r.state = "aborted" => r = Aborted
BY DEF Record, Unseen, Aborted, Prepared, Committed

\* A reclaimed ledger is a ledger and holds nothing of the fenced generations.
LEMMA RetainKeepsLedger ==
  ASSUME NEW l \in Ledger, NEW g
  PROVE  /\ Retain(l, g) \in Ledger
         /\ \A i \in Id : Retain(l, g)[i] = IF Retired(g, i) THEN Unseen ELSE l[i]
BY RecordKinds DEF Retain, Ledger

\* An abort costs a shorter line than the prepared record it replaces, and one of
\* the lines the ledger had left: what could be written before still can.
LEMMA AbortedFits ==
  ASSUME NEW e \in Entries, NEW l \in Ledger, NEW id \in Id, l[id].state = "prepared",
         TerminalCount(l) < MaxTerminals, EncodingFits(e, l)
  PROVE  EncodingFits(e, [l EXCEPT ![id] = Aborted])
<1> DEFINE after == [l EXCEPT ![id] = Aborted]
           Held(ledger, state) == {i \in Id : ledger[i].state = state}
<1>1. /\ after[id].state = "aborted"
      /\ \A i \in Id \ {id} : after[i] = l[i]
  BY RecordKinds DEF Ledger
<1>2. /\ Held(after, "aborted") = Held(l, "aborted") \cup {id}
      /\ Held(after, "prepared") = Held(l, "prepared") \ {id}
      /\ Held(after, "committed") = Held(l, "committed")
      /\ TerminalIds(after) = TerminalIds(l) \cup {id}
      /\ id \notin Held(l, "aborted") /\ id \in Held(l, "prepared") /\ id \notin TerminalIds(l)
  BY <1>1 DEF TerminalIds
<1>3. /\ \A state : IsFiniteSet(Held(l, state))
      /\ IsFiniteSet(TerminalIds(l))
      /\ IsFiniteSet({a \in Addr : e[a] # NoValue})
  <2>1. \A T \in SUBSET Id : IsFiniteSet(T)
    BY FS_Subset, FiniteAssumption
  <2>2. \A T \in SUBSET Addr : IsFiniteSet(T)
    BY FS_Subset, FiniteAssumption
  <2>3. QED
    BY <2>1, <2>2 DEF TerminalIds
<1> HIDE DEF Held, after
<1>4. /\ Cardinality(Held(after, "aborted")) = Cardinality(Held(l, "aborted")) + 1
      /\ Cardinality(Held(after, "prepared")) = Cardinality(Held(l, "prepared")) - 1
      /\ TerminalCount(after) = TerminalCount(l) + 1
  <2>1. Cardinality(Held(after, "aborted")) = Cardinality(Held(l, "aborted")) + 1
    BY <1>2, <1>3, FS_AddElement
  <2>2. Cardinality(Held(after, "prepared")) = Cardinality(Held(l, "prepared")) - 1
    BY <1>2, <1>3, FS_RemoveElement
  <2>3. TerminalCount(after) = TerminalCount(l) + 1
    BY <1>2, <1>3, FS_AddElement DEF TerminalCount
  <2>4. QED
    BY <2>1, <2>2, <2>3
<1>5. /\ \A state : Cardinality(Held(l, state)) \in Nat
      /\ TerminalCount(l) \in Nat /\ EntryBytes(e) \in Nat
  <2>1. Cardinality({a \in Addr : e[a] # NoValue}) \in Nat
    BY <1>3, FS_CardinalityType
  <2>2. QED
    BY <1>3, <2>1, FS_CardinalityType DEF TerminalCount, EntryBytes, ValueBytes
<1>6. \A ledger : LedgerBytes(ledger) = Cardinality(Held(ledger, "aborted"))
                                        + 2 * Cardinality(Held(ledger, "prepared"))
                                        + 3 * Cardinality(Held(ledger, "committed"))
  BY DEF LedgerBytes, Held
<1>7. LedgerBytes(after) = LedgerBytes(l) - 1 /\ LedgerBytes(l) \in Nat
  BY <1>2, <1>4, <1>5, <1>6
<1>8. EncodingFits(e, after)
  BY <1>4, <1>5, <1>7, BoundsAssumption DEF EncodingFits
<1>9. QED
  BY <1>8 DEF after
=============================================================================
