--------------------------- MODULE PreparedStore ---------------------------
(***************************************************************************)
(* What a PreparedSecretStore promises its owner (transaction.rs 147-206   *)
(* and its state vocabulary), with every call that changes the store as    *)
(* one indivisible step: a single prepared slot, a candidate nobody reads  *)
(* before commit, outcomes that stay until the owner retires their         *)
(* generation, and a fence that never moves back.                          *)
(***************************************************************************)
EXTENDS SecretTransaction

VARIABLES
  entries,   \* the credential image reads answer from
  fence,     \* every generation through it is retired
  ledger,    \* what is known of each transaction
  candidate  \* the image the prepared transaction would publish

vars == <<entries, fence, ledger, candidate>>

Slot == PreparedIds(ledger)

Init ==
  /\ entries \in Entries
  /\ fence = 0
  /\ ledger = EmptyLedger
  /\ candidate = NoEntries

\* put, delete and apply: refused while a transaction owns the slot.
Mutate ==
  /\ Slot = {}
  /\ entries' \in Entries
  /\ UNCHANGED <<fence, ledger, candidate>>

Prepare(id, d) ==
  /\ ~Retired(fence, id)
  /\ Slot = {}
  /\ ledger[id] = Unseen
  /\ TerminalCount(ledger) < MaxTerminals
  /\ ledger' = [ledger EXCEPT ![id] = Prepared(d)]
  /\ candidate' \in Entries
  /\ UNCHANGED <<entries, fence>>

Commit(id) ==
  /\ ledger[id].state = "prepared"
  /\ entries' = candidate
  /\ ledger' = [ledger EXCEPT ![id] = Committed(ledger[id].digest)]
  /\ candidate' = NoEntries
  /\ UNCHANGED fence

\* Abort of an unseen id leaves a tombstone, so that a delayed prepare of it
\* is refused; abort never touches another transaction's slot.
Abort(id) ==
  /\ ~Retired(fence, id)
  /\ Slot \subseteq {id}
  /\ ledger[id].state \in {"unseen", "prepared"}
  /\ TerminalCount(ledger) < MaxTerminals
  /\ ledger' = [ledger EXCEPT ![id] = Aborted]
  /\ candidate' = NoEntries
  /\ UNCHANGED <<entries, fence>>

Reclaim(g) ==
  /\ Slot = {}
  /\ g > fence
  /\ fence' = g
  /\ ledger' = Retain(ledger, g)
  /\ UNCHANGED <<entries, candidate>>

Next ==
  \/ Mutate
  \/ \E id \in Id, d \in Digest : Prepare(id, d)
  \/ \E id \in Id : Commit(id) \/ Abort(id)
  \/ \E g \in Generation : Reclaim(g)

Spec == Init /\ [][Next]_vars

-----------------------------------------------------------------------------
(* What the contract gives its owner *)

TypeOK ==
  /\ entries \in Entries
  /\ fence \in Nat
  /\ ledger \in Ledger
  /\ candidate \in Entries \cup {NoEntries}

\* One transaction at most is prepared, and a complete candidate exists exactly
\* while one is.
OneSlot ==
  /\ \A i, j \in Slot : i = j
  /\ candidate = NoEntries <=> Slot = {}

\* The ledger holds nothing of a retired generation.
FenceHolds == \A id \in Id : Retired(fence, id) => ledger[id] = Unseen

\* Prepare reserved the line its outcome needs: whoever holds the slot can
\* still be decided either way without meeting the ledger's capacity.
OutcomeReserved == Slot # {} => TerminalCount(ledger) < MaxTerminals

Inv == TypeOK /\ OneSlot /\ FenceHolds /\ OutcomeReserved

\* An outcome is final: a committed or aborted transaction keeps its record
\* until its generation is retired.
KeepsOutcomes ==
  \A id \in TerminalIds(ledger) : ledger'[id] = ledger[id] \/ Retired(fence', id)

\* No step of the store changes an outcome before its retirement.
OutcomesAreFinal == [][KeepsOutcomes]_vars

\* The owner's fence never moves back, so a retired id stays retired.
FenceMonotone == [][fence' >= fence]_vars

\* While a transaction is prepared nothing but its own decision changes what is
\* read, and a commit publishes exactly the candidate that was prepared.
FreezesReads ==
  \A id \in Slot :
    \/ UNCHANGED <<entries, candidate, ledger>>
    \/ ledger'[id].state = "committed" /\ entries' = candidate
    \/ ledger'[id] = Aborted /\ entries' = entries

\* No step of the store changes what is read under a prepared transaction, other
\* than its decision.
SlotFreezesReads == [][FreezesReads]_vars
=============================================================================
