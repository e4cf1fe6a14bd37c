------------------------- MODULE SecretTransaction -------------------------
(***************************************************************************)
(* The vocabulary of prepared credential transactions shared by every      *)
(* store (connector-secrets, transaction.rs and the ledger of              *)
(* file/prepared.rs): identifiers and their generations, ledger records,   *)
(* the retirement fence, and the size bounds a transaction reserves.       *)
(*                                                                         *)
(* A ledger is a total function on Id in which Unseen stands for a missing *)
(* key.                                                                    *)
(***************************************************************************)
EXTENDS SecretBatch, Naturals, FiniteSets

CONSTANTS
  Id,            \* transaction identifiers
  GenerationOf,  \* the owner-allocated generation inside each identifier
  Generation,    \* the generations reclaim may be called with
  Digest,        \* proposal digests
  NoDigest,      \* of a record that carries none
  NoEntries,     \* no candidate image
  Batches,       \* the batches the owner may propose, as sets of mutations
  MaxTerminals,  \* MAX_TERMINAL_TRANSACTIONS
  MaxBytes       \* MAX_FILE_BYTES, in the units of the sizes below

ASSUME GenerationAssumption ==
  /\ Generation \subseteq Nat \ {0}
  /\ GenerationOf \in [Id -> Nat \ {0}]
ASSUME BatchesAssumption == Batches \subseteq SUBSET Mutation
ASSUME NoEntriesAssumption == NoEntries \notin Entries
ASSUME NoDigestAssumption == NoDigest \notin Digest
ASSUME BoundsAssumption == MaxTerminals \in Nat /\ MaxBytes \in Nat

\* An identifier is 32 bytes, and an address one of the strings a file can hold.
ASSUME FiniteAssumption == IsFiniteSet(Id) /\ IsFiniteSet(Addr)

-----------------------------------------------------------------------------
(* Ledger records *)

Unseen == [state |-> "unseen", digest |-> NoDigest]
Aborted == [state |-> "aborted", digest |-> NoDigest]
Prepared(d) == [state |-> "prepared", digest |-> d]
Committed(d) == [state |-> "committed", digest |-> d]

Record == {Unseen, Aborted} \cup {Prepared(d) : d \in Digest}
                            \cup {Committed(d) : d \in Digest}
Ledger == [Id -> Record]

EmptyLedger == [id \in Id |-> Unseen]

PreparedIds(ledger) == {id \in Id : ledger[id].state = "prepared"}
TerminalIds(ledger) == {id \in Id : ledger[id].state \in {"committed", "aborted"}}
TerminalCount(ledger) == Cardinality(TerminalIds(ledger))

\* Every generation through the fence is retired: the fence is inclusive.
Retired(fence, id) == GenerationOf[id] <= fence

\* Mutant of Retain: reclamation keeps the records of the fenced generation.
RetainFenced(ledger, fence) ==
  [id \in Id |-> IF GenerationOf[id] < fence THEN Unseen ELSE ledger[id]]

\* reclaim keeps the records above the fence.
Retain(ledger, fence) ==
  [id \in Id |-> IF Retired(fence, id) THEN Unseen ELSE ledger[id]]

-----------------------------------------------------------------------------
(* Sizes.  One value costs ValueBytes and each record the length of its    *)
(* line; the reservation per terminal line exceeds the longest of them.    *)
(* In the code the lines are 87, 153 and 154 bytes and the reservation is  *)
(* 160: only their order matters here.                                     *)

ValueBytes == 8
ReservedLine == 4


EntryBytes(entries) == ValueBytes * Cardinality({a \in Addr : entries[a] # NoValue})

LedgerBytes(ledger) ==
  LET lines(state) == Cardinality({id \in Id : ledger[id].state = state})
  IN  lines("aborted") + 2 * lines("prepared") + 3 * lines("committed")

\* validate_candidate_bounds
CandidateFits(entries) == EntryBytes(entries) <= MaxBytes

\* validate_transactional_bounds: the entries, and one full line for each
\* terminal record there will be once the transaction is decided.
TransactionFits(entries, terminals) ==
  EntryBytes(entries) + ReservedLine * terminals <= MaxBytes

\* The bounds encode_v2 checks of the image it renders.
EncodingFits(entries, ledger) ==
  /\ TerminalCount(ledger) <= MaxTerminals
  /\ EntryBytes(entries) + LedgerBytes(ledger) <= MaxBytes
=============================================================================
