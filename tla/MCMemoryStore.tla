--------------------------- MODULE MCMemoryStore ---------------------------
(***************************************************************************)
(* Model checking of MemoryStore: three identifiers, two of them of one     *)
(* generation, two digests, two addresses, and bounds both of which bite.  *)
(***************************************************************************)
EXTENDS MemoryStore

CONSTANTS a1, a2, v1, t1, t2, t3

MCGenerationOf == [id \in Id |-> IF id = t3 THEN 2 ELSE 1]

\* A put, a delete and a move: the batches an owner may propose.
MCBatches == {{PutAt(a1, v1)}, {DeleteAt(a1)}, {Move(a1, a2)}}
=============================================================================
