---------------------------- MODULE MCFileStore ----------------------------
(***************************************************************************)
(* Model checking of FileStore: up to three identifiers, t1 of generation  *)
(* one and the others of generation two, and one address with or without   *)
(* its value.                                                              *)
(***************************************************************************)
EXTENDS FileStore

CONSTANTS a1, v1, t1, t2, t3

MCGenerationOf == [id \in Id |-> IF id = t1 THEN 1 ELSE 2]

\* t2 and t3 are of one generation and play the same part.
MCSymmetry == Permutations({t2, t3})

MCBatches == {{PutAt(a1, v1)}, {DeleteAt(a1)}}
=============================================================================
