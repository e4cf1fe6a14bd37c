----------------------------- MODULE Filtering -----------------------------
(***************************************************************************)
(* Rust's filter and retain on a sequence.  It is written as a function of *)
(* the prefix's length, for which there is induction.                      *)
(***************************************************************************)
EXTENDS Naturals, Sequences

\* The elements of s that are in keep, in the order of s.
Kept(s, keep) ==
  LET upto[n \in 0..Len(s)] ==
        IF n = 0 THEN <<>>
        ELSE IF s[n] \in keep THEN Append(upto[n - 1], s[n]) ELSE upto[n - 1]
  IN  upto[Len(s)]
============================================================================
