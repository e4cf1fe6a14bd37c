------------------------------ MODULE MCSignIn ------------------------------
(***************************************************************************)
(* Model checking of SignIn: two browsers, three sign-ins of which two can *)
(* wait at once, two people, two callbacks.                                *)
(***************************************************************************)
EXTENDS SignIn, TLC

MCSymmetry == Permutations(State) \cup Permutations(Request)
                \cup Permutations(Browser) \cup Permutations(Subject)
=============================================================================
