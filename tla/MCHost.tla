------------------------------- MODULE MCHost -------------------------------
(***************************************************************************)
(* Model checking of what a host keeps in memory, each part on its own: a  *)
(* behaviour is one of the in-process secret store, MCMemoryStore, or of   *)
(* calls over the settings and the credentials, MCExecution.  The part that*)
(* is not chosen stays in one initial state.                               *)
(***************************************************************************)
EXTENDS MCMemoryStore, MCExecution

VARIABLE part

hostVars == <<vars, executionVars, part>>

\* The store's behaviours are checked beside one content of the other part.
NothingBound ==
  /\ settings = [t \in Tenant |-> [f \in Field |-> None]]
  /\ secrets = [t \in Tenant |-> [k \in Credential |-> None]]

HostInit ==
  /\ part \in {"store", "calls"}
  /\ Init
  /\ IF part = "calls" THEN MCInit ELSE NothingBound /\ ExecutionInit

HostNext ==
  \/ part = "store" /\ Next /\ UNCHANGED <<executionVars, part>>
  \/ part = "calls" /\ ExecutionNext /\ UNCHANGED <<vars, part>>

HostSpec == HostInit /\ [][HostNext]_hostVars
=============================================================================
