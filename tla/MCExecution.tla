---------------------------- MODULE MCExecution ----------------------------
(***************************************************************************)
(* A small catalogue for Execution: "list" authenticates with a pair of    *)
(* headers or with one joined credential in the query, "login" with the    *)
(* joined credential and mints one of the pair, "ping" declares none.      *)
(***************************************************************************)
EXTENDS Execution

CONSTANTS
  mine, other,   \* two tenants; calls are made by either
  id, token, basic, list, login, ping, space, origin,
  s1, s2, tiny, x1, x2, bad, blank

MCAlternatives ==
  [op \in Operation |->
     CASE op = list -> <<<<id, token>>, <<basic>>>>
       [] op = login -> <<<<basic>>>>
       [] OTHER -> <<>>]
MCEndpointsOf == [op \in Operation |-> IF op = list THEN <<space, origin>> ELSE <<space>>]
MCMints == [op \in Operation |-> IF op = login THEN token ELSE None]
MCUsers == <<basic>>
MCDefault == [e \in Endpoint |-> IF e = origin THEN x1 ELSE None]
MCClosedTo ==
  [f \in Field |-> CASE f = origin -> {x1, x2}
                    [] f = space -> {x2, bad, blank}
                    [] f = basic -> {x2, blank}]

\* The other tenant's values are fixed and its own; the caller's differ in
\* what is missing.  A write can still blank a setting or store a short secret.
MCSettings ==
  {[t \in Tenant |-> [f \in Field |-> IF t = other THEN x2 ELSE
                        CASE f = basic -> u [] f = space -> x1 [] f = origin -> None]] :
     u \in {None, x1}}
MCStores ==
  {[t \in Tenant |-> IF t = other THEN [k \in Credential |-> s1] ELSE m] :
     m \in [Credential -> {None, s1}]}

MCInit == settings \in MCSettings /\ secrets \in MCStores /\ ExecutionInit

MCSpec == MCInit /\ [][ExecutionNext]_executionVars
============================================================================
