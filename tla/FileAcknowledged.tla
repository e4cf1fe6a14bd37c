-------------------------- MODULE FileAcknowledged --------------------------
(***************************************************************************)
(* What FileStore promises of its own answers in every environment: the    *)
(* process killed inside a call, required syncs and revalidations that     *)
(* fail, power losses, and an owner who reconciles nothing.                *)
(*                                                                         *)
(* FileStore's heard also holds the outcomes repeated from the files by    *)
(* state, open and the replays of a known id, which a power loss may undo  *)
(* after a kill.  acknowledged is a history variable that holds only the   *)
(* outcomes a prepare, commit or abort answered for what it did itself.    *)
(***************************************************************************)
EXTENDS FileStore

VARIABLE acknowledged \* per transaction, the outcomes answered by their own call

ackVars == <<vars, acknowledged>>

Deciding == {"prepare", "commit", "abort"}

\* A deciding call answers the outcome it was started for.
Acknowledges == call # Nothing /\ call.op \in Deciding /\ Finish

AckInit == Init /\ acknowledged = [id \in Id |-> {}]

AckNext ==
  /\ Next
  /\ acknowledged' = IF Acknowledges
                     THEN [acknowledged EXCEPT ![call.id] = @ \cup {call.outcome.state}]
                     ELSE acknowledged

AckSpec == AckInit /\ [][AckNext]_ackVars

-----------------------------------------------------------------------------
(* Properties *)

\* An outcome that prepare, commit or abort answered for what it did itself is
\* in the durable live file until its generation is retired there: no kill, I/O
\* error or power loss takes it back.
AcknowledgedIsDurable == Remembers(LiveOf(durable), acknowledged)

\* No transaction is ever acknowledged as committed and as aborted.
AcknowledgedOnce == \A id \in Id : ~({"committed", "aborted"} \subseteq acknowledged[id])
=============================================================================
