----------------------------- MODULE MCOffline -----------------------------
(***************************************************************************)
(* Model checking of the three parts that run without the host, each on    *)
(* its own: a behaviour builds a batch of secret mutations, which is       *)
(* MCSecretBatch, runs the command line's build, or loads and lowers one   *)
(* graph of MCFlowGraph.  The parts that are not chosen stay in one        *)
(* initial state.                                                          *)
(***************************************************************************)
EXTENDS MCSecretBatch, BuildPipeline, MCFlowGraph, TLC

CONSTANTS alpha, beta, gamma   \* three providers, in the order of their names

MCOrder == <<alpha, beta, gamma>>
MCListing == <<alpha, Index, beta, gamma>>

VARIABLE part

offlineVars == <<vars, buildVars, flowVars, part>>

\* The other parts are checked beside one tree of definitions and one graph.
NothingDefined == \A p \in Provider : definition[p] = None
NothingDrawn ==
  /\ graph = Drawing(Base, NoNode) @@ [edges |-> {}]
  /\ problems = Unread /\ lowering = Unread

OfflineInit ==
  /\ Init /\ BuildInit
  /\ part \in {"batch", "build", "flow"}
  /\ part # "build" => NothingDefined
  /\ IF part = "flow" THEN FlowInit ELSE NothingDrawn

OfflineNext ==
  \/ part = "batch" /\ Next /\ UNCHANGED <<buildVars, flowVars, part>>
  \/ part = "build" /\ BuildNext /\ UNCHANGED <<vars, flowVars, part>>
  \/ part = "flow" /\ FlowNext /\ UNCHANGED <<vars, buildVars, part>>

OfflineSpec == OfflineInit /\ [][OfflineNext]_offlineVars
============================================================================
