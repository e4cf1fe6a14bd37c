----------------------------- MODULE FlowGraph -----------------------------
(***************************************************************************)
(* Flow graphs (connector-spec, graph.rs and the graph part of provider.rs;*)
(* connector-flux, graph.rs): the loader's rules for a graph of nodes,     *)
(* edges and nested regions, and its lowering to the statements of one op. *)
(*                                                                         *)
(* A graph is drawn once, then loaded, and lowered if it was admitted.  It *)
(* declares every id once.  A symbol is the port that binds it, <<id,      *)
(* port>>: the allocator's spelling, the types and the metadata of the op, *)
(* the text of paths and templates and Flux's own reading of the text are  *)
(* left out, and so is which of several refusals is the one answered.      *)
(***************************************************************************)
EXTENDS Naturals, Sequences, FiniteSets, SequencesExt, FiniteSetsExt, Filtering

CONSTANTS
  Canvas,   \* what may be drawn: nodes, their order, the output
  Wiring,   \* the sets of edges that may be drawn
  NoNode,   \* no region, no output; as a block, the body of the op
  Unread    \* not loaded, not lowered

\* Every id is declared once; which nodes a region has is up to the drawing.
ASSUME CanvasAssumption ==
  \A canvas \in Canvas :
    LET ids == DOMAIN canvas.node
    IN  /\ IsFiniteSet(ids) /\ NoNode \notin ids
        /\ canvas.decl \in Seq(ids) /\ Range(canvas.decl) = ids
        /\ IsInjective(canvas.decl)
ASSUME UnreadAssumption == Unread # {}

VARIABLES
  graph,     \* the graph as it was drawn
  problems,  \* what the loader found wrong with it, or Unread
  lowering   \* the lowered op or the refusals, or Unread

flowVars == <<graph, problems, lowering>>

RegionKind == {"gate", "approval", "retry", "throttle"}
BoundaryKind == {"trigger", "schedule", "endpoint"}

Id == DOMAIN graph.node
KindOf(n) == graph.node[n].kind
IsRegion(n) == KindOf(n) \in RegionKind
IsBoundary(n) == KindOf(n) \in BoundaryKind

\* enclosing: the regions around n, innermost first; it has an answer only if
\* every region is a node and none is met twice.
Enclosing(n) ==
  LET walk[k \in 0..Cardinality(Id)] ==
        IF k = 0 THEN <<n>>
        ELSE LET chain == walk[k - 1] IN
             IF Last(chain) \notin Id \/ graph.node[Last(chain)].region = NoNode THEN chain
             ELSE Append(chain, graph.node[Last(chain)].region)
  IN  Tail(walk[Cardinality(Id)])

Contained(n) ==
  /\ Range(Enclosing(n)) \subseteq Id
  /\ Len(Enclosing(n)) < Cardinality(Id)

\* Kahn's algorithm over ids listed in declaration order: the earliest of the
\* ids that wait for nobody comes next.  Short of the whole list on a cycle.
InOrder(ids, before) ==
  LET take[k \in 0..Len(ids)] ==
        IF k = 0 THEN <<>>
        ELSE LET done == take[k - 1]
                 waits(n) == \E pair \in before : pair[2] = n /\ pair[1] \notin Range(done)
                 ready == {i \in DOMAIN ids : ids[i] \notin Range(done) /\ ~waits(ids[i])}
             IN  IF ready = {} THEN done ELSE Append(done, ids[Min(ready)])
  IN  take[Len(ids)]

Acyclic ==
  LET edges == {<<e.from.node, e.to.node>> : e \in graph.edges}
  IN  Len(InOrder(graph.decl, edges)) = Len(graph.decl)

-----------------------------------------------------------------------------
(* The loader *)

\* validate_graph_nodes: references, bounds, and what a boundary or a gate may
\* declare.
NodeProblems(n) ==
  LET node == graph.node[n]
      named(what, wrong) == IF wrong THEN {<<what, n>>} ELSE {}
  IN  UNION {
        named("reference", ~node.resolves
                /\ node.kind \in {"operation", "trigger", "endpoint", "select"}),
        named("field", node.kind = "object" /\ ~(node.uses \subseteq node.ins)),
        named("bound", node.kind \in {"retry", "throttle"} /\ ~node.bounded),
        named("boundary input", IsBoundary(n) /\ node.ins # {}),
        named("boundary region", IsBoundary(n) /\ node.region # NoNode),
        named("gate output", node.kind = "gate" /\ node.outs # {}) }

\* validate_graph_structure
StructureProblems(n) ==
  LET region == graph.node[n].region
  IN  (IF region # NoNode /\ (region \notin Id \/ ~IsRegion(region))
       THEN {<<"region", n>>} ELSE {})
      \cup (IF region # NoNode /\ ~Contained(n) THEN {<<"containment", n>>} ELSE {})

\* endpoint
EndProblems(ref, side) ==
  IF ref.node \notin Id THEN {<<"no node", ref>>}
  ELSE IF ref.port \notin graph.node[ref.node][side] THEN {<<"no port", ref>>}
  ELSE {}

\* Mutant of Escapes: only the innermost region of the source is asked.
EscapesInnermost(e) ==
  /\ {e.from.node, e.to.node} \subseteq Id
  /\ Contained(e.from.node) /\ Contained(e.to.node)
  /\ Enclosing(e.from.node) # <<>>
  /\ LET r == Head(Enclosing(e.from.node))
     IN  r \notin Range(Enclosing(e.to.node)) /\ e.from.port \notin graph.node[r].outs

\* validate_graph_edges: the value leaves a region that declares no such port.
Escapes(e) ==
  /\ {e.from.node, e.to.node} \subseteq Id
  /\ Contained(e.from.node) /\ Contained(e.to.node)
  /\ \E r \in Range(Enclosing(e.from.node)) \ Range(Enclosing(e.to.node)) :
       e.from.port \notin graph.node[r].outs

Problems ==
  (UNION {NodeProblems(n) \cup StructureProblems(n) : n \in Id})
  \cup (IF Acyclic THEN {} ELSE {<<"cycle", NoNode>>})
  \cup (UNION {EndProblems(e.from, "outs") \cup EndProblems(e.to, "ins") : e \in graph.edges})
  \cup {<<"escapes", e>> : e \in {x \in graph.edges : Escapes(x)}}
  \cup (IF graph.output = NoNode THEN {} ELSE EndProblems(graph.output, "outs"))

LoadGraph ==
  /\ problems = Unread
  /\ problems' = Problems
  /\ UNCHANGED <<graph, lowering>>

-----------------------------------------------------------------------------
(* The symbol table *)

Producers(region, port) ==
  {n \in Id : graph.node[n].region = region /\ port \in graph.node[n].outs}

Emitted == {n \in Id : ~IsBoundary(n)}

\* check_output_shape, producer_of and check_durations.
ShapeRefusals(n) ==
  LET node == graph.node[n]
  IN  (IF \/ node.kind = "gate" /\ node.outs # {}
          \/ node.kind = "retry" /\ Cardinality(node.outs) > 1
          \/ ~IsRegion(n) /\ Cardinality(node.outs) > 1
       THEN {<<"output shape", n>>} ELSE {})
      \cup {<<"region output", n>> : p \in
              {q \in node.outs : IsRegion(n) /\ Cardinality(Producers(n, q)) # 1}}
      \cup (IF node.kind = "throttle" \/ (node.kind = "retry" /\ node.delayed)
            THEN {<<"duration", n>>} ELSE {})

\* Lowering::new refuses before anything is emitted.
TableRefusals ==
  IF (\A n \in Id : Contained(n)) /\ Acyclic
  THEN UNION {ShapeRefusals(n) : n \in Emitted}
  ELSE {<<"cycle", NoNode>>}

\* The one node that binds a port: a retry binds its own, what another region
\* exports was bound by its body.
Producer(n, port) == CHOOSE m \in Producers(n, port) : TRUE

\* From a region to the node that binds its port, at most as often as there are
\* nodes, and no further than a node whose kind stops it.
Inwards(ref, stops) ==
  LET walk[k \in 0..Cardinality(Id)] ==
        IF k = 0 THEN ref.node
        ELSE LET n == walk[k - 1] IN
             IF IsRegion(n) /\ KindOf(n) \notin stops THEN Producer(n, ref.port) ELSE n
  IN  walk[Cardinality(Id)]

\* local_symbol
LocalSymbol(ref) == <<Inwards(ref, {"retry"}), ref.port>>

\* producing_node: the plain node behind a port, a retry is looked through too.
ProducingNode(ref) == Inwards(ref, {})

\* The regions a value has to leave to be read inside `readers`.
Left(n, readers) ==
  LET chain == Enclosing(n)
      stays == {i \in DOMAIN chain : chain[i] \in readers}
  IN  IF stays = {} THEN chain ELSE SubSeq(chain, 1, Min(stays) - 1)

Declares(ref) == ref.node \in Id /\ ref.port \in graph.node[ref.node].outs

\* symbol_for: the refusals first, then the symbol; the bind of the last retry
\* the value leaves replaces the symbol it was bound to inside.
ReadRefusals(ref, readers, why) ==
  IF ~Declares(ref) THEN {<<"unknown", ref>>}
  ELSE IF \E r \in Range(Left(ref.node, readers)) : ref.port \notin graph.node[r].outs
  THEN {<<"crossing", why>>} ELSE {}

SymbolFor(ref, readers) ==
  LET left == Left(ref.node, readers)
      retries == {i \in DOMAIN left : KindOf(left[i]) = "retry"}
  IN  IF retries = {} THEN LocalSymbol(ref) ELSE <<left[Max(retries)], ref.port>>

-----------------------------------------------------------------------------
(* Emission *)

Into(n) == {e \in graph.edges : e.to.node = n}
Readers(n) == Range(Enclosing(n))
Fed(n) == {e.to.port : e \in Into(n)}

EdgeRefusals(n) == UNION {ReadRefusals(e.from, Readers(n), "edge") : e \in Into(n)}

\* One port is fed two values.
Undecided(n) ==
  \E e, f \in Into(n) :
    e.to.port = f.to.port /\ SymbolFor(e.from, Readers(n)) # SymbolFor(f.from, Readers(n))

\* inputs_of
InputRefusals(n) ==
  EdgeRefusals(n)
  \cup {<<"input port", n>> : p \in Fed(n) \ graph.node[n].ins}
  \cup (IF EdgeRefusals(n) = {} /\ Undecided(n) THEN {<<"two edges", n>>} ELSE {})
  \cup {<<"unfed", n>> : p \in graph.node[n].required \ Fed(n)}

\* refuse_select_on_an_operation, of the one input that is fed.
SelectsResponse(n) ==
  \E e \in Into(n) : Declares(e.from) /\ KindOf(ProducingNode(e.from)) = "operation"

\* emit_node and condition, up to the statement they push.
KindRefusals(n) ==
  LET node == graph.node[n]
      values == {"select", "template", "object", "literal"}
      refused ==
        CASE node.kind = "operation" -> ~node.resolves \/ ~(Fed(n) \subseteq node.uses)
          [] node.kind = "select"    -> Cardinality(Fed(n)) # 1 \/ SelectsResponse(n)
          [] node.kind = "template"  -> ~(node.uses \subseteq Fed(n)) \/ ~(node.ins \subseteq node.uses)
          [] node.kind = "object"    -> node.uses = {} \/ ~(node.uses \subseteq Fed(n))
          [] node.kind = "literal"   -> ~node.scalar
          [] node.kind = "gate"      -> node.cond.exists = node.cond.right \/ (node.cond.right /\ ~node.scalar)
          [] OTHER                   -> FALSE
  IN  (IF refused \/ (node.kind \in values /\ node.outs = {}) THEN {<<"unlowerable", n>>} ELSE {})
      \cup (IF node.kind = "gate" THEN ReadRefusals(node.cond.left, Readers(n), "condition") ELSE {})

Children(block) ==
  Kept(graph.decl, {n \in Emitted : graph.node[n].region = block})

\* Mutant of Owned: an edge orders a block only if both its ends are in it.
OwnedDirectly(child, n) == child = n

\* The child is the node or contains it.
Owned(child, n) == child = n \/ child \in Range(Enclosing(n))

\* order: the children of a block, over the edges collapsed onto them.
Ordered(block) ==
  LET children == Children(block)
      before == {p \in Range(children) \X Range(children) :
                   p[1] # p[2] /\ \E e \in graph.edges :
                     Owned(p[1], e.from.node) /\ Owned(p[2], e.to.node)}
  IN  InOrder(children, before)

Blocks == {NoNode} \cup {n \in Id : IsRegion(n)}

EmissionRefusals ==
  (UNION {InputRefusals(n) \cup KindRefusals(n) : n \in Emitted})
  \cup {<<"cycle", b>> : b \in {x \in Blocks : Len(Ordered(x)) < Len(Children(x))}}
  \cup IF graph.output = NoNode THEN {} ELSE ReadRefusals(graph.output, {}, "output")

Statement(n, binds, opens, reads) == [node |-> n, binds |-> binds, opens |-> opens, reads |-> reads]

Read(ref, readers, why) == [from |-> ref.node, symbol |-> SymbolFor(ref, readers), why |-> why]

EdgeReads(n) == {Read(e.from, Readers(n), "edge") : e \in Into(n)}

\* A gate that compares binds its expected literal in a statement of its own,
\* ahead of the `when`; the statement belongs to no node.
Literal(n) == IF KindOf(n) = "gate" /\ ~graph.node[n].cond.exists
              THEN <<Statement(NoNode, {<<n, "expected">>}, NoNode, {})>> ELSE <<>>

\* The statement of a node; a region's inputs are checked and not read.
Own(n) ==
  LET bound == {<<n, p>> : p \in graph.node[n].outs}
  IN  CASE KindOf(n) = "gate"  ->
             Statement(n, {}, n, {Read(graph.node[n].cond.left, Readers(n), "condition")})
        [] KindOf(n) = "retry" -> Statement(n, bound, n, {})
        [] KindOf(n) \in {"approval", "throttle"} -> Statement(n, {}, n, {})
        [] OTHER -> Statement(n, bound, NoNode, EdgeReads(n))

\* What ends a block: a retry's body ends in the value it exports, the op
\* returns its output.
Closing(block) ==
  LET exported == IF block = NoNode
                  THEN IF graph.output = NoNode THEN {} ELSE {Read(graph.output, {}, "close")}
                  ELSE IF KindOf(block) # "retry" THEN {}
                  ELSE {Read([node |-> Producer(block, p), port |-> p], {block} \cup Readers(block), "close") :
                          p \in graph.node[block].outs}
  IN  IF exported = {} THEN <<>> ELSE <<Statement(NoNode, {}, NoNode, exported)>>

\* Mutant of Landing: the path is recorded before the literal is bound.
LandingEarly(n, out) == Len(out) + 1

\* The position at which the statement of n lands: record.
Landing(n, out) == Len(out) + Len(Literal(n)) + 1

\* emit_node on what its block has so far, and record.
Emit(acc, n) ==
  [out |-> acc.out \o Literal(n) \o <<Own(n)>>,
   at  |-> [acc.at EXCEPT ![n] = Landing(n, acc.out)]]

\* emit_region: the statements of one block and where each node landed.
EmitRegion(block) ==
  LET ordered == Ordered(block)
      emitted[k \in 0..Len(ordered)] ==
        IF k = 0 THEN [out |-> <<>>, at |-> [n \in Emitted |-> 0]]
        ELSE Emit(emitted[k - 1], ordered[k])
      done == emitted[Len(ordered)]
  IN  [out |-> done.out \o Closing(block), at |-> done.at]

\* NodePaths: the positions of the blocks around a node, and its own.
PathTo(n, emitted) ==
  LET inwards == Reverse(<<n>> \o Enclosing(n))
  IN  [i \in DOMAIN inwards |-> emitted[graph.node[inwards[i]].region].at[inwards[i]]]

Lowered ==
  LET emitted == [b \in Blocks |-> EmitRegion(b)]
  IN  [refusals |-> {}, body |-> [b \in Blocks |-> emitted[b].out],
       paths |-> [n \in Emitted |-> PathTo(n, emitted)]]

Refused(refusals) == [refusals |-> refusals, body |-> <<>>, paths |-> <<>>]

\* emit_graph_with_paths, on a graph the loader admitted.
LowerGraph ==
  /\ problems = {} /\ lowering = Unread
  /\ lowering' = IF TableRefusals # {} THEN Refused(TableRefusals)
                 ELSE IF EmissionRefusals # {} THEN Refused(EmissionRefusals)
                 ELSE Lowered
  /\ UNCHANGED <<graph, problems>>

FlowInit ==
  /\ \E canvas \in Canvas, edges \in Wiring :
       graph = [decl |-> canvas.decl, node |-> canvas.node, output |-> canvas.output,
                edges |-> edges]
  /\ problems = Unread
  /\ lowering = Unread

FlowNext == LoadGraph \/ LowerGraph

FlowSpec == FlowInit /\ [][FlowNext]_flowVars

-----------------------------------------------------------------------------
(* Properties *)

IsLowered == lowering # Unread /\ lowering.refusals = {}

\* External, Flux: a symbol is bound by the statements before it in its block
\* and around its block; an approval or a throttle that ends has run its body,
\* so what the body bound stays bound; after a `when` or a retry it does not.
Stays(s, after) ==
  s.binds \cup (IF s.opens # NoNode /\ KindOf(s.opens) \in {"approval", "throttle"}
                THEN after[s.opens] ELSE {})

After ==
  LET after[b \in Blocks] == UNION {Stays(s, after) : s \in Range(lowering.body[b])}
  IN  after

\* Bound by the first statements of a block, up to the i-th.
BoundBefore(b, i) == UNION {Stays(lowering.body[b][j], After) : j \in 1..(i - 1)}

Entry ==
  LET entry[b \in Blocks] ==
        IF b = NoNode
        THEN UNION {{<<n, p>> : p \in graph.node[n].outs} : n \in Id \ Emitted}
        ELSE LET around == graph.node[b].region
             IN  entry[around] \cup BoundBefore(around, Last(lowering.paths[b]))
  IN  entry

Bound(b, i) == Entry[b] \cup BoundBefore(b, i)

Reads(b, i) == lowering.body[b][i].reads

\* An edge from the node that is read ends at the reader or inside it, and the
\* reader is not inside the node that it reads.  The loader admits an edge from a
\* region's output to a node of that region, too; EveryEdgeIsBound is about it.
Drawn(b, i, r) ==
  LET n == lowering.body[b][i].node
  IN  /\ \E e \in graph.edges : e.from.node = r.from /\ n # NoNode /\ Owned(n, e.to.node)
      /\ r.from \notin Range(Enclosing(n))

\* In the op of an admitted graph every value that flows out of a retry, into the
\* op's answer, or along an edge that does not lead from a region into itself is
\* bound, in scope, where it is read: order and symbol_for together.  So is the
\* value a gate compares if such an edge leads from it to the gate or into it.
\* Without one the declaration order decides alone, and the gate may ask before
\* the value is bound.
EdgesAreBound ==
  IsLowered =>
    \A b \in Blocks : \A i \in DOMAIN lowering.body[b] : \A r \in Reads(b, i) :
      r.why = "close" \/ Drawn(b, i, r) => r.symbol \in Bound(b, i)

\* Every value that flows along an edge is bound where it is read, the output of
\* a region that a node inside it reads included: what the comment of order says.
EveryEdgeIsBound ==
  IsLowered =>
    \A b \in Blocks : \A i \in DOMAIN lowering.body[b] : \A r \in Reads(b, i) :
      r.why = "edge" => r.symbol \in Bound(b, i)

\* The statement a path leads to, one block further in at each position.
Home(path) ==
  LET block[i \in 0..(Len(path) - 1)] ==
        IF i = 0 THEN NoNode ELSE lowering.body[block[i - 1]][path[i]].opens
  IN  lowering.body[block[Len(path) - 1]][Last(path)]

Places(n) ==
  UNION {{<<b, i>> : i \in {j \in DOMAIN lowering.body[b] : lowering.body[b][j].node = n}} :
           b \in Blocks}

\* The path map leads from the body of the op to the one statement of each node,
\* and to every node that is emitted, whatever was bound ahead of it.
PathsLeadHome ==
  IsLowered => \A n \in Emitted : Home(lowering.paths[n]).node = n /\ Cardinality(Places(n)) = 1

\* The two copies of the rule that a value leaves a region through a declared
\* port agree: no edge the loader admitted is refused by the lowering.
CrossingsAgree ==
  lowering # Unread => <<"crossing", "edge">> \notin lowering.refusals
=============================================================================
