---------------------------- MODULE MCFlowGraph ----------------------------
(***************************************************************************)
(* The graphs drawn for TLC: four nodes n1 to n4 in the order of their     *)
(* declaration and at most two edges, n5 is an id nobody declares.         *)
(***************************************************************************)
EXTENDS FlowGraph

CONSTANTS n1, n2, n3, n4, n5

Ids == {n1, n2, n3, n4}

Port(n) == [node |-> n, port |-> "out"]

\* Edges enter through a port named after the node they come from.
Plain(kind, region) ==
  [kind |-> kind, region |-> region, ins |-> Ids, required |-> {}, outs |-> {"out"},
   uses |-> Ids, resolves |-> TRUE, bounded |-> TRUE, delayed |-> FALSE, scalar |-> TRUE,
   cond |-> [left |-> Port(n1), exists |-> TRUE, right |-> FALSE]]

Region(kind, outs, region) == [Plain(kind, region) EXCEPT !.outs = outs]

GateOn(left, exists, region) ==
  [Region("gate", {}, region) EXCEPT
     !.cond = [left |-> Port(left), exists |-> exists, right |-> ~exists]]

\* What a region may be: what it exports, or the nodes a gate may ask about.
Regions(asked, forms, around) ==
  {Region(k, outs, around) : k \in {"approval", "retry"}, outs \in {{}, {"out"}}}
  \cup {GateOn(left, exists, around) : left \in asked, exists \in forms}

Drawing(nodes, output) == [decl |-> <<n1, n2, n3, n4>>, node |-> nodes, output |-> output]

\* One region, and every other node inside or outside of it.
OneRegion ==
  UNION {{Drawing([n \in Ids |-> IF n = r THEN region
                                 ELSE Plain("operation", IF n \in inside THEN r ELSE NoNode)],
                  NoNode) :
            region \in Regions(Ids \ {r}, BOOLEAN, NoNode),
            inside \in SUBSET (Ids \ {r})} : r \in Ids}

\* A region inside a region: one node in the inner, the last anywhere.
TwoRegions ==
  UNION {{Drawing([n \in Ids |-> IF n = t[1] THEN outer
                                 ELSE IF n = t[2] THEN inner
                                 ELSE IF n = t[3] THEN Plain("operation", t[2])
                                 ELSE Plain("operation", region)],
                  NoNode) :
            outer \in Regions(Ids \ {t[1], t[2], t[3]}, {FALSE}, NoNode),
            inner \in Regions(Ids \ {t[1], t[2], t[3]}, {FALSE}, t[1]),
            region \in {NoNode, t[1], t[2]}} :
          t \in {u \in Ids \X Ids \X Ids : Cardinality({u[1], u[2], u[3]}) = 3}}

\* A trigger, a selection from its event and a retried call, each with one
\* thing changed.
Base ==
  [n \in Ids |-> CASE n = n1 -> [Plain("trigger", NoNode) EXCEPT !.ins = {}]
                   [] n = n2 -> [Plain("select", NoNode) EXCEPT !.required = {n1}]
                   [] n = n3 -> Region("retry", {"out"}, NoNode)
                   [] n = n4 -> Plain("operation", n3)]

Kinds == RegionKind \cup BoundaryKind
         \cup {"operation", "select", "template", "object", "literal"}

Variants ==
  UNION {   {[Base EXCEPT ![n].kind = k] : k \in Kinds}
       \cup {[Base EXCEPT ![n].kind = k, ![n].outs = {}] : k \in Kinds}
       \cup {[Base EXCEPT ![n].kind = k, ![n].uses = {}] : k \in {"template", "object"}}
       \cup {[Base EXCEPT ![n].kind = k, ![n].ins = {n1}, ![n].uses = {n1}] : k \in {"template", "object"}}
       \cup {[Base EXCEPT ![n].kind = k, ![n].scalar = FALSE, ![n].outs = {}] : k \in {"literal", "gate"}}
       \cup {[Base EXCEPT ![n].region = r] : r \in Ids \cup {NoNode, n5}}
       \cup {[Base EXCEPT ![n].outs = outs] : outs \in {{}, {"out", "more"}}}
       \cup {[Base EXCEPT ![n].resolves = FALSE], [Base EXCEPT ![n].bounded = FALSE],
             [Base EXCEPT ![n].delayed = TRUE], [Base EXCEPT ![n].ins = {}]}
       \cup {[Base EXCEPT ![n] = [GateOn(left, exists, NoNode) EXCEPT !.cond.right = right]] :
               left \in {n2, n4, n5}, exists \in BOOLEAN, right \in BOOLEAN}
     : n \in Ids}

MCCanvas ==
  OneRegion \cup TwoRegions
  \cup {Drawing(nodes, output) : nodes \in Variants, output \in {NoNode, Port(n3)}}
  \cup {Drawing(Base, output) : output \in {Port(n2), Port(n4), Port(n5)}}

\* An edge enters through the port named after the node it comes from, or, by
\* mistake, through a port or a node nobody declared.
Edge(a, b) == [from |-> Port(a), to |-> [node |-> b, port |-> a]]

MCWiring ==
  LET pairs == {p \in Ids \X Ids : p[1] # p[2]}
  IN  {{Edge(p[1], p[2]) : p \in S} : S \in UNION {kSubset(k, pairs) : k \in 0..2}}
      \cup {{Edge(n1, n2), e} : e \in {Edge(n5, n2), Edge(n1, n5), Edge(n2, n2),
                                       [from |-> Port(n4), to |-> [node |-> n2, port |-> n1]]}}
============================================================================
