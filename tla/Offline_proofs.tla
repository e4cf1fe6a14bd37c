-------------------------- MODULE Offline_proofs --------------------------
(***************************************************************************)
(* Proofs about the parts that run without the host, for every value of    *)
(* their constants.                                                        *)
(*                                                                         *)
(* The batch of secret mutations: the builder keeps the operations apart,  *)
(* no two of them name a common address and all names are in the scope     *)
(* (Apart).  For such a sequence the fold of batch.rs is followed step by  *)
(* step: what it has done after n operations is what these n do to the     *)
(* first entries, each on its own (DoneBy).                                *)
(*                                                                         *)
(* The build: while it compiles, the indices claimed so far are the        *)
(* results and the claims in progress (Claimed); joined and sorted, they   *)
(* are the results of the first providers in order.  While it applies, its *)
(* plan is to write what is generated, and all of it that is not there yet *)
(* (PlanHolds).                                                            *)
(*                                                                         *)
(* Flow graphs: what the loader and the lowering answer is what they       *)
(* compute from the graph that was drawn (FlowInv).  If neither refuses    *)
(* it, the regions around a node are a chain that ends in the body of the  *)
(* op (EnclosingFacts), a block has a statement of each of its members,    *)
(* after those it depends on (InBlock), and a value leaves its regions     *)
(* bound, up to the block it shares with its reader (Arrives).             *)
(*                                                                         *)
(* All three rest on induction over an initial segment of the naturals.    *)
(***************************************************************************)
EXTENDS MCSecretBatch, BuildPipeline, FlowGraph, FiniteSetTheorems, TLAPS

-----------------------------------------------------------------------------
(* Induction and recursion over an initial segment of the naturals *)

\* The sets 0 .. n of the naturals missing from S have a least one, as strict
\* inclusion of finite sets is well-founded.
LEMMA SetInduction ==
  ASSUME NEW S, 0 \in S, \A n \in Nat : n \in S => n + 1 \in S
  PROVE  Nat \subseteq S
<1> SUFFICES ASSUME NEW m \in Nat, m \notin S
             PROVE  FALSE
  OBVIOUS
<1> DEFINE T == {0 .. n : n \in {k \in Nat : k \notin S}}
<1>1. T \subseteq FiniteSubsetsOf(Nat)
  <2> SUFFICES ASSUME NEW n \in Nat
               PROVE  0 .. n \in FiniteSubsetsOf(Nat)
    OBVIOUS
  <2>1. IsFiniteSet(0 .. n) /\ 0 .. n \subseteq Nat
    BY FS_Interval
  <2>2. QED
    BY <2>1 DEF FiniteSubsetsOf
<1>2. T # {}
  OBVIOUS
<1>3. PICK x \in T : \A y \in T : <<y, x>> \notin StrictSubsetOrdering(Nat)
  <2> HIDE DEF T
  <2>1. IsWellFoundedOn(StrictSubsetOrdering(Nat), FiniteSubsetsOf(Nat))
    BY FS_StrictSubsetOrderingWellFounded
  <2>2. QED
    BY <1>1, <1>2, <2>1, WFMin
<1>4. PICK n \in Nat : n \notin S /\ x = 0 .. n
  OBVIOUS
<1>5. n # 0 /\ n - 1 \in Nat /\ (n - 1) + 1 = n
  BY <1>4
<1>6. 0 .. (n - 1) \in T
  BY <1>4, <1>5
<1>7. <<0 .. (n - 1), x>> \in StrictSubsetOrdering(Nat)
  <2>1. 0 .. (n - 1) \subseteq Nat /\ x \subseteq Nat /\ 0 .. (n - 1) \subseteq x
    BY <1>4
  <2>2. n \in x /\ n \notin 0 .. (n - 1)
    BY <1>4
  <2> HIDE DEF T
  <2>3. QED
    BY <2>1, <2>2 DEF StrictSubsetOrdering
<1>8. QED
  BY <1>3, <1>6, <1>7

\* The results of n steps on X.
ResultsOf(g, X, base, N, F) ==
  /\ g \in [0 .. N -> X]
  /\ g[0] = base /\ \A k \in 1 .. N : g[k] = F[<<g[k - 1], k>>]

\* A step on X has its sequence of results from any start.
LEMMA StepsHaveResults ==
  ASSUME NEW X, NEW base \in X, NEW N \in Nat, NEW F \in [X \X (1 .. N) -> X]
  PROVE  \E g : ResultsOf(g, X, base, N, F)
<1> DEFINE Follows(g, n) == g[0] = base /\ \A k \in 1 .. n : g[k] = F[<<g[k - 1], k>>]
           S == {n \in Nat : n <= N => \E g \in [0 .. n -> X] : Follows(g, n)}
<1>1. 0 \in S
  <2>1. [n \in 0 .. 0 |-> base] \in [0 .. 0 -> X] /\ Follows([n \in 0 .. 0 |-> base], 0)
    OBVIOUS
  <2>2. QED
    BY <2>1
<1>2. ASSUME NEW n \in Nat, n \in S
      PROVE  n + 1 \in S
  <2> SUFFICES ASSUME n + 1 <= N
               PROVE  \E g \in [0 .. (n + 1) -> X] : Follows(g, n + 1)
    OBVIOUS
  <2>1. PICK g \in [0 .. n -> X] : Follows(g, n)
    BY <1>2
  <2> DEFINE h == [k \in 0 .. (n + 1) |-> IF k = n + 1 THEN F[<<g[n], n + 1>>] ELSE g[k]]
  <2>2. g[n] \in X /\ n + 1 \in 1 .. N
    BY <2>1
  <2>3. F[<<g[n], n + 1>>] \in X
    BY <2>2
  <2>4. h \in [0 .. (n + 1) -> X]
    BY <2>1, <2>3
  <2>5. Follows(h, n + 1)
    <3>1. h[0] = base
      BY <2>1
    <3>2. ASSUME NEW k \in 1 .. (n + 1)
          PROVE  h[k] = F[<<h[k - 1], k>>]
      <4>1. CASE k = n + 1
        <5>1. h[n + 1] = F[<<g[n], n + 1>>] /\ h[n] = g[n] /\ k - 1 = n
          BY <4>1
        <5>2. QED
          BY <4>1, <5>1
      <4>2. CASE k # n + 1
        BY <2>1, <4>2
      <4>3. QED
        BY <4>1, <4>2
    <3>3. QED
      BY <3>1, <3>2
  <2>6. QED
    BY <2>4, <2>5
<1> HIDE DEF S
<1>3. N \in S
  BY <1>1, <1>2, SetInduction
<1>4. PICK g \in [0 .. N -> X] : Follows(g, N)
  BY <1>3 DEF S
<1>5. QED
  BY <1>4 DEF ResultsOf

-----------------------------------------------------------------------------
(* One operation *)

Progress == [ok : BOOLEAN, entries : Entries]

RefusedBy(e, m) == m.op = "move" /\ (e[m.from] = NoValue \/ e[m.to] # NoValue)

LEMMA MutationKinds ==
  ASSUME NEW m \in Mutation
  PROVE  \/ m.op = "move" /\ m.from \in Addr /\ m.to \in Addr /\ Named(m) = {m.from, m.to}
         \/ m.op = "put" /\ m.at \in Addr /\ m.secret \in Val /\ Named(m) = {m.at}
         \/ m.op = "delete" /\ m.at \in Addr /\ Named(m) = {m.at}
BY DEF Mutation, Move, PutAt, DeleteAt, Named

\* An operation on entries that it does not refuse has its effect on the addresses
\* it names and no other; a refused one, or one after it, leaves the failure.
LEMMA OneApplied ==
  ASSUME NEW acc \in Progress, NEW m \in Mutation
  PROVE  LET then == ApplyOne(acc, m)
         IN  /\ then \in Progress
             /\ then.ok = (acc.ok /\ ~RefusedBy(acc.entries, m))
             /\ then.ok => \A a \in Addr :
                  then.entries[a] = IF a \in Named(m) THEN Effect(acc.entries, m, a)
                                    ELSE acc.entries[a]
<1>1. acc.ok \in BOOLEAN /\ acc.entries \in Entries
  BY DEF Progress
<1>2. CASE m.op = "move"
  BY <1>1, <1>2, MutationKinds DEF Progress, ApplyOne, RefusedBy, Effect, Entries
<1>3. CASE m.op = "put"
  BY <1>1, <1>3, MutationKinds DEF Progress, ApplyOne, RefusedBy, Effect, Entries
<1>4. CASE m.op = "delete"
  BY <1>1, <1>4, MutationKinds DEF Progress, ApplyOne, RefusedBy, Effect, Entries
<1>5. QED
  BY <1>2, <1>3, <1>4, MutationKinds

-----------------------------------------------------------------------------
(* A batch *)

\* What the builder keeps: the addresses of the operations are in scope and no
\* two operations name a common one.
Apart(s) ==
  /\ s \in Seq(Mutation)
  /\ \A i \in DOMAIN s : Named(s[i]) \subseteq Scope
  /\ \A i, j \in DOMAIN s : i # j => Named(s[i]) \cap Named(s[j]) = {}

\* What n operations have done to e, each of them as if it were alone.
DoneBy(e, s, n, acc) ==
  /\ acc \in Progress
  /\ acc.ok = \A k \in 1 .. n : ~RefusedBy(e, s[k])
  /\ acc.ok =>
       /\ \A k \in 1 .. n : \A a \in Named(s[k]) : acc.entries[a] = Effect(e, s[k], a)
       /\ \A a \in Addr : (\A k \in 1 .. n : a \notin Named(s[k])) => acc.entries[a] = e[a]

\* The next operation finds what was there at first at every address it names.
LEMMA NextApplied ==
  ASSUME NEW e \in Entries, NEW s, Apart(s), NEW n \in Nat, n + 1 \in DOMAIN s,
         NEW acc, DoneBy(e, s, n, acc)
  PROVE  DoneBy(e, s, n + 1, ApplyOne(acc, s[n + 1]))
<1> DEFINE m == s[n + 1]
           then == ApplyOne(acc, m)
<1>1. /\ m \in Mutation /\ acc \in Progress /\ Named(m) \subseteq Addr
      /\ \A k \in 1 .. n : k \in DOMAIN s /\ Named(s[k]) \cap Named(m) = {}
  BY MutationKinds DEF Apart, DoneBy
<1>2. acc.ok => \A a \in Named(m) : acc.entries[a] = e[a]
  BY <1>1 DEF DoneBy
<1>3. acc.ok => /\ RefusedBy(acc.entries, m) = RefusedBy(e, m)
                /\ \A a \in Named(m) : Effect(acc.entries, m, a) = Effect(e, m, a)
  BY <1>1, <1>2, MutationKinds DEF RefusedBy, Effect
<1>4. /\ then \in Progress
      /\ then.ok = (acc.ok /\ ~RefusedBy(acc.entries, m))
      /\ then.ok => \A a \in Addr :
           then.entries[a] = IF a \in Named(m) THEN Effect(acc.entries, m, a)
                             ELSE acc.entries[a]
  BY <1>1, OneApplied
<1> HIDE DEF then
<1>5. 1 .. (n + 1) = (1 .. n) \cup {n + 1}
  OBVIOUS
<1>6. then.ok = \A k \in 1 .. (n + 1) : ~RefusedBy(e, s[k])
  BY <1>3, <1>4, <1>5 DEF DoneBy
<1>7. ASSUME then.ok
      PROVE  /\ \A k \in 1 .. (n + 1) : \A a \in Named(s[k]) : then.entries[a] = Effect(e, s[k], a)
             /\ \A a \in Addr :
                  (\A k \in 1 .. (n + 1) : a \notin Named(s[k])) => then.entries[a] = e[a]
  <2>1. acc.ok
    BY <1>4, <1>7
  <2>2. \A a \in Named(m) : then.entries[a] = Effect(e, m, a)
    BY <1>1, <1>3, <1>4, <1>7, <2>1
  <2>3. \A k \in 1 .. n : \A a \in Named(s[k]) : a \in Addr /\ a \notin Named(m)
    BY <1>1, MutationKinds DEF Apart
  <2>4. \A k \in 1 .. n : \A a \in Named(s[k]) : then.entries[a] = Effect(e, s[k], a)
    BY <1>4, <1>7, <2>1, <2>3 DEF DoneBy
  <2>5. \A a \in Addr : (\A k \in 1 .. (n + 1) : a \notin Named(s[k])) => then.entries[a] = e[a]
    BY <1>4, <1>5, <1>7, <2>1 DEF DoneBy
  <2>6. QED
    BY <1>5, <2>2, <2>4, <2>5
<1>8. DoneBy(e, s, n + 1, then)
  BY <1>4, <1>6, <1>7 DEF DoneBy
<1>9. QED
  BY <1>8 DEF then

\* The fold of the whole sequence.
LEMMA ApplyDone ==
  ASSUME NEW e \in Entries, NEW s, Apart(s)
  PROVE  DoneBy(e, s, Len(s), ApplyTo(e, s))
<1> DEFINE N == Len(s)
           base == [ok |-> TRUE, entries |-> e]
           F == [p \in Progress \X (1 .. N) |-> ApplyOne(p[1], s[p[2]])]
<1>1. N \in Nat /\ DOMAIN s = 1 .. N /\ \A k \in 1 .. N : s[k] \in Mutation
  BY DEF Apart
<1>2. base \in Progress /\ F \in [Progress \X (1 .. N) -> Progress]
  BY <1>1, OneApplied DEF Progress
<1>3. PICK g : ResultsOf(g, Progress, base, N, F)
  <2> HIDE DEF F, base, N
  <2>1. QED
    BY <1>1, <1>2, StepsHaveResults
<1> USE DEF ResultsOf
<1>4. \A k \in 1 .. N : g[k - 1] \in Progress /\ g[k] = ApplyOne(g[k - 1], s[k])
  <2> SUFFICES ASSUME NEW k \in 1 .. N
               PROVE  g[k - 1] \in Progress /\ g[k] = ApplyOne(g[k - 1], s[k])
    OBVIOUS
  <2>1. g[k - 1] \in Progress
    BY <1>1, <1>3
  <2>2. <<g[k - 1], k>> \in Progress \X (1 .. N)
    BY <2>1
  <2>3. QED
    BY <1>3, <2>1, <2>2
<1> DEFINE Follows(f) == f = [n \in 0 .. N |-> IF n = 0 THEN base ELSE ApplyOne(f[n - 1], s[n])]
           after == CHOOSE f : Follows(f)
<1>5. Follows(g)
  BY <1>3, <1>4
<1>6. Follows(after)
  BY <1>5
<1>7. ApplyTo(e, s) = after[N]
  BY DEF ApplyTo
<1> HIDE DEF after
<1>8. after[0] = base /\ \A n \in 1 .. N : after[n] = ApplyOne(after[n - 1], s[n])
  <2>1. \A n \in 0 .. N : after[n] = IF n = 0 THEN base ELSE ApplyOne(after[n - 1], s[n])
    <3> HIDE DEF base
    <3>1. QED
      BY <1>6
  <2>2. ASSUME NEW n \in 1 .. N
        PROVE  n \in 0 .. N /\ n # 0
    BY <1>1
  <2>3. 0 \in 0 .. N
    BY <1>1
  <2> HIDE DEF base, N
  <2>4. QED
    BY <2>1, <2>2, <2>3
<1> DEFINE S == {n \in Nat : n <= N => DoneBy(e, s, n, after[n])}
<1>9. 0 \in S
  <2>1. base.ok = TRUE /\ base.entries = e /\ base \in Progress
    BY <1>2
  <2> HIDE DEF base
  <2>2. 1 .. 0 = {}
    OBVIOUS
  <2>3. DoneBy(e, s, 0, base)
    BY <2>1, <2>2 DEF DoneBy
  <2>4. QED
    BY <1>8, <2>3
<1>10. ASSUME NEW n \in Nat, n \in S
       PROVE  n + 1 \in S
  <2> SUFFICES ASSUME n + 1 <= N
               PROVE  DoneBy(e, s, n + 1, after[n + 1])
    OBVIOUS
  <2>1. n + 1 \in 1 .. N /\ DoneBy(e, s, n, after[n])
    BY <1>1, <1>10
  <2>2. after[n + 1] = ApplyOne(after[n], s[n + 1])
    BY <1>8, <2>1
  <2>3. QED
    BY <1>1, <2>1, <2>2, NextApplied
<1> HIDE DEF S
<1>11. N \in S
  BY <1>1, <1>9, <1>10, SetInduction
<1>12. QED
  BY <1>1, <1>7, <1>11 DEF S

\* The fold computes the order-free outcome that the stores are specified with.
LEMMA AppliedOutcome ==
  ASSUME NEW e \in Entries, NEW s, Apart(s)
  PROVE  /\ ApplyTo(e, s).ok = ~Refuses(e, Range(s))
         /\ ApplyTo(e, s).ok => ApplyTo(e, s).entries = Outcome(e, Range(s))
<1> DEFINE done == ApplyTo(e, s)
           ms == Range(s)
<1>1. DoneBy(e, s, Len(s), done)
  BY ApplyDone
<1>2. /\ DOMAIN s = 1 .. Len(s) /\ \A k \in DOMAIN s : s[k] \in Mutation
      /\ \A m : m \in ms <=> \E k \in 1 .. Len(s) : m = s[k]
  BY DEF Apart, Range
<1> HIDE DEF done, ms
<1>3. done.ok = ~Refuses(e, ms)
  <2>1. Refuses(e, ms) <=> \E m \in ms : RefusedBy(e, m)
    BY DEF Refuses, RefusedBy
  <2>2. Refuses(e, ms) <=> \E k \in 1 .. Len(s) : RefusedBy(e, s[k])
    BY <1>2, <2>1
  <2>3. Refuses(e, ms) \in BOOLEAN
    BY DEF Refuses
  <2>4. QED
    BY <1>1, <2>2, <2>3 DEF DoneBy
<1>4. ASSUME done.ok
      PROVE  done.entries = Outcome(e, ms)
  <2>1. ASSUME NEW a \in Addr
        PROVE  done.entries[a] = IF \E m \in ms : a \in Named(m)
                                 THEN Effect(e, CHOOSE m \in ms : a \in Named(m), a)
                                 ELSE e[a]
    <3>1. CASE \E m \in ms : a \in Named(m)
      <4> DEFINE m == CHOOSE x \in ms : a \in Named(x)
      <4>1. m \in ms /\ a \in Named(m)
        BY <3>1
      <4>2. PICK k \in 1 .. Len(s) : m = s[k]
        BY <1>2, <4>1
      <4>3. done.entries[a] = Effect(e, m, a)
        BY <1>1, <1>4, <4>1, <4>2 DEF DoneBy
      <4>4. QED
        BY <3>1, <4>3
    <3>2. CASE ~ \E m \in ms : a \in Named(m)
      BY <1>1, <1>2, <1>4, <3>2 DEF DoneBy
    <3>3. QED
      BY <3>1, <3>2
  <2>2. done.entries \in Entries
    BY <1>1 DEF DoneBy, Progress
  <2>3. QED
    BY <2>1, <2>2 DEF Outcome, Entries
<1>5. QED
  BY <1>3, <1>4 DEF done, ms

\* A batch reads and writes its own scope.
LEMMA AppliedInScope ==
  ASSUME NEW e \in Entries, NEW f \in Entries, NEW s, Apart(s), \A a \in Scope : e[a] = f[a]
  PROVE  /\ ApplyTo(e, s).ok = ApplyTo(f, s).ok
         /\ ApplyTo(e, s).ok =>
              /\ \A a \in Scope : ApplyTo(e, s).entries[a] = ApplyTo(f, s).entries[a]
              /\ \A a \in Addr \ Scope : ApplyTo(e, s).entries[a] = e[a]
<1> DEFINE one == ApplyTo(e, s)
           other == ApplyTo(f, s)
<1>1. DoneBy(e, s, Len(s), one) /\ DoneBy(f, s, Len(s), other)
  BY ApplyDone
<1>2. \A k \in 1 .. Len(s) : s[k] \in Mutation /\ Named(s[k]) \subseteq Scope
  BY DEF Apart
<1> HIDE DEF one, other
<1>3. \A k \in 1 .. Len(s) : /\ RefusedBy(e, s[k]) = RefusedBy(f, s[k])
                             /\ \A a \in Named(s[k]) : Effect(e, s[k], a) = Effect(f, s[k], a)
  BY <1>2, MutationKinds DEF RefusedBy, Effect
<1>4. one.ok = other.ok
  BY <1>1, <1>3 DEF DoneBy
<1>5. ASSUME one.ok, NEW a \in Scope
      PROVE  one.entries[a] = other.entries[a]
  <2>1. CASE \E k \in 1 .. Len(s) : a \in Named(s[k])
    <3>1. PICK k \in 1 .. Len(s) : a \in Named(s[k])
      BY <2>1
    <3>2. one.entries[a] = Effect(e, s[k], a) /\ other.entries[a] = Effect(f, s[k], a)
      BY <1>1, <1>4, <1>5, <3>1 DEF DoneBy
    <3>3. Effect(e, s[k], a) = Effect(f, s[k], a)
      BY <1>3, <3>1
    <3>4. QED
      BY <3>2, <3>3
  <2>2. CASE \A k \in 1 .. Len(s) : a \notin Named(s[k])
    BY <1>1, <1>4, <1>5, <2>2, ScopeAssumption DEF DoneBy
  <2>3. QED
    BY <2>1, <2>2
<1>6. ASSUME one.ok, NEW a \in Addr \ Scope
      PROVE  one.entries[a] = e[a]
  BY <1>1, <1>2, <1>6 DEF DoneBy
<1>7. QED
  BY <1>4, <1>5, <1>6 DEF one, other

-----------------------------------------------------------------------------
(* The builder *)

Built ==
  /\ Apart(operations)
  /\ \A i \in DOMAIN operations : Named(operations[i]) \subseteq touched

LEMMA AddKeeps ==
  ASSUME Built, NEW m \in Mutation, Add(m)
  PROVE  Built'
<1> DEFINE n == Len(operations)
<1>1. /\ operations \in Seq(Mutation) /\ operations' = Append(operations, m)
      /\ touched' = touched \cup Named(m) /\ Named(m) \subseteq Scope \ touched
  BY DEF Built, Apart, Add, Admit
<1>2. /\ operations' \in Seq(Mutation) /\ DOMAIN operations' = DOMAIN operations \cup {n + 1}
      /\ n + 1 \notin DOMAIN operations /\ operations'[n + 1] = m
      /\ \A i \in DOMAIN operations : operations'[i] = operations[i]
  BY <1>1
<1>3. \A i \in DOMAIN operations' :
        Named(operations'[i]) \subseteq Scope /\ Named(operations'[i]) \subseteq touched'
  BY <1>1, <1>2 DEF Built, Apart
<1>4. \A i, j \in DOMAIN operations' :
        i # j => Named(operations'[i]) \cap Named(operations'[j]) = {}
  BY <1>1, <1>2 DEF Built, Apart
<1>5. QED
  BY <1>2, <1>3, <1>4 DEF Built, Apart

LEMMA BuilderKeeps == Spec => []Built
<1>1. Init => Built
  BY DEF Init, Built, Apart
<1>2. Built /\ [Next]_vars => Built'
  <2> SUFFICES ASSUME Built, [Next]_vars
               PROVE  Built'
    OBVIOUS
  <2>1. CASE UNCHANGED vars
    BY <2>1 DEF vars, Built, Apart
  <2>2. CASE \E m \in Mutation : Add(m)
    BY <2>2, AddKeeps
  <2>3. Next => \E m \in Mutation : Add(m)
    BY DEF Next, MoveSecret, Put, Delete, Mutation
  <2>4. QED
    BY <2>1, <2>2, <2>3
<1>3. QED
  BY <1>1, <1>2, PTL DEF Spec

\* Applying the operations one by one computes the order-free outcome the stores
\* are specified with, for batches of any length (batch.rs 111-141).
THEOREM BatchMatchesOutcome == Spec => []ApplyMatchesOutcome
<1>1. Built => ApplyMatchesOutcome
  BY AppliedOutcome DEF Built, ApplyMatchesOutcome
<1>2. QED
  BY <1>1, BuilderKeeps, PTL

\* A batch never changes, reads into or clears an address outside the tenant and
\* authority it is bound to (batch.rs 60-141).
THEOREM BatchScopeConfined == Spec => []ScopeConfined
<1>1. Built => ScopeConfined
  BY AppliedInScope DEF Built, ScopeConfined
<1>2. QED
  BY <1>1, BuilderKeeps, PTL

\* A reordering of operations that are apart is apart, and has the same ones.
LEMMA ReorderedApart ==
  ASSUME Apart(operations), NEW s \in Reorderings
  PROVE  Apart(s) /\ Range(s) = Range(operations)
<1> DEFINE D == DOMAIN operations
<1>1. PICK p \in [D -> D] : /\ \A i, j \in D : p[i] = p[j] => i = j
                            /\ s = [i \in D |-> operations[p[i]]]
  BY DEF Reorderings
<1>2. D = 1 .. Len(operations) /\ Len(operations) \in Nat /\ IsFiniteSet(D)
  BY FS_Interval DEF Apart
<1>3. s \in Seq(Mutation) /\ DOMAIN s = D
  BY <1>1, <1>2 DEF Apart
<1>4. \A j \in D : \E i \in D : p[i] = j
  <2>1. p \in Injection(D, D)
    BY <1>1 DEF Injection, IsInjective
  <2> HIDE DEF D
  <2>2. p \in Surjection(D, D)
    BY <1>2, <2>1, FS_Injection
  <2>3. QED
    BY <2>2 DEF Surjection
<1>5. Range(s) = Range(operations)
  BY <1>1, <1>3, <1>4 DEF Range
<1>6. Apart(s)
  BY <1>1, <1>3 DEF Apart
<1>7. QED
  BY <1>5, <1>6

\* The result of a batch is independent of the order of its operations (batch.rs
\* 9-10 promises this of admitting every address at most once).
THEOREM BatchOrderIndependent == Spec => []OrderIndependent
<1>1. Built => OrderIndependent
  BY AppliedOutcome, ReorderedApart DEF Built, OrderIndependent
<1>2. QED
  BY <1>1, BuilderKeeps, PTL

-----------------------------------------------------------------------------
(* What the build selects and sorts *)

LEMMA AppendRange ==
  ASSUME NEW S, NEW q \in Seq(S), NEW x \in S
  PROVE  Append(q, x) \in Seq(S) /\ Range(Append(q, x)) = Range(q) \cup {x}
<1>1. /\ Append(q, x) \in Seq(S) /\ DOMAIN Append(q, x) = 1 .. (Len(q) + 1)
      /\ DOMAIN q = 1 .. Len(q) /\ Len(q) \in Nat
  OBVIOUS
<1>2. Append(q, x)[Len(q) + 1] = x /\ \A i \in 1 .. Len(q) : Append(q, x)[i] = q[i]
  OBVIOUS
<1>3. 1 .. (Len(q) + 1) = (1 .. Len(q)) \cup {Len(q) + 1}
  BY <1>1
<1>4. QED
  BY <1>1, <1>2, <1>3 DEF Range

LEMMA AppendOnce ==
  ASSUME NEW S, NEW q \in Seq(S), NEW x \in S, IsInjective(q), x \notin Range(q)
  PROVE  IsInjective(Append(q, x))
<1>1. /\ DOMAIN Append(q, x) = 1 .. (Len(q) + 1) /\ DOMAIN q = 1 .. Len(q) /\ Len(q) \in Nat
      /\ Append(q, x)[Len(q) + 1] = x /\ \A i \in 1 .. Len(q) : Append(q, x)[i] = q[i]
  OBVIOUS
<1>2. \A i \in 1 .. (Len(q) + 1) : i \in 1 .. Len(q) \/ i = Len(q) + 1
  BY <1>1
<1>3. \A i \in 1 .. Len(q) : q[i] # x
  BY <1>1 DEF Range
<1>4. QED
  BY <1>1, <1>2, <1>3 DEF IsInjective

\* q with x in the w-th place.
Replaced(q, w, x) == [q EXCEPT ![w] = x]

LEMMA ReplacedInSeq ==
  ASSUME NEW S, NEW q \in Seq(S), NEW w, NEW x \in S
  PROVE  /\ Replaced(q, w, x) \in Seq(S) /\ Len(Replaced(q, w, x)) = Len(q)
         /\ DOMAIN Replaced(q, w, x) = DOMAIN q
<1> DEFINE r == [i \in 1 .. Len(q) |-> IF i = w THEN x ELSE q[i]]
<1>1. Len(q) \in Nat /\ DOMAIN q = 1 .. Len(q) /\ \A i \in 1 .. Len(q) : q[i] \in S
  OBVIOUS
<1>2. Replaced(q, w, x) = r
  BY <1>1 DEF Replaced
<1>3. r \in Seq(S) /\ Len(r) = Len(q) /\ DOMAIN r = 1 .. Len(q)
  BY <1>1
<1>4. QED
  BY <1>1, <1>2, <1>3

LEMMA FirstAndRest ==
  ASSUME NEW S, NEW q \in Seq(S), q # <<>>
  PROVE  /\ 1 \in DOMAIN q /\ Head(q) = q[1] /\ Head(q) \in S /\ Tail(q) \in Seq(S)
         /\ \A i \in DOMAIN Tail(q) : i + 1 \in DOMAIN q /\ Tail(q)[i] = q[i + 1]
         /\ \A i \in DOMAIN q : i # 1 => i - 1 \in DOMAIN Tail(q) /\ (i - 1) + 1 = i
<1>1. Len(q) \in Nat /\ Len(q) # 0 /\ DOMAIN q = 1 .. Len(q)
  OBVIOUS
<1>2. /\ Head(q) = q[1] /\ Tail(q) \in Seq(S) /\ DOMAIN Tail(q) = 1 .. (Len(q) - 1)
      /\ \A i \in 1 .. (Len(q) - 1) : Tail(q)[i] = q[i + 1]
  BY <1>1
<1>3. QED
  BY <1>1, <1>2

\* Selecting from a sequence leaves the selected elements that are in it, each
\* as often as it was in it.
LEMMA KeptElements ==
  ASSUME NEW S, NEW s \in Seq(S), NEW keep
  PROVE  /\ Kept(s, keep) \in Seq(S) /\ Range(Kept(s, keep)) = Range(s) \cap keep
         /\ IsInjective(s) => IsInjective(Kept(s, keep))
<1> DEFINE N == Len(s)
           X == Seq(S)
           base == <<>>
           Step(q, n) == IF s[n] \in keep THEN Append(q, s[n]) ELSE q
           F == [p \in X \X (1 .. N) |-> Step(p[1], p[2])]
<1>1. N \in Nat /\ DOMAIN s = 1 .. N /\ \A k \in 1 .. N : s[k] \in S
  OBVIOUS
<1>2. base \in X /\ F \in [X \X (1 .. N) -> X]
  BY <1>1
<1>3. PICK g : ResultsOf(g, X, base, N, F)
  <2> HIDE DEF F, N, X, base
  <2>1. QED
    BY <1>1, <1>2, StepsHaveResults
<1> USE DEF ResultsOf
<1>4. \A k \in 1 .. N : g[k] = Step(g[k - 1], k)
  <2> SUFFICES ASSUME NEW k \in 1 .. N
               PROVE  g[k] = Step(g[k - 1], k)
    OBVIOUS
  <2>1. g[k - 1] \in X
    BY <1>1, <1>3
  <2>2. <<g[k - 1], k>> \in X \X (1 .. N)
    BY <2>1
  <2>3. QED
    BY <1>3, <2>2
<1> DEFINE Follows(f) == f = [n \in 0 .. N |-> IF n = 0 THEN base ELSE Step(f[n - 1], n)]
           upto == CHOOSE f : Follows(f)
<1>5. Follows(g)
  <2>1. ASSUME NEW n \in 0 .. N
        PROVE  g[n] = IF n = 0 THEN base ELSE Step(g[n - 1], n)
    <3>1. n # 0 => n \in 1 .. N
      BY <1>1
    <3> HIDE DEF Step, base, N
    <3>2. QED
      BY <1>3, <1>4, <3>1
  <2> HIDE DEF Step, base, X, N
  <2>2. QED
    BY <1>3, <2>1
<1>6. Follows(upto)
  BY <1>5
<1>7. Kept(s, keep) = upto[N]
  BY DEF Kept
<1> HIDE DEF upto
<1>8. upto[0] = base /\ \A n \in 1 .. N : upto[n] = Step(upto[n - 1], n)
  <2>1. \A n \in 0 .. N : upto[n] = IF n = 0 THEN base ELSE Step(upto[n - 1], n)
    BY <1>6
  <2>2. ASSUME NEW n \in 1 .. N
        PROVE  n \in 0 .. N /\ n # 0
    BY <1>1
  <2>3. 0 \in 0 .. N
    BY <1>1
  <2> HIDE DEF N
  <2>4. QED
    BY <2>1, <2>2, <2>3
<1> DEFINE Selected(n) ==
             /\ upto[n] \in Seq(S)
             /\ \A x : x \in Range(upto[n]) <=> x \in keep /\ \E k \in 1 .. n : x = s[k]
             /\ IsInjective(s) => IsInjective(upto[n])
           T == {n \in Nat : n <= N => Selected(n)}
<1>9. 0 \in T
  <2>1. base \in Seq(S) /\ Range(base) = {} /\ IsInjective(base)
    BY DEF Range, IsInjective
  <2>2. 1 .. 0 = {}
    OBVIOUS
  <2> HIDE DEF base
  <2>3. Selected(0)
    BY <1>8, <2>1, <2>2
  <2>4. QED
    BY <2>3
<1>10. ASSUME NEW n \in Nat, n \in T
       PROVE  n + 1 \in T
  <2> SUFFICES ASSUME n + 1 <= N
               PROVE  Selected(n + 1)
    OBVIOUS
  <2>1. n + 1 \in 1 .. N /\ Selected(n) /\ upto[n + 1] = Step(upto[n], n + 1)
    BY <1>1, <1>8, <1>10
  <2>2. 1 .. (n + 1) = (1 .. n) \cup {n + 1}
    OBVIOUS
  <2>3. CASE s[n + 1] \in keep
    <3>1. upto[n + 1] = Append(upto[n], s[n + 1]) /\ upto[n] \in Seq(S) /\ s[n + 1] \in S
      BY <1>1, <2>1, <2>3
    <3>2. upto[n + 1] \in Seq(S) /\ Range(upto[n + 1]) = Range(upto[n]) \cup {s[n + 1]}
      BY <3>1, AppendRange
    <3>3. ASSUME IsInjective(s)
          PROVE  IsInjective(upto[n + 1])
      <4>1. \A k \in 1 .. n : k \in 1 .. N /\ k # n + 1
        BY <1>1, <2>1
      <4>2. s[n + 1] \notin Range(upto[n])
        BY <1>1, <2>1, <3>3, <4>1 DEF IsInjective
      <4>3. QED
        BY <2>1, <3>1, <3>3, <4>2, AppendOnce
    <3> HIDE DEF Step
    <3>4. QED
      BY <2>1, <2>2, <2>3, <3>2, <3>3
  <2>4. CASE s[n + 1] \notin keep
    BY <2>1, <2>2, <2>4
  <2>5. QED
    BY <2>3, <2>4
<1> HIDE DEF T
<1>11. N \in T
  BY <1>1, <1>9, <1>10, SetInduction
<1>12. Selected(N)
  BY <1>1, <1>11 DEF T
<1>13. \A x : x \in Range(s) <=> \E k \in 1 .. N : x = s[k]
  BY <1>1 DEF Range
<1> HIDE DEF N
<1>14. QED
  BY <1>7, <1>12, <1>13

\* With one result for each index up to k, sorting by index gives the k-th
\* place to the result of index k.
LEMMA SortedByIndex ==
  ASSUME NEW k \in Nat, NEW R, DOMAIN R = 1 .. k, \A i \in 1 .. k : R[i].index = i,
         Results = Range(R)
  PROVE  Compiled = [i \in 1 .. k |-> R[i]]
<1> DEFINE Upto(m) == {q \in Results : q.index <= m}
<1>1. ASSUME NEW m \in 0 .. k
      PROVE  Cardinality(Upto(m)) = m
  <2> DEFINE f == [i \in 1 .. m |-> R[i]]
  <2>1. \A i \in 1 .. m : i \in 1 .. k
    BY <1>1
  <2>2. f \in [1 .. m -> Upto(m)]
    BY <2>1 DEF Range
  <2>3. IsInjective(f)
    BY <2>1 DEF IsInjective
  <2>4. \A q \in Upto(m) : \E i \in 1 .. m : f[i] = q
    BY <2>1 DEF Range
  <2>5. f \in Bijection(1 .. m, Upto(m))
    BY <2>2, <2>3, <2>4 DEF Bijection, Injection, Surjection
  <2>6. QED
    BY <1>1, <2>5, FS_CountingElements DEF ExistsBijection
<1>2. Results = Upto(k)
  BY DEF Range
<1>3. Cardinality(Results) = k
  BY <1>1, <1>2
<1>4. ASSUME NEW n \in 1 .. k
      PROVE  (CHOOSE r \in Results : Cardinality(Upto(r.index)) = n) = R[n]
  <2>1. R[n] \in Results /\ Cardinality(Upto(R[n].index)) = n
    BY <1>1 DEF Range
  <2>2. ASSUME NEW r \in Results, Cardinality(Upto(r.index)) = n
        PROVE  r = R[n]
    <3>1. PICK i \in 1 .. k : r = R[i]
      BY DEF Range
    <3>2. Cardinality(Upto(i)) = i
      BY <1>1
    <3>3. QED
      BY <2>2, <3>1, <3>2
  <2>3. QED
    BY <2>1, <2>2
<1>5. Compiled = [n \in 1 .. Cardinality(Results) |->
                    CHOOSE r \in Results : Cardinality(Upto(r.index)) = n]
  BY DEF Compiled
<1>6. QED
  BY <1>3, <1>4, <1>5

\* A set of naturals has its least element.
LEMMA LeastIsMin ==
  ASSUME NEW S \in SUBSET Nat, S # {}
  PROVE  Min(S) \in S /\ \A y \in S : Min(S) <= y
<1> DEFINE T == {n \in Nat : \A y \in S : n <= y}
<1>1. \E m \in S : \A y \in S : m <= y
  <2> SUFFICES ASSUME ~ \E m \in S : \A y \in S : m <= y
               PROVE  FALSE
    OBVIOUS
  <2>1. 0 \in T
    OBVIOUS
  <2>2. ASSUME NEW n \in Nat, n \in T
        PROVE  n + 1 \in T
    <3>1. n \notin S
      BY <2>2
    <3>2. \A y \in S : y \in Nat /\ n <= y /\ n # y
      BY <2>2, <3>1
    <3>3. QED
      BY <3>2
  <2> HIDE DEF T
  <2>3. Nat \subseteq T
    BY <2>1, <2>2, SetInduction
  <2>4. PICK y \in S : y \in Nat
    OBVIOUS
  <2>5. y + 1 \in T
    BY <2>3, <2>4
  <2>6. QED
    BY <2>4, <2>5 DEF T
<1>2. QED
  BY <1>1 DEF Min

\* Cutting a set off above some of its elements leaves its least one.
LEMMA MinOfBeginning ==
  ASSUME NEW S \in SUBSET Nat, NEW k \in Nat, S \cap (1 .. k) # {}, 0 \notin S
  PROVE  Min(S \cap (1 .. k)) = Min(S) /\ Min(S) \in 1 .. k
<1>1. Min(S) \in S /\ \A y \in S : Min(S) <= y
  BY LeastIsMin
<1>2. /\ Min(S \cap (1 .. k)) \in S \cap (1 .. k)
      /\ \A y \in S \cap (1 .. k) : Min(S \cap (1 .. k)) <= y
  BY LeastIsMin
<1>3. Min(S) <= Min(S \cap (1 .. k)) /\ Min(S) \in Nat /\ Min(S) # 0
  BY <1>1, <1>2
<1>4. Min(S) \in S \cap (1 .. k)
  BY <1>1, <1>2, <1>3
<1>5. QED
  BY <1>1, <1>2, <1>4

-----------------------------------------------------------------------------
(* The build: its invariant *)

Text == Seq(Version \cup {None}) \cup Seq(Provider \X (Version \cup {None}))
Trees == [Path -> Text \cup {None, Partial}]
Result == [index : Nat, provider : Provider, version : Version \cup {None}]
Run == [phase : Idle \cup {"compiling", "applying"}, whole : BOOLEAN,
        providers : Seq(Provider), next : Nat, claimed : Seq(Nat),
        batches : Seq(Seq(Result)), plan : Seq([path : Path, contents : Text]),
        synced : BOOLEAN, loose : {{}}, failed : Provider \cup {None}, before : Trees]

\* In particular no rename of a run is loose: its contents were flushed.
BuildTypeOK ==
  /\ definition \in [Provider -> Version \cup {None}]
  /\ tree \in Trees
  /\ run \in Run

\* What compiling the i-th provider gives, whichever worker does it.
ResultAt(i) ==
  [index |-> i, provider |-> run.providers[i], version |-> definition[run.providers[i]]]

\* The indices below the next one are the results and the claims in progress.
Claimed ==
  run.phase = "compiling" =>
    /\ tree = run.before
    /\ DOMAIN run.claimed = 1 .. Width
    /\ run.next \in 1 .. (Len(run.providers) + 1)
    /\ \A w \in 1 .. Width : run.claimed[w] < run.next
    /\ \A r \in Results : \E i \in 1 .. (run.next - 1) : r = ResultAt(i)
    /\ \A i \in 1 .. (run.next - 1) :
         ResultAt(i) \in Results \/ \E w \in 1 .. Width : run.claimed[w] = i

\* The plan is to write what is generated, and all of it that is not there yet.
PlanHolds ==
  run.phase = "applying" =>
    /\ \A i \in DOMAIN run.plan :
         /\ run.plan[i].path \in Planned
         /\ run.plan[i].contents = Generated(run.plan[i].path)
    /\ \A p \in Planned :
         tree[p] = Generated(p) \/ \E i \in DOMAIN run.plan : run.plan[i].path = p

BuildInv == BuildTypeOK /\ Claimed /\ PlanHolds /\ SequentialOutcome /\ OldOrNew

LEMMA NoRunFits ==
  ASSUME tree \in Trees
  PROVE  NoRun \in Run
BY DEF NoRun, Run, Idle

LEMMA EditKeeps ==
  ASSUME BuildInv, NEW p \in Provider, NEW v \in Version \cup {None}, Edit(p, v)
  PROVE  BuildInv'
<1>1. run' = NoRun /\ run' \in Run /\ tree' = tree /\ run'.phase = "new"
  BY NoRunFits DEF BuildInv, BuildTypeOK, Edit, NoRun
<1>2. BuildTypeOK'
  BY <1>1 DEF BuildInv, BuildTypeOK, Edit
<1>3. QED
  BY <1>1, <1>2 DEF BuildInv, Claimed, PlanHolds, SequentialOutcome, OldOrNew

LEMMA BeginKeeps ==
  ASSUME BuildInv, NEW only, NEW width \in 1 .. Workers, Begin(only, width)
  PROVE  BuildInv'
<1> DEFINE found == Discovered(only)
<1>1. found \in Seq(Provider)
  BY KeptElements, BuildAssumption DEF Discovered
<1>2. /\ run'.phase = "compiling" /\ run'.whole = (only = Provider)
      /\ run'.providers = found /\ run'.next = 1 /\ run'.claimed = [w \in 1 .. width |-> 0]
      /\ run'.batches = [w \in 1 .. width |-> <<>>] /\ run'.before = tree
      /\ tree' = tree /\ definition' = definition
  BY DEF Begin, NoRun
<1>3. width \in Nat
  BY BuildAssumption
<1> HIDE DEF found
<1>4. run' \in Run
  <2>1. [w \in 1 .. width |-> 0] \in Seq(Nat) /\ [w \in 1 .. width |-> <<>>] \in Seq(Seq(Result))
    BY <1>3
  <2>2. QED
    BY <1>1, <2>1, NoRunFits DEF Begin, Run, BuildInv, BuildTypeOK, found
<1>5. Width' = width /\ Results' = {}
  <2>1. Width' = width
    BY <1>2, <1>3 DEF Width
  <2>2. \A w \in 1 .. width : Range(run'.batches[w]) = {}
    BY <1>2 DEF Range
  <2>3. QED
    BY <2>1, <2>2 DEF Results
<1>6. Claimed'
  BY <1>1, <1>2, <1>3, <1>5 DEF Claimed
<1>7. QED
  BY <1>2, <1>4, <1>6 DEF BuildInv, BuildTypeOK, PlanHolds, SequentialOutcome, OldOrNew

\* While it compiles, a run promises nothing yet.
LEMMA StillCompiling ==
  ASSUME BuildTypeOK', Claimed', run'.phase = "compiling"
  PROVE  BuildInv'
BY DEF BuildInv, BuildTypeOK, Claimed, PlanHolds, SequentialOutcome, OldOrNew

LEMMA ClaimKeeps ==
  ASSUME BuildInv, NEW w \in 1 .. Width, Claim(w)
  PROVE  BuildInv'
<1>1. /\ run \in Run /\ run.phase = "compiling" /\ run.claimed[w] = 0
      /\ run.next <= Len(run.providers) /\ Claimed
      /\ UNCHANGED <<definition, tree>>
  BY DEF BuildInv, BuildTypeOK, Claim
<1>2. /\ run' \in Run /\ run'.phase = "compiling" /\ run'.providers = run.providers
      /\ run'.claimed = [run.claimed EXCEPT ![w] = run.next] /\ run'.next = run.next + 1
      /\ run'.batches = run.batches /\ run'.before = run.before
  <2>1. run' = [run EXCEPT !.claimed[w] = run.next, !.next = run.next + 1]
    BY <1>1 DEF Claim
  <2>2. run.claimed \in Seq(Nat) /\ run.next \in Nat
    BY <1>1 DEF Run
  <2>3. [run.claimed EXCEPT ![w] = run.next] \in Seq(Nat)
    <3>1. Replaced(run.claimed, w, run.next) \in Seq(Nat)
      BY <2>2, ReplacedInSeq
    <3>2. QED
      BY <3>1 DEF Replaced
  <2> DEFINE claims == [run.claimed EXCEPT ![w] = run.next]
             after == run.next + 1
  <2>4. run' = [run EXCEPT !.claimed = claims, !.next = after]
    BY <1>1, <2>1 DEF Run
  <2>5. claims \in Seq(Nat) /\ after \in Nat
    BY <2>2, <2>3
  <2> HIDE DEF claims, after
  <2>6. run' \in Run
    BY <1>1, <2>4, <2>5 DEF Run
  <2>7. /\ run'.phase = run.phase /\ run'.providers = run.providers
        /\ run'.claimed = claims /\ run'.next = after
        /\ run'.batches = run.batches /\ run'.before = run.before
    BY <1>1, <2>4 DEF Run
  <2>8. QED
    BY <1>1, <2>6, <2>7 DEF claims, after
<1>3. Width' = Width /\ Results' = Results /\ \A i : ResultAt(i)' = ResultAt(i)
  BY <1>1, <1>2 DEF Width, Results, ResultAt
<1>4. run.next \in Nat /\ Len(run.providers) \in Nat /\ Width \in Nat /\ run.claimed \in Seq(Nat)
  BY <1>1 DEF Run, Width
<1>5. Claimed'
  <2>1. /\ tree' = run'.before /\ DOMAIN run'.claimed = 1 .. Width'
        /\ run'.next \in 1 .. (Len(run'.providers) + 1)
    BY <1>1, <1>2, <1>3, <1>4 DEF Claimed
  <2>2. \A u \in 1 .. Width' : run'.claimed[u] < run'.next
    BY SMTT(20), <1>1, <1>2, <1>3, <1>4 DEF Claimed
  <2>3. \A r \in Results' : \E i \in 1 .. (run'.next - 1) : r = ResultAt(i)'
    BY <1>1, <1>2, <1>3, <1>4 DEF Claimed
  <2>4. ASSUME NEW i \in 1 .. (run'.next - 1)
        PROVE  ResultAt(i)' \in Results' \/ \E u \in 1 .. Width' : run'.claimed[u] = i
    <3>1. run'.claimed[w] = run.next /\ \A u \in 1 .. Width : u # w => run'.claimed[u] = run.claimed[u]
      BY <1>1, <1>2 DEF Claimed
    <3>2. CASE i = run.next
      BY <1>3, <3>1, <3>2
    <3>3. CASE i # run.next
      <4>1. i \in 1 .. (run.next - 1) /\ i # 0
        BY <1>2, <1>4, <3>3
      <4>2. QED
        BY <1>1, <1>3, <3>1, <4>1 DEF Claimed
    <3>4. QED
      BY <3>2, <3>3
  <2>5. QED
    BY <2>1, <2>2, <2>3, <2>4 DEF Claimed
<1>6. QED
  BY <1>1, <1>2, <1>5, StillCompiling DEF BuildInv, BuildTypeOK

LEMMA CompileKeeps ==
  ASSUME BuildInv, NEW w \in 1 .. Width, Compile(w)
  PROVE  BuildInv'
<1> DEFINE n == run.claimed[w]
<1>1. /\ run \in Run /\ run.phase = "compiling" /\ n # 0 /\ Claimed
      /\ definition \in [Provider -> Version \cup {None}]
      /\ UNCHANGED <<definition, tree>>
  BY DEF BuildInv, BuildTypeOK, Compile
<1>2. /\ run.next \in Nat /\ Len(run.providers) \in Nat /\ Width \in Nat
      /\ run.claimed \in Seq(Nat) /\ run.batches \in Seq(Seq(Result))
      /\ run.providers \in Seq(Provider)
  BY <1>1 DEF Run, Width
<1>3. n \in 1 .. (run.next - 1) /\ n \in 1 .. Len(run.providers)
  <2>1. /\ run.next \in 1 .. (Len(run.providers) + 1)
        /\ DOMAIN run.claimed = 1 .. Width /\ run.claimed[w] < run.next
    BY <1>1 DEF Claimed
  <2>2. n \in Nat
    BY <1>2, <2>1
  <2>3. n < run.next /\ n # 0
    BY <1>1, <2>1
  <2> HIDE DEF n
  <2>4. QED
    BY <1>2, <2>1, <2>2, <2>3
<1>4. ResultAt(n) \in Result
  BY <1>1, <1>2, <1>3 DEF ResultAt, Result
<1>5. run' = [run EXCEPT !.claimed[w] = 0, !.batches[w] = Append(@, ResultAt(n))]
  BY DEF Compile, ResultAt
<1> HIDE DEF n
<1>6. /\ run'.phase = "compiling" /\ run'.providers = run.providers /\ run'.next = run.next
      /\ run'.claimed = [run.claimed EXCEPT ![w] = 0]
      /\ run'.batches = [run.batches EXCEPT ![w] = Append(@, ResultAt(n))]
      /\ run'.before = run.before
  BY <1>1, <1>5 DEF Run
<1>7. run'.claimed \in Seq(Nat) /\ run'.batches \in Seq(Seq(Result)) /\ Width' = Width
  <2>1. DOMAIN run.batches = 1 .. Width /\ run.batches[w] \in Seq(Result)
    BY <1>2 DEF Width
  <2>2. Append(run.batches[w], ResultAt(n)) \in Seq(Result)
    BY <1>4, <2>1
  <2>3. run'.batches \in Seq(Seq(Result)) /\ Len(run'.batches) = Len(run.batches)
    <3> DEFINE B == Seq(Result)
               q == run.batches
               more == Append(q[w], ResultAt(n))
    <3>1. more \in B /\ q \in Seq(B) /\ run'.batches = Replaced(q, w, more)
      BY <1>2, <1>6, <2>1, <2>2 DEF Replaced
    <3> HIDE DEF B, q, more
    <3>2. QED
      BY <3>1, ReplacedInSeq DEF B, q
  <2>4. run'.claimed \in Seq(Nat)
    <3>1. run'.claimed = Replaced(run.claimed, w, 0)
      BY <1>6 DEF Replaced
    <3>2. QED
      BY <1>2, <3>1, ReplacedInSeq
  <2>5. QED
    BY <2>3, <2>4 DEF Width
<1>8. run' \in Run
  BY <1>1, <1>5, <1>6, <1>7 DEF Run
<1>9. Results' = Results \cup {ResultAt(n)} /\ \A i : ResultAt(i)' = ResultAt(i)
  <2>1. DOMAIN run.batches = 1 .. Width /\ run.batches[w] \in Seq(Result)
    BY <1>2 DEF Width
  <2>2. Range(Append(run.batches[w], ResultAt(n))) = Range(run.batches[w]) \cup {ResultAt(n)}
    BY <1>4, <2>1, AppendRange
  <2>3. \A u \in 1 .. Width : Range(run'.batches[u]) =
          IF u = w THEN Range(run.batches[w]) \cup {ResultAt(n)} ELSE Range(run.batches[u])
    BY <1>6, <2>1, <2>2
  <2>4. Results' = Results \cup {ResultAt(n)}
    BY <1>7, <2>3 DEF Results
  <2>5. QED
    BY <1>1, <1>6, <2>4 DEF ResultAt
<1>10. Claimed'
  <2>1. run'.claimed[w] = 0 /\ \A u \in 1 .. Width : u # w => run'.claimed[u] = run.claimed[u]
    BY <1>1, <1>6 DEF Claimed
  <2>2. /\ tree' = run'.before /\ DOMAIN run'.claimed = 1 .. Width'
        /\ run'.next \in 1 .. (Len(run'.providers) + 1)
        /\ \A u \in 1 .. Width' : run'.claimed[u] < run'.next
    <3>1. DOMAIN run'.claimed = DOMAIN run.claimed
      BY <1>6
    <3>2. ASSUME NEW u \in 1 .. Width
          PROVE  run'.claimed[u] < run.next
      <4>1. run.claimed[u] < run.next /\ run.next > 0
        BY <1>1, <1>2 DEF Claimed
      <4>2. CASE u = w
        BY <2>1, <4>1, <4>2
      <4>3. CASE u # w
        BY <2>1, <4>1, <4>3
      <4>4. QED
        BY <4>2, <4>3
    <3>3. QED
      BY <1>1, <1>6, <1>7, <3>1, <3>2 DEF Claimed
  <2>3. \A r \in Results' : \E i \in 1 .. (run'.next - 1) : r = ResultAt(i)'
    BY <1>1, <1>3, <1>6, <1>9 DEF Claimed
  <2>4. ASSUME NEW i \in 1 .. (run'.next - 1)
        PROVE  ResultAt(i)' \in Results' \/ \E u \in 1 .. Width' : run'.claimed[u] = i
    <3>1. ResultAt(i) \in Results \/ \E u \in 1 .. Width : run.claimed[u] = i
      BY <1>1, <1>6 DEF Claimed
    <3>2. ASSUME NEW u \in 1 .. Width, run.claimed[u] = i, u # w
          PROVE  \E x \in 1 .. Width' : run'.claimed[x] = i
      BY <1>7, <2>1, <3>2
    <3>3. run.claimed[w] = i => ResultAt(i) \in Results'
      BY <1>9 DEF n
    <3>4. QED
      BY <1>9, <3>1, <3>2, <3>3
  <2>5. QED
    BY <2>2, <2>3, <2>4 DEF Claimed
<1>11. QED
  BY <1>1, <1>6, <1>8, <1>10, StillCompiling DEF BuildInv, BuildTypeOK

\* What a run of the providers found would generate is the plan's contents.
LEMMA GeneratedFits ==
  ASSUME BuildTypeOK, NEW p \in Planned
  PROVE  p \in Path /\ Generated(p) \in Text
<1>1. /\ definition \in [Provider -> Version \cup {None}] /\ run.providers \in Seq(Provider)
      /\ run.whole \in BOOLEAN
  BY DEF BuildTypeOK, Run
<1>2. \A i \in 1 .. Len(run.providers) : run.providers[i] \in Provider
  BY <1>1
<1>3. p \in Path /\ (p # Index => p \in Provider)
  BY <1>1, <1>2 DEF Planned, Path, Range
<1>4. CASE p = Index
  <2> DEFINE s == [i \in 1 .. Len(run.providers) |-> <<run.providers[i], definition[run.providers[i]]>>]
  <2>1. Generated(p) = s
    BY <1>1, <1>4 DEF Generated
  <2>2. \A i \in 1 .. Len(run.providers) :
          <<run.providers[i], definition[run.providers[i]]>> \in Provider \X (Version \cup {None})
    BY <1>1, <1>2
  <2>3. s \in Seq(Provider \X (Version \cup {None}))
    BY <1>1, <2>2
  <2>4. QED
    BY <1>3, <2>1, <2>3 DEF Text
<1>5. CASE p # Index
  <2>1. definition[p] \in Version \cup {None} /\ Generated(p) = <<definition[p]>>
    BY <1>1, <1>3, <1>5 DEF Generated
  <2>2. <<definition[p]>> \in Seq(Version \cup {None})
    BY <2>1
  <2>3. QED
    BY <1>3, <2>1, <2>2 DEF Text
<1>6. QED
  BY <1>4, <1>5

\* When the threads are joined, the results in order are those of the first
\* providers.
LEMMA JoinedInOrder ==
  ASSUME BuildInv, run.phase = "compiling", \A w \in 1 .. Width : run.claimed[w] = 0
  PROVE  Compiled = [i \in 1 .. (run.next - 1) |-> ResultAt(i)]
<1> DEFINE k == run.next - 1
           R == [i \in 1 .. k |-> ResultAt(i)]
<1>1. Claimed /\ run.next \in 1 .. (Len(run.providers) + 1) /\ Len(run.providers) \in Nat
  BY DEF BuildInv, BuildTypeOK, Claimed, Run
<1>2. k \in Nat
  BY <1>1
<1>3. \A i \in 1 .. k : R[i].index = i
  BY DEF ResultAt
<1>4. Results = Range(R)
  <2>1. \A r : r \in Range(R) <=> \E i \in 1 .. k : r = ResultAt(i)
    BY DEF Range
  <2>2. \A i \in 1 .. k : i # 0
    BY <1>2
  <2>3. \A r : r \in Results <=> \E i \in 1 .. k : r = ResultAt(i)
    BY <1>1, <2>2 DEF Claimed
  <2>4. QED
    BY <2>1, <2>3
<1>5. DOMAIN R = 1 .. k
  OBVIOUS
<1> HIDE DEF k, R
<1>6. Compiled = [i \in 1 .. k |-> R[i]]
  BY <1>2, <1>3, <1>4, <1>5, SortedByIndex
<1>7. QED
  BY <1>6 DEF k, R

\* With all of them compiled, the artifacts are what a sequential run generates.
LEMMA ArtifactsGenerated ==
  ASSUME BuildTypeOK, Compiled = [i \in 1 .. Len(run.providers) |-> ResultAt(i)]
  PROVE  DOMAIN Artifacts = Planned /\ \A p \in Planned : Artifacts[p] = Generated(p)
<1> DEFINE n == Len(run.providers)
           compiled == Compiled
           published == [i \in DOMAIN compiled |-> <<compiled[i].provider, compiled[i].version>>]
           of(p) == CHOOSE r \in Range(compiled) : r.provider = p
<1>1. /\ run.providers \in Seq(Provider) /\ n \in Nat /\ DOMAIN run.providers = 1 .. n
      /\ \A i \in 1 .. n : run.providers[i] \in Provider
  BY DEF BuildTypeOK, Run
<1>2. /\ DOMAIN compiled = 1 .. n
      /\ \A i \in 1 .. n : /\ compiled[i].provider = run.providers[i]
                           /\ compiled[i].version = definition[run.providers[i]]
  BY DEF ResultAt
<1>3. Artifacts =
        [p \in {r.provider : r \in Range(compiled)} \cup IF run.whole THEN {Index} ELSE {} |->
           IF p = Index THEN published ELSE <<of(p).version>>]
  BY DEF Artifacts
<1> HIDE DEF compiled
<1>4. {r.provider : r \in Range(compiled)} = Range(run.providers)
  BY <1>1, <1>2 DEF Range
<1>5. DOMAIN Artifacts = Planned
  BY <1>3, <1>4 DEF Planned
<1>6. published = [i \in DOMAIN run.providers |-> <<run.providers[i], definition[run.providers[i]]>>]
  BY <1>1, <1>2
<1>7. ASSUME NEW p \in Range(run.providers)
      PROVE  of(p).version = definition[p] /\ p # Index
  <2>1. \E r \in Range(compiled) : r.provider = p
    BY <1>4
  <2>2. of(p) \in Range(compiled) /\ of(p).provider = p
    BY <2>1
  <2>3. PICK i \in 1 .. n : of(p) = compiled[i]
    BY <1>2, <2>2 DEF Range
  <2>4. p \in Provider
    BY <1>1 DEF Range
  <2> HIDE DEF of
  <2>5. QED
    BY <1>2, <2>2, <2>3, <2>4, BuildAssumption
<1>8. ASSUME NEW p \in Planned
      PROVE  Artifacts[p] = Generated(p)
  <2>1. Artifacts[p] = IF p = Index THEN published ELSE <<of(p).version>>
    BY <1>3, <1>5
  <2> HIDE DEF of, published
  <2>2. CASE p = Index
    BY <1>6, <2>1, <2>2 DEF Generated
  <2>3. CASE p # Index
    <3>1. p \in Range(run.providers)
      BY <2>3 DEF Planned
    <3>2. QED
      BY <1>7, <2>1, <2>3, <3>1 DEF Generated
  <2>4. QED
    BY <2>2, <2>3
<1>9. QED
  BY <1>5, <1>8

\* The plan's changes are the generated artifacts that the tree does not have.
LEMMA ChangesGenerated ==
  ASSUME BuildTypeOK, NEW artifacts, DOMAIN artifacts = Planned,
         \A p \in Planned : artifacts[p] = Generated(p)
  PROVE  /\ Changes(artifacts) \in Seq([path : Path, contents : Text])
         /\ \A i \in DOMAIN Changes(artifacts) :
              /\ Changes(artifacts)[i].path \in Planned
              /\ Changes(artifacts)[i].contents = Generated(Changes(artifacts)[i].path)
         /\ \A p \in Planned :
              tree[p] = Generated(p) \/ \E i \in DOMAIN Changes(artifacts) : Changes(artifacts)[i].path = p
<1> DEFINE new == {p \in DOMAIN artifacts : tree[p] # artifacts[p]}
           paths == Kept(Listing, new)
           changes == [i \in DOMAIN paths |-> [path |-> paths[i], contents |-> artifacts[paths[i]]]]
<1>1. paths \in Seq(Path) /\ Range(paths) = Range(Listing) \cap new
  BY BuildAssumption, KeptElements
<1>2. \A p \in Planned : p \in Range(Listing)
  BY BuildAssumption, GeneratedFits
<1>3. Range(paths) = new
  BY <1>1, <1>2
<1>4. Changes(artifacts) = changes
  BY DEF Changes
<1> HIDE DEF paths
<1>5. DOMAIN paths = 1 .. Len(paths) /\ Len(paths) \in Nat
  BY <1>1
<1>6. \A i \in DOMAIN paths : /\ changes[i] = [path |-> paths[i], contents |-> artifacts[paths[i]]]
                              /\ paths[i] \in Planned
  BY <1>3 DEF Range
<1>7. \A i \in DOMAIN paths : changes[i] \in [path : Path, contents : Text]
  BY <1>6, GeneratedFits
<1>8. changes \in Seq([path : Path, contents : Text])
  BY <1>5, <1>7
<1>9. \A p \in Planned : tree[p] = Generated(p) \/ \E i \in DOMAIN changes : changes[i].path = p
  <2> SUFFICES ASSUME NEW p \in Planned, tree[p] # Generated(p)
               PROVE  \E i \in DOMAIN paths : paths[i] = p
    BY <1>6
  <2>1. p \in Range(paths)
    BY <1>3
  <2>2. QED
    BY <2>1 DEF Range
<1>10. \A i \in DOMAIN changes : /\ changes[i].path \in Planned
                                 /\ changes[i].contents = Generated(changes[i].path)
  BY <1>6
<1> HIDE DEF changes
<1>11. QED
  BY <1>4, <1>8, <1>9, <1>10

-----------------------------------------------------------------------------
(* The build: its other steps, and its theorems *)

\* The providers of a run that do not compile, as indices.
BrokenOnes == {i \in DOMAIN run.providers : definition[run.providers[i]] \in Broken}

\* Joining the threads: what failed of the results is the beginning of what does
\* not compile, and if nothing failed everything was compiled.
LEMMA JoinKeeps ==
  ASSUME BuildInv, Join
  PROVE  BuildInv'
<1> DEFINE k == run.next - 1
           n == Len(run.providers)
           failing == {i \in DOMAIN Compiled : Fails(Compiled[i])}
           joined == [run EXCEPT !.batches = <<>>, !.claimed = <<>>]
<1>1. /\ BuildTypeOK /\ run \in Run /\ run.phase = "compiling" /\ tree = run.before
      /\ \A w \in 1 .. Width : run.claimed[w] = 0
      /\ run.next > n \/ Stopped
      /\ UNCHANGED <<definition, tree>>
  BY DEF BuildInv, BuildTypeOK, Claimed, Join
<1>2. /\ k \in 0 .. n /\ n \in Nat /\ DOMAIN run.providers = 1 .. n /\ run.next = k + 1
      /\ run.providers \in Seq(Provider)
  BY <1>1 DEF BuildInv, Claimed, Run
<1>3. Compiled = [i \in 1 .. k |-> ResultAt(i)]
  BY <1>1, JoinedInOrder
<1>4. BrokenOnes \subseteq 1 .. n /\ failing = BrokenOnes \cap (1 .. k)
  BY <1>2, <1>3 DEF BrokenOnes, Fails, ResultAt
<1>5. run' = IF failing # {}
             THEN [joined EXCEPT !.phase = "failed", !.failed = Compiled[Min(failing)].provider]
             ELSE IF Orphans # {} THEN [joined EXCEPT !.phase = "refused"]
             ELSE [joined EXCEPT !.phase = "applying", !.plan = Changes(Artifacts)]
  BY DEF Join
<1>6. joined \in Run /\ joined.before = run.before /\ joined.providers = run.providers
      /\ joined.whole = run.whole
  <2> DEFINE none == <<>>
  <2>1. none \in Seq(Nat) /\ none \in Seq(Seq(Result))
    OBVIOUS
  <2>2. joined = [run EXCEPT !.batches = none, !.claimed = none]
    OBVIOUS
  <2> HIDE DEF joined, none
  <2>3. QED
    BY <1>1, <2>1, <2>2 DEF Run
<1> HIDE DEF failing, joined, k, n
<1>7. CASE failing # {}
  <2> DEFINE first == Compiled[Min(failing)].provider
  <2>1. Min(failing) = Min(BrokenOnes) /\ Min(BrokenOnes) \in 1 .. k /\ BrokenOnes # {}
    <3>1. BrokenOnes \in SUBSET Nat /\ 0 \notin BrokenOnes /\ k \in Nat
      BY <1>2, <1>4
    <3>2. QED
      BY <1>4, <1>7, <3>1, MinOfBeginning
  <2>2. first = run.providers[Min(BrokenOnes)]
    BY <1>3, <2>1 DEF ResultAt
  <2>3. first \in Provider
    BY <1>2, <2>1, <2>2
  <2> HIDE DEF first
  <2>4. run' = [joined EXCEPT !.phase = "failed", !.failed = first]
    BY <1>5, <1>7 DEF first
  <2>5. /\ run' \in Run /\ run'.phase = "failed" /\ run'.failed = first
        /\ run'.before = run.before /\ run'.providers = run.providers
    BY <1>6, <2>3, <2>4 DEF Run, Idle
  <2>6. SequentialOutcome'
    BY <1>1, <2>1, <2>2, <2>5 DEF SequentialOutcome, BrokenOnes
  <2>7. QED
    BY <1>1, <2>5, <2>6 DEF BuildInv, BuildTypeOK, Claimed, PlanHolds, OldOrNew
<1>8. CASE failing = {}
  <2>1. ~Stopped
    <3>1. ASSUME Stopped
          PROVE  FALSE
      <4>1. PICK r \in Results : Fails(r)
        BY <3>1 DEF Stopped, Results
      <4>2. PICK i \in 1 .. k : r = ResultAt(i)
        BY <1>1, <4>1 DEF BuildInv, Claimed, k
      <4>3. i \in failing
        BY <1>3, <4>1, <4>2 DEF failing
      <4>4. QED
        BY <1>8, <4>3
    <3>2. QED
      BY <3>1
  <2>2. k = n
    BY <1>1, <1>2, <2>1
  <2>3. BrokenOnes = {}
    BY <1>4, <1>8, <2>2
  <2>4. CASE Orphans # {}
    <3>1. run' = [joined EXCEPT !.phase = "refused"]
      BY <1>5, <1>8, <2>4
    <3>2. /\ run' \in Run /\ run'.phase = "refused"
          /\ run'.before = run.before /\ run'.providers = run.providers
      BY <1>6, <3>1 DEF Run, Idle
    <3>3. SequentialOutcome'
      BY <1>1, <2>3, <3>2 DEF SequentialOutcome, BrokenOnes
    <3>4. QED
      BY <1>1, <3>2, <3>3 DEF BuildInv, BuildTypeOK, Claimed, PlanHolds, OldOrNew
  <2>5. CASE Orphans = {}
    <3> DEFINE changes == Changes(Artifacts)
    <3>1. DOMAIN Artifacts = Planned /\ \A p \in Planned : Artifacts[p] = Generated(p)
      BY <1>1, <1>3, <2>2, ArtifactsGenerated DEF n
    <3>2. /\ changes \in Seq([path : Path, contents : Text])
          /\ \A i \in DOMAIN changes : /\ changes[i].path \in Planned
                                       /\ changes[i].contents = Generated(changes[i].path)
          /\ \A p \in Planned : tree[p] = Generated(p) \/ \E i \in DOMAIN changes : changes[i].path = p
      BY <1>1, <3>1, ChangesGenerated
    <3> HIDE DEF changes
    <3>3. run' = [joined EXCEPT !.phase = "applying", !.plan = changes]
      BY <1>5, <1>8, <2>5 DEF changes
    <3>4. /\ run' \in Run /\ run'.phase = "applying" /\ run'.plan = changes
          /\ run'.before = run.before /\ run'.providers = run.providers /\ run'.whole = run.whole
      BY <1>6, <3>2, <3>3 DEF Run, Idle
    <3>5. Planned' = Planned /\ \A p : Generated(p)' = Generated(p)
      BY <1>1, <3>4 DEF Planned, Generated
    <3>6. PlanHolds'
      BY <1>1, <3>2, <3>4, <3>5 DEF PlanHolds
    <3>7. Orphans' = {}
      BY <1>1, <2>5, <3>4 DEF Orphans
    <3>8. SequentialOutcome'
      BY <1>1, <2>3, <3>4, <3>7 DEF SequentialOutcome, BrokenOnes
    <3>9. QED
      BY <1>1, <3>4, <3>6, <3>8 DEF BuildInv, BuildTypeOK, Claimed, OldOrNew
  <2>6. QED
    BY <2>4, <2>5
<1>9. QED
  BY <1>7, <1>8

\* Steps of an applying run that write nothing.
LEMMA QuietStepKeeps ==
  ASSUME BuildInv, WriteTemporary \/ WriteFails \/ Finish
  PROVE  BuildInv'
<1>1. /\ run \in Run /\ run.phase = "applying" /\ UNCHANGED <<definition, tree>>
      /\ SequentialOutcome /\ OldOrNew /\ PlanHolds /\ BuildTypeOK
  BY DEF BuildInv, BuildTypeOK, WriteTemporary, WriteFails, Finish
<1>2. /\ run' \in Run /\ run'.providers = run.providers /\ run'.whole = run.whole
      /\ run'.before = run.before /\ run'.plan = run.plan
      /\ run'.phase \in {"applying", "aborted", "done"}
      /\ run'.phase = "done" => run.plan = <<>>
  <2>1. CASE WriteTemporary
    BY <1>1, <2>1 DEF WriteTemporary, Run
  <2>2. CASE WriteFails
    BY <1>1, <2>2 DEF WriteFails, Run, Idle
  <2>3. CASE Finish
    BY <1>1, <2>3 DEF Finish, Run, Idle
  <2>4. QED
    BY <2>1, <2>2, <2>3
<1>3. Planned' = Planned /\ Orphans' = Orphans /\ \A p : Generated(p)' = Generated(p)
  BY <1>1, <1>2 DEF Planned, Generated, Orphans
<1>4. SequentialOutcome'
  <2>1. run'.phase = "done" => \A p \in Planned : tree[p] = Generated(p)
    BY <1>1, <1>2 DEF PlanHolds
  <2>2. QED
    BY <1>1, <1>2, <1>3, <2>1 DEF SequentialOutcome
<1>5. OldOrNew'
  BY <1>1, <1>2, <1>3 DEF OldOrNew
<1>6. PlanHolds'
  BY <1>1, <1>2, <1>3 DEF PlanHolds
<1>7. QED
  BY <1>1, <1>2, <1>4, <1>5, <1>6 DEF BuildInv, BuildTypeOK, Claimed

LEMMA RenameKeeps ==
  ASSUME BuildInv, Rename
  PROVE  BuildInv'
<1> DEFINE a == Head(run.plan)
<1>1. /\ run \in Run /\ run.phase = "applying" /\ run.plan # <<>> /\ run.synced
      /\ tree' = [tree EXCEPT ![a.path] = a.contents] /\ definition' = definition
      /\ run' = [run EXCEPT !.plan = Tail(run.plan), !.synced = FALSE]
      /\ SequentialOutcome /\ OldOrNew /\ PlanHolds /\ BuildTypeOK
  BY DEF BuildInv, BuildTypeOK, Rename, Ready, Run
<1>2. /\ run.plan \in Seq([path : Path, contents : Text]) /\ 1 \in DOMAIN run.plan
      /\ a = run.plan[1] /\ a \in [path : Path, contents : Text]
      /\ Tail(run.plan) \in Seq([path : Path, contents : Text])
      /\ \A i \in DOMAIN Tail(run.plan) : i + 1 \in DOMAIN run.plan /\ Tail(run.plan)[i] = run.plan[i + 1]
      /\ \A i \in DOMAIN run.plan : i # 1 => i - 1 \in DOMAIN Tail(run.plan) /\ (i - 1) + 1 = i
  <2>1. run.plan \in Seq([path : Path, contents : Text])
    BY <1>1 DEF Run
  <2>2. QED
    BY <1>1, <2>1, FirstAndRest
<1>3. a.path \in Planned /\ a.contents = Generated(a.path)
  BY <1>1, <1>2 DEF PlanHolds
<1> HIDE DEF a
<1>4. /\ run' \in Run /\ run'.providers = run.providers /\ run'.whole = run.whole
      /\ run'.before = run.before /\ run'.plan = Tail(run.plan) /\ run'.phase = "applying"
  BY <1>1, <1>2 DEF Run
<1>5. /\ tree \in Trees /\ tree' \in Trees
      /\ \A p \in Path : tree'[p] = IF p = a.path THEN a.contents ELSE tree[p]
  <2>1. tree \in Trees
    BY <1>1 DEF BuildTypeOK
  <2>2. QED
    BY <1>1, <1>2, <2>1 DEF Trees
<1>6. Planned' = Planned /\ \A p : Generated(p)' = Generated(p)
  BY <1>1, <1>4 DEF Planned, Generated
<1>7. \A p \in Planned : p \in Path
  BY <1>1, GeneratedFits
<1>8. Orphans' = {}
  <2>1. Orphans = {}
    BY <1>1 DEF SequentialOutcome
  <2>2. ASSUME NEW p \in Provider, run.whole, tree'[p] # None, p \notin Range(run.providers)
        PROVE  FALSE
    <3>1. p \notin Planned /\ p \in Path
      BY <2>2, BuildAssumption DEF Planned, Path
    <3>2. tree'[p] = tree[p]
      BY <1>3, <1>5, <3>1
    <3>3. QED
      BY <2>1, <2>2, <3>2 DEF Orphans
  <2>3. QED
    BY <1>4, <2>2 DEF Orphans
<1>9. SequentialOutcome'
  BY <1>1, <1>4, <1>8 DEF SequentialOutcome
<1>10. OldOrNew'
  BY <1>1, <1>3, <1>4, <1>5, <1>6 DEF OldOrNew
<1>11. PlanHolds'
  <2>1. \A i \in DOMAIN Tail(run.plan) : /\ Tail(run.plan)[i].path \in Planned
                                         /\ Tail(run.plan)[i].contents = Generated(Tail(run.plan)[i].path)
    BY <1>1, <1>2 DEF PlanHolds
  <2>2. ASSUME NEW p \in Planned
        PROVE  tree'[p] = Generated(p) \/ \E i \in DOMAIN Tail(run.plan) : Tail(run.plan)[i].path = p
    <3>1. CASE p = a.path
      BY <1>3, <1>5, <1>7, <3>1
    <3>2. CASE p # a.path /\ tree[p] = Generated(p)
      BY <1>5, <1>7, <3>2
    <3>3. CASE p # a.path /\ \E i \in DOMAIN run.plan : run.plan[i].path = p
      <4>1. PICK i \in DOMAIN run.plan : run.plan[i].path = p
        BY <3>3
      <4>2. i # 1
        BY <1>2, <3>3, <4>1
      <4>3. i - 1 \in DOMAIN Tail(run.plan) /\ Tail(run.plan)[i - 1] = run.plan[i]
        BY <1>2, <4>2
      <4>4. QED
        BY <4>1, <4>3
    <3>4. QED
      BY <1>1, <3>1, <3>2, <3>3 DEF PlanHolds
  <2>3. QED
    BY <1>4, <1>6, <2>1, <2>2 DEF PlanHolds
<1>12. QED
  BY <1>1, <1>4, <1>5, <1>9, <1>10, <1>11 DEF BuildInv, BuildTypeOK, Claimed

LEMMA CrashKeeps ==
  ASSUME BuildInv, Crash
  PROVE  BuildInv'
<1>1. /\ run \in Run /\ run.phase \in {"compiling", "applying"} /\ definition' = definition
      /\ run' = [run EXCEPT !.phase = "crashed"] /\ tree \in Trees /\ run.before \in Trees
      /\ run.loose = {} /\ OldOrNew /\ BuildTypeOK
  BY DEF BuildInv, BuildTypeOK, Crash, Run
<1>2. /\ run' \in Run /\ run'.providers = run.providers /\ run'.whole = run.whole
      /\ run'.before = run.before /\ run'.phase = "crashed"
  BY <1>1 DEF Run, Idle
<1>3. PICK undone : tree' = [p \in Path |-> IF p \in undone THEN run.before[p]
                                            ELSE IF p \in run.loose THEN Partial ELSE tree[p]]
  BY DEF Crash
<1>4. \A p \in Path : tree'[p] \in {run.before[p], tree[p]}
  BY <1>1, <1>3
<1>5. tree' \in Trees
  BY <1>1, <1>3, <1>4 DEF Trees
<1>6. Planned' = Planned /\ \A p : Generated(p)' = Generated(p)
  BY <1>1, <1>2 DEF Planned, Generated
<1>7. OldOrNew'
  BY <1>1, <1>2, <1>4, <1>6 DEF OldOrNew
<1>8. QED
  BY <1>1, <1>2, <1>5, <1>7 DEF BuildInv, BuildTypeOK, Claimed, PlanHolds, SequentialOutcome

LEMMA BuildKeeps == BuildSpec => []BuildInv
<1>1. BuildInit => BuildInv
  <2> SUFFICES ASSUME BuildInit
               PROVE  BuildInv
    OBVIOUS
  <2>1. tree \in Trees
    BY DEF BuildInit, Trees
  <2>2. run \in Run /\ run.phase = "new"
    BY <2>1, NoRunFits DEF BuildInit, NoRun
  <2>3. QED
    BY <2>1, <2>2 DEF BuildInit, BuildInv, BuildTypeOK, Claimed, PlanHolds, SequentialOutcome, OldOrNew
<1>2. BuildInv /\ [BuildNext]_buildVars => BuildInv'
  <2> SUFFICES ASSUME BuildInv, [BuildNext]_buildVars
               PROVE  BuildInv'
    OBVIOUS
  <2>1. CASE UNCHANGED buildVars
    <3>1. run' = run /\ tree' = tree /\ definition' = definition
      BY <2>1 DEF buildVars
    <3>2. /\ Planned' = Planned /\ Orphans' = Orphans /\ Results' = Results /\ Width' = Width
          /\ \A p : Generated(p)' = Generated(p)
          /\ \A i : ResultAt(i)' = ResultAt(i)
      BY <3>1 DEF Planned, Orphans, Results, Width, Generated, ResultAt
    <3>3. BuildTypeOK' /\ OldOrNew'
      BY <3>1, <3>2 DEF BuildInv, BuildTypeOK, OldOrNew
    <3>4. Claimed' /\ PlanHolds'
      BY <3>1, <3>2 DEF BuildInv, Claimed, PlanHolds
    <3>5. SequentialOutcome'
      BY <3>1, <3>2 DEF BuildInv, SequentialOutcome
    <3>6. QED
      BY <3>3, <3>4, <3>5 DEF BuildInv
  <2>2. CASE BuildNext
    BY <2>2, EditKeeps, BeginKeeps, ClaimKeeps, CompileKeeps, JoinKeeps, QuietStepKeeps,
       RenameKeeps, CrashKeeps DEF BuildNext
  <2>3. QED
    BY <2>1, <2>2
<1>3. QED
  BY <1>1, <1>2, PTL DEF BuildSpec

\* A build ends as the sequential one would, for any number of providers and of
\* workers, however they are scheduled and wherever earlier runs stopped
\* (pipeline.rs 505-577, lib.rs 115-146).
THEOREM BuildIsSequential == BuildSpec => []SequentialOutcome
<1>1. BuildInv => SequentialOutcome
  BY DEF BuildInv
<1>2. QED
  BY <1>1, BuildKeeps, PTL

\* Wherever a run stops, a path holds what it held before or the whole of what
\* the run generates for it (artifact.rs 36-60, pipeline.rs 733-740).
THEOREM BuildOldOrNew == BuildSpec => []OldOrNew
<1>1. BuildInv => OldOrNew
  BY DEF BuildInv
<1>2. QED
  BY <1>1, BuildKeeps, PTL

-----------------------------------------------------------------------------
(* Flow graphs: both steps look at the same graph *)

LEMMA SameGraph ==
  ASSUME graph' = graph
  PROVE  /\ Problems' = Problems
         /\ TableRefusals' = TableRefusals
         /\ EmissionRefusals' = EmissionRefusals
         /\ Lowered' = Lowered
<1>1. Id' = Id
  BY DEF Id
<1>2. \A n : KindOf(n)' = KindOf(n)
  BY DEF KindOf
<1>3. \A n : IsRegion(n)' = IsRegion(n) /\ IsBoundary(n)' = IsBoundary(n)
  BY <1>2 DEF IsRegion, IsBoundary
<1>4. \A n : Enclosing(n)' = Enclosing(n)
  BY <1>1 DEF Enclosing
<1>5. \A n : Contained(n)' = Contained(n) /\ Readers(n)' = Readers(n)
  BY <1>1, <1>4 DEF Contained, Readers
<1>6. Acyclic' = Acyclic
  BY DEF Acyclic
<1>7. ASSUME NEW n
      PROVE  NodeProblems(n)' = NodeProblems(n)
  <2>1. graph'.node[n] = graph.node[n]
    OBVIOUS
  <2>2. IsBoundary(n)' = IsBoundary(n)
    BY <1>3
  <2>3. QED
    BY Zenon, <2>1, <2>2 DEF NodeProblems
<1>8. \A n : StructureProblems(n)' = StructureProblems(n)
  BY <1>1, <1>3, <1>5 DEF StructureProblems
<1>9. \A ref, side : EndProblems(ref, side)' = EndProblems(ref, side)
  BY <1>1 DEF EndProblems
<1>10. \A e : Escapes(e)' = Escapes(e)
  BY <1>1, <1>4, <1>5 DEF Escapes
<1>11. Problems' = Problems
  BY <1>1, <1>6, <1>7, <1>8, <1>9, <1>10 DEF Problems
<1>12. \A n, p : Producers(n, p)' = Producers(n, p) /\ Producer(n, p)' = Producer(n, p)
  BY <1>1 DEF Producers, Producer
<1>13. Emitted' = Emitted /\ Blocks' = Blocks
  BY <1>1, <1>3 DEF Emitted, Blocks
<1>14. \A n : ShapeRefusals(n)' = ShapeRefusals(n)
  BY <1>3, <1>12 DEF ShapeRefusals
<1>15. TableRefusals' = TableRefusals
  BY <1>1, <1>5, <1>6, <1>13, <1>14 DEF TableRefusals
<1>16. ASSUME NEW ref, NEW stops
       PROVE  Inwards(ref, stops)' = Inwards(ref, stops)
  <2> DEFINE further(n) == IF IsRegion(n) /\ KindOf(n) \notin stops THEN Producer(n, ref.port) ELSE n
             walks(w) == w = [k \in 0..Cardinality(Id) |->
                                IF k = 0 THEN ref.node ELSE further(w[k - 1])]
  <2>1. /\ Inwards(ref, stops) = (CHOOSE w : walks(w))[Cardinality(Id)]
        /\ Inwards(ref, stops)' = (CHOOSE w : walks(w)')[Cardinality(Id)']
    BY Zenon DEF Inwards
  <2>2. \A n : further(n)' = further(n)
    BY <1>2, <1>3, <1>12
  <2> HIDE DEF further
  <2>3. \A w : walks(w)' <=> walks(w)
    BY <1>1, <2>2
  <2> HIDE DEF walks
  <2>4. (CHOOSE w : walks(w)') = (CHOOSE w : walks(w))
    BY Zenon, <2>3
  <2>5. QED
    BY <1>1, <2>1, <2>4
<1>17. \A ref : /\ LocalSymbol(ref)' = LocalSymbol(ref)
                /\ ProducingNode(ref)' = ProducingNode(ref)
                /\ Declares(ref)' = Declares(ref)
  BY <1>1, <1>16 DEF LocalSymbol, ProducingNode, Declares
<1>18. \A n, readers : Left(n, readers)' = Left(n, readers)
  BY <1>4 DEF Left
<1>19. \A ref, readers : SymbolFor(ref, readers)' = SymbolFor(ref, readers)
  BY <1>2, <1>17, <1>18 DEF SymbolFor
<1>20. \A ref, readers, why : ReadRefusals(ref, readers, why)' = ReadRefusals(ref, readers, why)
  BY <1>17, <1>18 DEF ReadRefusals
<1>21. \A ref, readers, why : Read(ref, readers, why)' = Read(ref, readers, why)
  BY <1>19 DEF Read
<1>22. \A n : Into(n)' = Into(n) /\ Fed(n)' = Fed(n)
  BY DEF Into, Fed
<1>23. \A n : EdgeRefusals(n)' = EdgeRefusals(n) /\ Undecided(n)' = Undecided(n)
  BY <1>5, <1>19, <1>22, <1>20 DEF EdgeRefusals, Undecided
<1>24. \A n : InputRefusals(n)' = InputRefusals(n)
  BY <1>22, <1>23 DEF InputRefusals
<1>25. \A n : SelectsResponse(n)' = SelectsResponse(n)
  BY <1>2, <1>17, <1>22 DEF SelectsResponse
<1>26. \A n : KindRefusals(n)' = KindRefusals(n)
  BY <1>5, <1>20, <1>22, <1>25 DEF KindRefusals
<1>27. \A b : Children(b)' = Children(b)
  BY <1>13 DEF Children
<1>28. \A c, n : Owned(c, n)' = Owned(c, n)
  BY <1>4 DEF Owned
<1>29. \A b : Ordered(b)' = Ordered(b)
  BY <1>27, <1>28 DEF Ordered
<1>30. EmissionRefusals' = EmissionRefusals
  BY <1>13, <1>20, <1>24, <1>26, <1>27, <1>29 DEF EmissionRefusals
<1>31. \A n : EdgeReads(n)' = EdgeReads(n) /\ Literal(n)' = Literal(n)
  BY <1>2, <1>5, <1>21, <1>22 DEF EdgeReads, Literal
<1>32. \A n : Own(n)' = Own(n)
  BY <1>2, <1>5, <1>21, <1>31 DEF Own
<1>33. ASSUME NEW b
       PROVE  Closing(b)' = Closing(b)
  <2> DEFINE answer == Read(graph.output, {}, "close")
             export(p) == Read([node |-> Producer(b, p), port |-> p], {b} \cup Readers(b), "close")
             exports == {export(p) : p \in graph.node[b].outs}
             exported == IF b = NoNode THEN IF graph.output = NoNode THEN {} ELSE {answer}
                         ELSE IF KindOf(b) # "retry" THEN {} ELSE exports
  <2>1. KindOf(b)' = KindOf(b) /\ Readers(b)' = Readers(b)
    BY <1>2, <1>5
  <2>2. answer' = answer
    BY <1>21
  <2>3. \A p : export(p)' = export(p)
    BY <1>12, <1>21, <2>1
  <2> HIDE DEF answer, export
  <2>4. exports' = exports
    BY <2>3
  <2> HIDE DEF exports
  <2>5. exported' = exported
    BY <2>1, <2>2, <2>4
  <2> USE DEF answer, export, exports
  <2>6. /\ Closing(b) = IF exported = {} THEN <<>> ELSE <<Statement(NoNode, {}, NoNode, exported)>>
        /\ Closing(b)' = IF exported' = {} THEN <<>> ELSE <<Statement(NoNode, {}, NoNode, exported')>>
    BY Zenon DEF Closing, Statement
  <2> HIDE DEF exported
  <2>7. QED
    BY <2>5, <2>6
<1>34. \A n, out : Landing(n, out)' = Landing(n, out)
  BY <1>31 DEF Landing
<1>35. \A acc, n : Emit(acc, n)' = Emit(acc, n)
  BY <1>31, <1>32, <1>34 DEF Emit
<1>36. ASSUME NEW b
       PROVE  EmitRegion(b)' = EmitRegion(b)
  <2> DEFINE emits(w) == w = [k \in 0..Len(Ordered(b)) |->
                                IF k = 0 THEN [out |-> <<>>, at |-> [n \in Emitted |-> 0]]
                                ELSE Emit(w[k - 1], Ordered(b)[k])]
             done == (CHOOSE w : emits(w))[Len(Ordered(b))]
             done1 == (CHOOSE w : emits(w)')[Len(Ordered(b)')]
  <2>1. /\ EmitRegion(b) = [out |-> done.out \o Closing(b), at |-> done.at]
        /\ EmitRegion(b)' = [out |-> done1.out \o Closing(b)', at |-> done1.at]
    BY Zenon DEF EmitRegion
  <2>2. Ordered(b)' = Ordered(b) /\ Closing(b)' = Closing(b) /\ Emitted' = Emitted
    BY <1>13, <1>29, <1>33
  <2>3. \A w : emits(w)' <=> emits(w)
    BY <1>35, <2>2
  <2> HIDE DEF emits
  <2>4. (CHOOSE w : emits(w)') = (CHOOSE w : emits(w))
    BY Zenon, <2>3
  <2>5. done1 = done
    BY <2>2, <2>4
  <2> HIDE DEF done, done1
  <2>6. QED
    BY <2>1, <2>2, <2>5
<1>37. \A n, emitted : PathTo(n, emitted)' = PathTo(n, emitted)
  BY <1>4 DEF PathTo
<1>38. Lowered' = Lowered
  BY <1>13, <1>36, <1>37 DEF Lowered
<1>39. QED
  BY <1>11, <1>15, <1>30, <1>38

-----------------------------------------------------------------------------
(* Flow graphs: the regions around a node *)

\* Every id is declared, once.
Declared ==
  /\ IsFiniteSet(Id) /\ NoNode \notin Id
  /\ graph.decl \in Seq(Id) /\ Range(graph.decl) = Id
  /\ IsInjective(graph.decl)

RegionOf(n) == graph.node[n].region

\* What a chain of regions may be made of.
Links == Id \cup {RegionOf(n) : n \in Id}

\* c leads from n to a region around it, in m steps unless it ends before.
ChainFrom(n, c, m) ==
  /\ c \in Seq(Links) /\ 1 <= Len(c) /\ Len(c) <= m + 1 /\ c[1] = n
  /\ \A i \in 1 .. (Len(c) - 1) : c[i] \in Id /\ c[i + 1] = RegionOf(c[i]) /\ c[i + 1] # NoNode
  /\ Len(c) <= m => Last(c) \notin Id \/ RegionOf(Last(c)) = NoNode

Further(c) ==
  IF Last(c) \notin Id \/ RegionOf(Last(c)) = NoNode THEN c ELSE Append(c, RegionOf(Last(c)))

LEMMA FurtherChain ==
  ASSUME NEW n \in Id, NEW m \in Nat, NEW c, ChainFrom(n, c, m)
  PROVE  ChainFrom(n, Further(c), m + 1)
<1>1. /\ c \in Seq(Links) /\ Len(c) \in Nat /\ 1 <= Len(c) /\ DOMAIN c = 1 .. Len(c)
      /\ Last(c) = c[Len(c)]
  BY DEF ChainFrom, Last
<1>2. Len(c) \in Nat
  BY <1>1
<1>3. CASE Last(c) \notin Id \/ RegionOf(Last(c)) = NoNode
  BY <1>1, <1>3 DEF ChainFrom, Further
<1>4. CASE Last(c) \in Id /\ RegionOf(Last(c)) # NoNode
  <2> DEFINE r == RegionOf(Last(c))
             d == Append(c, r)
  <2>1. Further(c) = d
    BY <1>4 DEF Further
  <2>2. r \in Links
    BY <1>4 DEF Links
  <2>3. Len(c) = m + 1
    <3>1. ~ (Len(c) <= m) /\ Len(c) <= m + 1
      BY <1>4 DEF ChainFrom
    <3>2. QED
      BY <1>2, <3>1
  <2> HIDE DEF r
  <2>4. /\ d \in Seq(Links) /\ Len(d) = Len(c) + 1
        /\ \A i \in 1 .. Len(c) : d[i] = c[i]
        /\ d[Len(c) + 1] = r
    BY <1>1, <2>2
  <2> HIDE DEF d
  <2>5. ASSUME NEW i \in 1 .. (Len(d) - 1)
        PROVE  d[i] \in Id /\ d[i + 1] = RegionOf(d[i]) /\ d[i + 1] # NoNode
    <3>1. CASE i = Len(c)
      BY <1>1, <1>4, <2>4, <3>1 DEF r
    <3>2. CASE i # Len(c)
      <4>1. i \in 1 .. (Len(c) - 1) /\ i + 1 \in 1 .. Len(c)
        <5>1. Len(d) - 1 = Len(c) /\ i \in 1 .. Len(c)
          BY <1>1, <2>4
        <5>2. QED
          BY <1>2, <3>2, <5>1
      <4>2. QED
        BY <2>4, <4>1 DEF ChainFrom
    <3>3. QED
      BY <3>1, <3>2
  <2>6. d[1] = n /\ Len(d) = m + 2
    BY <1>1, <2>3, <2>4 DEF ChainFrom
  <2>7. QED
    BY <2>1, <2>4, <2>5, <2>6 DEF ChainFrom
<1>5. QED
  BY <1>3, <1>4

\* enclosing answers with the tail of such a chain.
LEMMA EnclosingChain ==
  ASSUME Declared, NEW n \in Id
  PROVE  \E c : ChainFrom(n, c, Cardinality(Id)) /\ Enclosing(n) = Tail(c)
<1> DEFINE N == Cardinality(Id)
           X == {q \in Seq(Links) : q # <<>>}
           base == <<n>>
           F == [p \in X \X (1 .. N) |-> Further(p[1])]
<1>1. N \in Nat
  BY FS_CardinalityType DEF Declared
<1>2. base \in X /\ F \in [X \X (1 .. N) -> X]
  <2>1. base \in X
    BY DEF Links
  <2>2. ASSUME NEW q \in X
        PROVE  Further(q) \in X
    <3>1. CASE Last(q) \in Id
      BY <3>1 DEF Further, Links
    <3>2. CASE Last(q) \notin Id
      BY <3>2 DEF Further
    <3>3. QED
      BY <3>1, <3>2
  <2> HIDE DEF X
  <2>3. QED
    BY <2>1, <2>2
<1>3. PICK g : ResultsOf(g, X, base, N, F)
  <2> HIDE DEF F, N, X, base
  <2>1. QED
    BY <1>1, <1>2, StepsHaveResults
<1> DEFINE Follows(f) ==
             f = [k \in 0 .. N |-> IF k = 0 THEN base
                                   ELSE LET chain == f[k - 1] IN
                                        IF Last(chain) \notin Id \/ graph.node[Last(chain)].region = NoNode
                                        THEN chain ELSE Append(chain, graph.node[Last(chain)].region)]
           walk == CHOOSE f : Follows(f)
<1>4. Follows(g)
  <2>1. ASSUME NEW k \in 0 .. N, k # 0
        PROVE  g[k] = Further(g[k - 1])
    <3>1. k \in 1 .. N /\ k - 1 \in 0 .. N
      BY <1>1, <2>1
    <3>2. <<g[k - 1], k>> \in X \X (1 .. N)
      BY <1>3, <3>1 DEF ResultsOf
    <3>3. QED
      BY <1>3, <3>1, <3>2 DEF ResultsOf
  <2>2. g = [k \in 0 .. N |-> g[k]] /\ g[0] = base
    BY <1>3 DEF ResultsOf
  <2> HIDE DEF base
  <2>3. QED
    BY <2>1, <2>2 DEF Further, RegionOf
<1>5. Follows(walk)
  BY <1>4
<1>6. Enclosing(n) = Tail(walk[N])
  BY DEF Enclosing
<1> HIDE DEF walk
<1> DEFINE S == {k \in Nat : k <= N => ChainFrom(n, walk[k], k)}
<1>7. 0 \in S
  <2>1. walk[0] = <<n>>
    BY <1>1, <1>5
  <2>2. <<n>> \in Seq(Links) /\ Len(<<n>>) = 1 /\ <<n>>[1] = n
    BY DEF Links
  <2>3. ChainFrom(n, <<n>>, 0)
    <3>1. 1 .. (Len(<<n>>) - 1) = {}
      BY <2>2
    <3>2. QED
      BY <2>2, <3>1 DEF ChainFrom
  <2>4. QED
    BY <2>1, <2>3
<1>8. ASSUME NEW k \in Nat, k \in S
      PROVE  k + 1 \in S
  <2> SUFFICES ASSUME k + 1 <= N
               PROVE  ChainFrom(n, walk[k + 1], k + 1)
    OBVIOUS
  <2>1. k + 1 \in 0 .. N /\ k + 1 # 0 /\ (k + 1) - 1 = k /\ ChainFrom(n, walk[k], k)
    BY <1>1, <1>8
  <2>2. walk[k + 1] = Further(walk[k])
    <3> HIDE DEF N, base
    <3>1. QED
      BY <1>5, <2>1 DEF Further, RegionOf
  <2>3. QED
    BY <2>1, <2>2, FurtherChain
<1> HIDE DEF S
<1>9. N \in S
  BY <1>1, <1>7, <1>8, SetInduction
<1>10. QED
  BY <1>1, <1>6, <1>9 DEF S

\* The regions around n: each is the region of the one before it, and if they
\* are all nodes the last one has none.
LEMMA EnclosingFacts ==
  ASSUME Declared, NEW n \in Id
  PROVE  LET e == Enclosing(n) IN
         /\ e \in Seq(Links)
         /\ e = <<>> <=> RegionOf(n) = NoNode
         /\ e # <<>> => e[1] = RegionOf(n)
         /\ \A i \in 1 .. Len(e) : e[i] # NoNode
         /\ \A i \in 1 .. (Len(e) - 1) : e[i] \in Id /\ e[i + 1] = RegionOf(e[i])
         /\ Contained(n) => /\ \A i \in 1 .. Len(e) : e[i] \in Id
                            /\ e # <<>> => RegionOf(e[Len(e)]) = NoNode
<1> DEFINE e == Enclosing(n)
           N == Cardinality(Id)
<1>1. N \in Nat /\ N # 0
  BY FS_CardinalityType, FS_EmptySet DEF Declared
<1>2. PICK c : ChainFrom(n, c, N) /\ e = Tail(c)
  BY EnclosingChain
<1>3. /\ c \in Seq(Links) /\ c # <<>> /\ 1 <= Len(c) /\ Len(c) <= N + 1 /\ c[1] = n
      /\ \A i \in 1 .. (Len(c) - 1) : c[i] \in Id /\ c[i + 1] = RegionOf(c[i]) /\ c[i + 1] # NoNode
      /\ Len(c) <= N => Last(c) \notin Id \/ RegionOf(Last(c)) = NoNode
  BY <1>2 DEF ChainFrom
<1>4. /\ e \in Seq(Links) /\ Len(e) = Len(c) - 1 /\ Len(e) \in Nat
      /\ \A i \in 1 .. Len(e) : e[i] = c[i + 1]
  BY <1>2, <1>3
<1>5. Last(c) = c[Len(e) + 1]
  BY <1>3, <1>4 DEF Last
<1> HIDE DEF e, N
<1>6. \A i \in 1 .. Len(e) : e[i] = RegionOf(c[i]) /\ e[i] # NoNode
  BY <1>3, <1>4
<1>7. e # <<>> => 1 \in 1 .. Len(e) /\ e[1] = RegionOf(n) /\ e[1] # NoNode
  BY <1>3, <1>4, <1>6
<1>8. e = <<>> => RegionOf(n) = NoNode
  <2> SUFFICES ASSUME e = <<>>
               PROVE  RegionOf(n) = NoNode
    OBVIOUS
  <2>1. Len(e) = 0
    OBVIOUS
  <2>2. Len(c) = 1
    BY <1>4, <2>1
  <2>3. Len(c) <= N /\ Last(c) = n
    BY <1>1, <1>3, <1>5, <2>1, <2>2
  <2>4. QED
    BY <1>3, <2>3
<1>9. ASSUME NEW i \in 1 .. (Len(e) - 1)
      PROVE  e[i] \in Id /\ e[i + 1] = RegionOf(e[i])
  <2>1. i \in 1 .. Len(e) /\ i + 1 \in 1 .. Len(e) /\ i + 1 \in 1 .. (Len(c) - 1)
    BY <1>4
  <2>2. QED
    BY <1>3, <1>4, <1>6, <2>1
<1>10. ASSUME Contained(n)
       PROVE  /\ \A i \in 1 .. Len(e) : e[i] \in Id
              /\ e # <<>> => RegionOf(e[Len(e)]) = NoNode
  <2>1. Range(e) \subseteq Id /\ Len(e) < N
    BY <1>10 DEF Contained, e, N
  <2>2. \A i \in 1 .. Len(e) : e[i] \in Id
    BY <1>4, <2>1 DEF Range
  <2>3. ASSUME e # <<>>
        PROVE  RegionOf(e[Len(e)]) = NoNode
    <3>1. Len(e) \in 1 .. Len(e) /\ Last(c) = e[Len(e)]
      BY <1>4, <1>5, <2>3
    <3>2. Len(c) <= N
      BY <1>1, <1>4, <2>1
    <3>3. QED
      BY <1>3, <2>2, <3>1, <3>2
  <2>4. QED
    BY <2>2, <2>3
<1>11. QED
  BY <1>4, <1>6, <1>7, <1>8, <1>9, <1>10 DEF e

\* The regions a value leaves are around its node and not around its reader.
LEMMA LeftOnes ==
  ASSUME Declared, NEW n \in Id, NEW readers, NEW r \in Range(Left(n, readers))
  PROVE  r \in Range(Enclosing(n)) \ readers
<1> DEFINE chain == Enclosing(n)
           stays == {i \in DOMAIN chain : chain[i] \in readers}
<1>1. chain \in Seq(Links)
  BY EnclosingFacts
<1>2. Len(chain) \in Nat /\ DOMAIN chain = 1 .. Len(chain)
  BY <1>1
<1>3. Left(n, readers) = IF stays = {} THEN chain ELSE SubSeq(chain, 1, Min(stays) - 1)
  BY DEF Left
<1> HIDE DEF chain
<1>4. CASE stays = {}
  BY <1>3, <1>4 DEF Range, chain
<1>5. CASE stays # {}
  <2>1. stays \in SUBSET Nat
    BY <1>2
  <2>2. Min(stays) \in stays /\ \A i \in stays : Min(stays) <= i
    BY <1>5, <2>1, LeastIsMin
  <2>3. PICK m \in 0 .. Len(chain) : Min(stays) = m + 1
    <3>1. Min(stays) \in 1 .. Len(chain)
      BY <1>2, <2>2
    <3>2. Min(stays) - 1 \in 0 .. Len(chain) /\ Min(stays) = (Min(stays) - 1) + 1
      BY <1>2, <3>1
    <3>3. QED
      BY <3>2
  <2>4. /\ Left(n, readers) = SubSeq(chain, 1, m)
        /\ DOMAIN SubSeq(chain, 1, m) = 1 .. m /\ \A i \in 1 .. m : SubSeq(chain, 1, m)[i] = chain[i]
    <3>1. (m + 1) - 1 = m
      OBVIOUS
    <3>2. Left(n, readers) = SubSeq(chain, 1, m)
      BY <1>3, <1>5, <2>3, <3>1
    <3>3. QED
      BY <1>1, <1>2, <3>2
  <2>5. PICK i \in 1 .. m : r = chain[i]
    BY <2>4 DEF Range
  <2>6. i \in DOMAIN chain /\ i \notin stays
    <3>1. i < m + 1 /\ i \in 1 .. Len(chain)
      BY <1>2
    <3>2. ~ (m + 1 <= i)
      BY <3>1
    <3>3. QED
      BY <1>2, <2>2, <2>3, <3>1, <3>2
  <2>7. QED
    BY <2>5, <2>6 DEF Range, chain
<1>6. QED
  BY <1>4, <1>5

\* What the lowering answers for a graph the loader admitted.
Lowering ==
  IF TableRefusals # {} THEN Refused(TableRefusals)
  ELSE IF EmissionRefusals # {} THEN Refused(EmissionRefusals) ELSE Lowered

FlowInv ==
  /\ Declared
  /\ problems \in {Unread, Problems}
  /\ lowering = Unread \/ (Problems = {} /\ lowering = Lowering)

LEMMA FlowKeeps == FlowSpec => []FlowInv
<1>1. FlowInit => FlowInv
  <2> SUFFICES ASSUME FlowInit
               PROVE  FlowInv
    OBVIOUS
  <2>1. PICK canvas \in Canvas : graph.decl = canvas.decl /\ graph.node = canvas.node
    BY DEF FlowInit
  <2>2. Declared
    BY <2>1, CanvasAssumption DEF Declared, Id
  <2>3. QED
    BY <2>2 DEF FlowInit, FlowInv
<1>2. FlowInv /\ [FlowNext]_flowVars => FlowInv'
  <2> SUFFICES ASSUME FlowInv, [FlowNext]_flowVars
               PROVE  FlowInv'
    OBVIOUS
  <2>1. graph' = graph
    BY DEF FlowNext, LoadGraph, LowerGraph, flowVars
  <2>2. Declared' /\ Problems' = Problems /\ Lowering' = Lowering
    <3>1. Id' = Id
      BY <2>1 DEF Id
    <3>2. Declared'
      BY <2>1, <3>1 DEF FlowInv, Declared
    <3>3. QED
      BY <2>1, <3>2, SameGraph DEF Lowering, Refused
  <2>3. CASE LoadGraph
    BY <2>2, <2>3 DEF FlowInv, LoadGraph
  <2>4. CASE LowerGraph
    <3>1. Problems = {}
      BY <2>4, UnreadAssumption DEF FlowInv, LowerGraph
    <3>2. QED
      BY <2>2, <2>4, <3>1 DEF FlowInv, LowerGraph, Lowering
  <2>5. CASE UNCHANGED flowVars
    BY <2>2, <2>5 DEF FlowInv, flowVars
  <2>6. QED
    BY <2>3, <2>4, <2>5 DEF FlowNext
<1>3. QED
  BY <1>1, <1>2, PTL DEF FlowSpec

\* An edge of an admitted graph leaves no region that does not declare its port.
LEMMA AdmittedEdges ==
  ASSUME Declared, Problems = {}, TableRefusals = {}, NEW e \in graph.edges
  PROVE  /\ e.from.node \in Id /\ e.from.port \in graph.node[e.from.node].outs
         /\ e.to.node \in Id
         /\ \A r \in Range(Left(e.from.node, Readers(e.to.node))) :
              e.from.port \in graph.node[r].outs
<1>1. /\ EndProblems(e.from, "outs") = {} /\ EndProblems(e.to, "ins") = {}
      /\ ~Escapes(e)
  <2>1. /\ EndProblems(e.from, "outs") \cup EndProblems(e.to, "ins") \subseteq Problems
        /\ Escapes(e) => <<"escapes", e>> \in Problems
    BY DEF Problems
  <2>2. QED
    BY <2>1
<1>2. /\ e.from.node \in Id /\ e.from.port \in graph.node[e.from.node].outs
      /\ e.to.node \in Id
  BY <1>1 DEF EndProblems
<1>3. Contained(e.from.node) /\ Contained(e.to.node)
  BY <1>2 DEF TableRefusals
<1>4. QED
  BY <1>1, <1>2, <1>3, LeftOnes DEF Escapes, Readers

LEMMA NoCrossing ==
  ASSUME Declared, Problems = {}, TableRefusals = {}, NEW n \in Id
  PROVE  <<"crossing", "edge">> \notin EdgeRefusals(n)
<1> SUFFICES ASSUME NEW e \in Into(n)
             PROVE  <<"crossing", "edge">> \notin ReadRefusals(e.from, Readers(n), "edge")
  BY DEF EdgeRefusals
<1>1. e \in graph.edges /\ e.to.node = n
  BY DEF Into
<1>2. \A r \in Range(Left(e.from.node, Readers(n))) : e.from.port \in graph.node[r].outs
  BY <1>1, AdmittedEdges
<1>3. QED
  BY <1>2 DEF ReadRefusals

\* No drawing, however nested, that the loader's rule for edges lets through is
\* refused for a crossing edge by the lowering's copy of the rule (provider.rs
\* 4449-4489, connector-flux graph.rs 543-573).
THEOREM FlowCrossingsAgree == FlowSpec => []CrossingsAgree
<1>1. FlowInv => CrossingsAgree
  <2> SUFFICES ASSUME FlowInv, lowering # Unread
               PROVE  <<"crossing", "edge">> \notin lowering.refusals
    BY DEF CrossingsAgree
  <2>1. Declared /\ Problems = {} /\ lowering = Lowering
    BY DEF FlowInv
  <2>2. CASE TableRefusals # {}
    <3>1. \A n : <<"crossing", "edge">> \notin ShapeRefusals(n)
      BY DEF ShapeRefusals
    <3>2. <<"crossing", "edge">> \notin TableRefusals
      BY <3>1 DEF TableRefusals
    <3>3. QED
      BY <2>1, <2>2, <3>2 DEF Lowering, Refused
  <2>3. CASE TableRefusals = {} /\ EmissionRefusals # {}
    <3>1. \A n \in Emitted : n \in Id /\ <<"crossing", "edge">> \notin InputRefusals(n)
      BY <2>1, <2>3, NoCrossing DEF InputRefusals, Emitted
    <3>2. \A ref, readers, why : why # "edge" => <<"crossing", "edge">> \notin ReadRefusals(ref, readers, why)
      BY DEF ReadRefusals
    <3>3. \A n \in Emitted : <<"crossing", "edge">> \notin KindRefusals(n)
      BY <3>2 DEF KindRefusals
    <3>4. <<"crossing", "edge">> \notin EmissionRefusals
      BY <3>1, <3>2, <3>3 DEF EmissionRefusals
    <3>5. QED
      BY <2>1, <2>3, <3>4 DEF Lowering, Refused
  <2>4. CASE TableRefusals = {} /\ EmissionRefusals = {}
    BY <2>1, <2>4 DEF Lowering, Lowered
  <2>5. QED
    BY <2>2, <2>3, <2>4
<1>2. QED
  BY <1>1, FlowKeeps, PTL

-----------------------------------------------------------------------------
(* Flow graphs: the order of a block *)

\* A sequence without repetitions has as many elements as places.
LEMMA OnceCounted ==
  ASSUME NEW S, NEW q \in Seq(S), IsInjective(q)
  PROVE  IsFiniteSet(Range(q)) /\ Cardinality(Range(q)) = Len(q)
<1>1. Len(q) \in Nat /\ q \in [1 .. Len(q) -> Range(q)] /\ DOMAIN q = 1 .. Len(q)
  BY DEF Range
<1>2. q \in Bijection(1 .. Len(q), Range(q))
  BY <1>1 DEF Bijection, Injection, Surjection, Range
<1>3. ExistsBijection(1 .. Len(q), Range(q))
  BY <1>2 DEF ExistsBijection
<1>4. QED
  BY <1>1, <1>3, FS_Interval, FS_Bijection, FS_CountingElements

\* What Kahn's algorithm has so far: no id twice, and before each id everything
\* it waits for.
Sorted(o, ids, before, k) ==
  /\ o \in Seq(Range(ids)) /\ Len(o) <= k /\ IsInjective(o)
  /\ \A j \in DOMAIN o : \A pair \in before :
       pair[2] = o[j] => \E i \in 1 .. (j - 1) : o[i] = pair[1]

Waits(n, o, before) == \E pair \in before : pair[2] = n /\ pair[1] \notin Range(o)

LEMMA NextSorted ==
  ASSUME NEW S, NEW ids \in Seq(S), NEW before, NEW k \in Nat, NEW o, Sorted(o, ids, before, k),
         NEW n \in Range(ids) \ Range(o), ~Waits(n, o, before)
  PROVE  Sorted(Append(o, n), ids, before, k + 1)
<1> DEFINE d == Append(o, n)
<1>1. /\ o \in Seq(Range(ids)) /\ n \in Range(ids) /\ Len(o) \in Nat /\ Len(o) <= k
      /\ DOMAIN o = 1 .. Len(o) /\ IsInjective(o)
  BY DEF Sorted
<1>2. /\ d \in Seq(Range(ids)) /\ DOMAIN d = 1 .. (Len(o) + 1) /\ Len(d) = Len(o) + 1
      /\ d[Len(o) + 1] = n /\ \A i \in 1 .. Len(o) : d[i] = o[i]
  BY <1>1
<1>3. IsInjective(d)
  BY <1>1, AppendOnce
<1> HIDE DEF d
<1>4. ASSUME NEW j \in DOMAIN d, NEW pair \in before, pair[2] = d[j]
      PROVE  \E i \in 1 .. (j - 1) : d[i] = pair[1]
  <2>1. CASE j = Len(o) + 1
    <3>1. pair[1] \in Range(o) /\ j - 1 = Len(o)
      BY <1>1, <1>2, <1>4, <2>1 DEF Waits
    <3>2. PICK i \in 1 .. Len(o) : o[i] = pair[1]
      BY <1>1, <3>1 DEF Range
    <3>3. QED
      BY <1>2, <3>1, <3>2
  <2>2. CASE j # Len(o) + 1
    <3>1. j \in 1 .. Len(o) /\ j \in DOMAIN o
      BY <1>1, <1>2, <2>2
    <3>2. PICK i \in 1 .. (j - 1) : o[i] = pair[1]
      BY <1>2, <1>4, <3>1 DEF Sorted
    <3>3. i \in 1 .. Len(o)
      BY <1>1, <3>1
    <3>4. QED
      BY <1>2, <3>2, <3>3
  <2>3. QED
    BY <2>1, <2>2
<1>5. Len(o) + 1 <= k + 1
  BY <1>1
<1>6. QED
  BY <1>2, <1>3, <1>4, <1>5 DEF Sorted, d

LEMMA InOrderSorted ==
  ASSUME NEW S, NEW ids \in Seq(S), NEW before
  PROVE  Sorted(InOrder(ids, before), ids, before, Len(ids))
<1> DEFINE N == Len(ids)
           X == Seq(Range(ids))
           base == <<>>
           Eligible(o) == {i \in DOMAIN ids : ids[i] \notin Range(o) /\ ~Waits(ids[i], o, before)}
           Step(o) == IF Eligible(o) = {} THEN o ELSE Append(o, ids[Min(Eligible(o))])
           F == [p \in X \X (1 .. N) |-> Step(p[1])]
<1>1. N \in Nat /\ DOMAIN ids = 1 .. N
  OBVIOUS
<1>2. ASSUME NEW o, Eligible(o) # {}
      PROVE  /\ ids[Min(Eligible(o))] \in Range(ids) \ Range(o)
             /\ ~Waits(ids[Min(Eligible(o))], o, before)
  <2>1. Eligible(o) \in SUBSET Nat
    BY <1>1
  <2>2. Min(Eligible(o)) \in Eligible(o)
    BY <1>2, <2>1, LeastIsMin
  <2>3. QED
    BY <2>2 DEF Range
<1>3. base \in X /\ F \in [X \X (1 .. N) -> X]
  <2> HIDE DEF Eligible
  <2>1. \A o \in X : Step(o) \in X
    BY <1>2
  <2>2. QED
    BY <2>1
<1>4. PICK g : ResultsOf(g, X, base, N, F)
  <2> HIDE DEF F, N, X, base
  <2>1. QED
    BY <1>1, <1>3, StepsHaveResults
<1> DEFINE Follows(f) ==
             f = [k \in 0 .. N |->
                    IF k = 0 THEN base
                    ELSE LET done == f[k - 1]
                             waits(n) == \E pair \in before : pair[2] = n /\ pair[1] \notin Range(done)
                             ready == {i \in DOMAIN ids : ids[i] \notin Range(done) /\ ~waits(ids[i])}
                         IN  IF ready = {} THEN done ELSE Append(done, ids[Min(ready)])]
           take == CHOOSE f : Follows(f)
<1>5. Follows(g)
  <2>1. ASSUME NEW k \in 0 .. N, k # 0
        PROVE  g[k] = Step(g[k - 1])
    <3>1. k \in 1 .. N /\ k - 1 \in 0 .. N
      BY <1>1, <2>1
    <3>2. <<g[k - 1], k>> \in X \X (1 .. N)
      BY <1>4, <3>1 DEF ResultsOf
    <3> HIDE DEF Step, X
    <3>3. QED
      BY <1>4, <3>1, <3>2 DEF ResultsOf
  <2>2. g = [k \in 0 .. N |-> g[k]] /\ g[0] = base
    BY <1>4 DEF ResultsOf
  <2> HIDE DEF base
  <2>3. QED
    BY <2>1, <2>2 DEF Waits
<1>6. Follows(take)
  BY <1>5
<1>7. InOrder(ids, before) = take[N]
  BY DEF InOrder
<1> HIDE DEF take
<1>8. take[0] = base /\ \A k \in 1 .. N : take[k] = Step(take[k - 1])
  <2>1. take[0] = base
    BY <1>1, <1>6
  <2>2. ASSUME NEW k \in 1 .. N
        PROVE  take[k] = Step(take[k - 1])
    <3>1. k \in 0 .. N /\ k # 0
      BY <1>1
    <3> HIDE DEF base, N
    <3>2. QED
      BY <1>6, <3>1 DEF Waits
  <2>3. QED
    BY <2>1, <2>2
<1> DEFINE T == {k \in Nat : k <= N => Sorted(take[k], ids, before, k)}
<1>9. 0 \in T
  <2>1. Sorted(<<>>, ids, before, 0)
    BY DEF Sorted, IsInjective
  <2>2. QED
    BY <1>8, <2>1
<1>10. ASSUME NEW k \in Nat, k \in T
       PROVE  k + 1 \in T
  <2> SUFFICES ASSUME k + 1 <= N
               PROVE  Sorted(take[k + 1], ids, before, k + 1)
    OBVIOUS
  <2>1. k + 1 \in 1 .. N /\ (k + 1) - 1 = k /\ Sorted(take[k], ids, before, k)
    BY <1>1, <1>10
  <2>2. take[k + 1] = Step(take[k])
    <3> HIDE DEF Step, N
    <3>1. QED
      BY <1>8, <2>1
  <2>3. CASE Eligible(take[k]) = {}
    <3>1. Len(take[k]) \in Nat /\ Len(take[k]) <= k
      BY <2>1 DEF Sorted
    <3>2. Len(take[k]) <= k + 1
      BY <3>1
    <3> HIDE DEF Eligible
    <3>3. QED
      BY <2>1, <2>2, <2>3, <3>2 DEF Sorted
  <2>4. CASE Eligible(take[k]) # {}
    <3> HIDE DEF Eligible
    <3>1. QED
      BY <1>2, <2>1, <2>2, <2>4, NextSorted
  <2>5. QED
    BY <2>3, <2>4
<1> HIDE DEF T
<1>11. N \in T
  BY <1>1, <1>9, <1>10, SetInduction
<1>12. QED
  BY <1>1, <1>7, <1>11 DEF T

\* The nodes whose statements are in a block.
Members(b) == {n \in Emitted : RegionOf(n) = b}

Before(b) ==
  {p \in Members(b) \X Members(b) :
     p[1] # p[2] /\ \E e \in graph.edges : Owned(p[1], e.from.node) /\ Owned(p[2], e.to.node)}

\* No cycle among them: a block's order has all of its members, each once and
\* after those it depends on.
LEMMA OrderOfBlock ==
  ASSUME Declared, EmissionRefusals = {}, NEW b \in Blocks
  PROVE  LET o == Ordered(b) IN
         /\ o \in Seq(Members(b)) /\ Range(o) = Members(b) /\ IsInjective(o)
         /\ \A j \in DOMAIN o : \A p \in Before(b) :
              p[2] = o[j] => \E i \in 1 .. (j - 1) : o[i] = p[1]
<1> DEFINE children == Children(b)
           o == Ordered(b)
<1>1. graph.decl \in Seq(Id) /\ Range(graph.decl) = Id /\ IsInjective(graph.decl)
  BY DEF Declared
<1>2. children \in Seq(Id) /\ IsInjective(children) /\ Range(children) = Members(b)
  <2>1. Children(b) = Kept(graph.decl, Members(b))
    BY DEF Children, Members, RegionOf
  <2>2. Id \cap Members(b) = Members(b)
    BY DEF Members, Emitted
  <2>3. QED
    <3> HIDE DEF children
    <3>1. children = Kept(graph.decl, Members(b))
      BY <2>1 DEF children
    <3>2. QED
      BY <1>1, <2>2, <3>1, KeptElements
<1>3. o = InOrder(children, Before(b))
  BY <1>2 DEF Ordered, Before
<1>4. Sorted(o, children, Before(b), Len(children))
  <2> HIDE DEF children, o
  <2>1. QED
    BY <1>2, <1>3, InOrderSorted
<1>5. ~ (Len(o) < Len(children))
  <2>1. \A x \in Blocks : Len(Ordered(x)) < Len(Children(x)) => <<"cycle", x>> \in EmissionRefusals
    BY DEF EmissionRefusals
  <2>2. QED
    BY <2>1
<1> HIDE DEF children, o
<1>6. o \in Seq(Members(b)) /\ IsInjective(o) /\ Len(o) <= Len(children)
  BY <1>2, <1>4 DEF Sorted
<1>7. Range(o) = Members(b)
  <2>1. /\ IsFiniteSet(Range(o)) /\ Cardinality(Range(o)) = Len(o)
        /\ IsFiniteSet(Members(b)) /\ Cardinality(Members(b)) = Len(children)
    BY <1>2, <1>6, OnceCounted
  <2>2. Len(o) \in Nat /\ Len(children) \in Nat /\ Range(o) \subseteq Members(b)
    BY <1>2, <1>6 DEF Range
  <2>3. Len(o) = Len(children)
    BY <1>5, <1>6, <2>2
  <2>4. QED
    BY <2>1, <2>2, <2>3, FS_Subset
<1>8. QED
  BY <1>4, <1>6, <1>7 DEF o, Sorted

\* What can be in a body.
Statements == [node : Id \cup {NoNode},
               binds : {Own(n).binds : n \in Id} \cup {{<<n, "expected">>} : n \in Id} \cup {{}},
               opens : Id \cup {NoNode},
               reads : {Own(n).reads : n \in Id} \cup {Closing(b)[1].reads : b \in Blocks} \cup {{}}]

Acc == [out : Seq(Statements), at : [Emitted -> Nat]]

LEMMA OwnStatement ==
  ASSUME NEW n \in Id
  PROVE  /\ Own(n) \in Statements /\ Own(n).node = n
         /\ IsRegion(n) => Own(n).opens = n
         /\ ~IsRegion(n) => Own(n).opens = NoNode
<1>1. \/ KindOf(n) = "gate" /\ IsRegion(n)
      \/ KindOf(n) = "retry" /\ IsRegion(n)
      \/ KindOf(n) \in {"approval", "throttle"} /\ IsRegion(n) /\ KindOf(n) \notin {"gate", "retry"}
      \/ KindOf(n) \notin {"gate", "retry", "approval", "throttle"} /\ ~IsRegion(n)
  BY DEF IsRegion, RegionKind
<1>2. /\ Own(n).node = n
      /\ IsRegion(n) => Own(n).opens = n
      /\ ~IsRegion(n) => Own(n).opens = NoNode
  BY <1>1 DEF Own, Statement
<1>3. Own(n) = [node |-> Own(n).node, binds |-> Own(n).binds, opens |-> Own(n).opens, reads |-> Own(n).reads]
  BY <1>1 DEF Own, Statement
<1>4. QED
  BY <1>2, <1>3 DEF Statements

\* A literal's statement, if there is one.
LEMMA LiteralStatement ==
  ASSUME NEW n \in Id
  PROVE  /\ Literal(n) \in Seq(Statements)
         /\ \A i \in 1 .. Len(Literal(n)) :
              Literal(n)[i] = Statement(NoNode, {<<n, "expected">>}, NoNode, {})
<1>1. Statement(NoNode, {<<n, "expected">>}, NoNode, {}) \in Statements
  BY DEF Statement, Statements
<1> DEFINE s == Statement(NoNode, {<<n, "expected">>}, NoNode, {})
<1>2. Literal(n) = <<s>> \/ Literal(n) = <<>>
  BY DEF Literal
<1> HIDE DEF s
<1>3. s \in Statements
  BY <1>1 DEF s
<1>4. <<s>> \in Seq(Statements) /\ \A i \in 1 .. Len(<<s>>) : <<s>>[i] = s
  BY <1>3
<1>5. <<>> \in Seq(Statements) /\ \A i \in 1 .. Len(<<>>) : <<>>[i] = s
  OBVIOUS
<1>6. QED
  BY <1>2, <1>4, <1>5 DEF s

LEMMA ClosingStatement ==
  ASSUME NEW b \in Blocks
  PROVE  /\ Closing(b) \in Seq(Statements) /\ Len(Closing(b)) <= 1
         /\ \A i \in 1 .. Len(Closing(b)) :
              /\ i = 1 /\ Closing(b)[i].node = NoNode /\ Closing(b)[i].opens = NoNode
              /\ Closing(b)[i].binds = {}
<1>1. CASE Closing(b) = <<>>
  BY <1>1
<1>2. ASSUME NEW reads, Closing(b) = <<Statement(NoNode, {}, NoNode, reads)>>
      PROVE  /\ Closing(b) \in Seq(Statements) /\ Len(Closing(b)) <= 1
             /\ \A i \in 1 .. Len(Closing(b)) :
                  /\ i = 1 /\ Closing(b)[i].node = NoNode /\ Closing(b)[i].opens = NoNode
                  /\ Closing(b)[i].binds = {}
  <2>1. Closing(b)[1].reads = reads
    BY <1>2 DEF Statement
  <2>2. Statement(NoNode, {}, NoNode, reads) \in Statements
    BY <2>1 DEF Statement, Statements
  <2>3. QED
    BY <1>2, <2>2 DEF Statement
<1>3. QED
  BY <1>1, <1>2 DEF Closing

\* The statements of the first k members and where they landed.
Laid(o, k, acc) ==
  /\ acc \in Acc
  /\ \A j \in 1 .. k : acc.at[o[j]] \in 1 .. Len(acc.out) /\ acc.out[acc.at[o[j]]] = Own(o[j])
  /\ \A i, j \in 1 .. k : i < j => acc.at[o[i]] < acc.at[o[j]]
  /\ \A i \in 1 .. Len(acc.out) :
       \/ \E j \in 1 .. k : i = acc.at[o[j]]
       \/ \E n \in Id : acc.out[i] = Statement(NoNode, {<<n, "expected">>}, NoNode, {})

LEMMA NextLaid ==
  ASSUME NEW o \in Seq(Emitted), IsInjective(o), NEW k \in Nat, k + 1 \in 1 .. Len(o),
         NEW acc, Laid(o, k, acc)
  PROVE  Laid(o, k + 1, Emit(acc, o[k + 1]))
<1> DEFINE n == o[k + 1]
           L == Len(acc.out)
           M == Len(Literal(n))
           lit == acc.out \o Literal(n)
           next == Emit(acc, n)
<1>1. /\ n \in Emitted /\ n \in Id /\ acc \in Acc /\ acc.out \in Seq(Statements) /\ acc.at \in [Emitted -> Nat]
      /\ L \in Nat /\ DOMAIN o = 1 .. Len(o) /\ Len(o) \in Nat
  BY DEF Laid, Acc, Emitted
<1>2. n = o[k + 1]
  OBVIOUS
<1> HIDE DEF n
<1>3. Own(n) \in Statements /\ Literal(n) \in Seq(Statements) /\ M \in Nat
  <2>1. n \in Id
    BY <1>1
  <2>2. Own(n) \in Statements
    BY <2>1, OwnStatement
  <2>3. Literal(n) \in Seq(Statements)
    BY <2>1, LiteralStatement
  <2>4. QED
    BY <2>2, <2>3
<1>4. /\ lit \in Seq(Statements) /\ Len(lit) = L + M
      /\ \A i \in 1 .. L : lit[i] = acc.out[i]
      /\ \A i \in 1 .. M : lit[L + i] = Literal(n)[i]
  <2> DEFINE a == acc.out
             l == Literal(n)
  <2>1. a \in Seq(Statements) /\ l \in Seq(Statements)
    BY <1>1, <1>3
  <2> HIDE DEF a, l
  <2>2. /\ a \o l \in Seq(Statements) /\ Len(a \o l) = Len(a) + Len(l)
        /\ \A i \in 1 .. Len(a) : (a \o l)[i] = a[i]
        /\ \A i \in 1 .. Len(l) : (a \o l)[Len(a) + i] = l[i]
    BY <2>1
  <2>3. QED
    BY <2>2 DEF a, l
<1>5. next.out = lit \o <<Own(n)>> /\ next.at = [acc.at EXCEPT ![n] = L + M + 1]
      /\ next = [out |-> next.out, at |-> next.at]
  BY DEF Emit, Landing
<1> HIDE DEF lit
<1>6. /\ next.out \in Seq(Statements) /\ Len(next.out) = L + M + 1
      /\ \A i \in 1 .. (L + M) : next.out[i] = lit[i]
      /\ next.out[L + M + 1] = Own(n)
  <2> DEFINE s == Own(n)
  <2>1. s \in Statements /\ lit \in Seq(Statements)
    BY <1>3, <1>4
  <2> HIDE DEF s
  <2>2. /\ lit \o <<s>> \in Seq(Statements) /\ Len(lit \o <<s>>) = Len(lit) + 1
        /\ \A i \in 1 .. Len(lit) : (lit \o <<s>>)[i] = lit[i]
        /\ (lit \o <<s>>)[Len(lit) + 1] = s
    BY <2>1
  <2>3. QED
    BY <1>4, <1>5, <2>2 DEF s
<1>7. next.at[n] = L + M + 1 /\ next.at \in [Emitted -> Nat]
      /\ \A m \in Emitted : m # n => next.at[m] = acc.at[m]
  <2>1. L + M + 1 \in Nat
    BY <1>1, <1>3
  <2> HIDE DEF next, L, M
  <2>2. QED
    BY <1>1, <1>5, <2>1
<1> HIDE DEF next, L, M
<1>8. ASSUME NEW j \in 1 .. k
      PROVE  /\ next.at[o[j]] = acc.at[o[j]] /\ acc.at[o[j]] \in 1 .. L /\ acc.out[acc.at[o[j]]] = Own(o[j])
             /\ next.at[o[j]] < next.at[n]
  <2>1. j \in 1 .. Len(o) /\ j # k + 1 /\ o[j] \in Emitted /\ o[j] # n
    BY <1>1, <1>2 DEF IsInjective
  <2>2. next.at[o[j]] = acc.at[o[j]]
    BY <1>7, <2>1
  <2>3. acc.at[o[j]] \in 1 .. L /\ acc.out[acc.at[o[j]]] = Own(o[j])
    BY DEF Laid, L
  <2>4. acc.at[o[j]] < L + M + 1
    BY <1>1, <1>3, <2>3
  <2>5. QED
    BY <1>7, <2>2, <2>3, <2>4
<1>9. next \in Acc
  BY <1>5, <1>6, <1>7 DEF Acc
<1>10. ASSUME NEW j \in 1 .. (k + 1)
      PROVE  next.at[o[j]] \in 1 .. Len(next.out) /\ next.out[next.at[o[j]]] = Own(o[j])
  <2>1. CASE j = k + 1
    <3>1. L + M + 1 \in 1 .. (L + M + 1)
      BY <1>1, <1>3
    <3>2. QED
      BY <1>6, <1>7, <1>2, <2>1, <3>1
  <2>2. CASE j # k + 1
    <3>1. j \in 1 .. k
      BY <2>2
    <3>2. /\ next.at[o[j]] = acc.at[o[j]] /\ acc.at[o[j]] \in 1 .. L /\ acc.out[acc.at[o[j]]] = Own(o[j])
      BY <1>8, <3>1
    <3>3. \A a \in 1 .. L : a \in 1 .. (L + M) /\ a \in 1 .. (L + M + 1)
      BY <1>1, <1>3
    <3>4. QED
      BY <1>4, <1>6, <3>2, <3>3
  <2>3. QED
    BY <2>1, <2>2
<1>11. ASSUME NEW i \in 1 .. (k + 1), NEW j \in 1 .. (k + 1), i < j
       PROVE  next.at[o[i]] < next.at[o[j]]
  <2>1. i \in 1 .. k
    BY <1>11
  <2>2. CASE j = k + 1
    BY <1>8, <1>2, <2>1, <2>2
  <2>3. CASE j # k + 1
    <3>1. j \in 1 .. k
      BY <2>3
    <3>2. acc.at[o[i]] < acc.at[o[j]]
      BY <1>11, <2>1, <3>1 DEF Laid
    <3>3. QED
      BY <1>8, <2>1, <3>1, <3>2
  <2>4. QED
    BY <2>2, <2>3
<1>12. ASSUME NEW i \in 1 .. Len(next.out)
       PROVE  \/ \E j \in 1 .. (k + 1) : i = next.at[o[j]]
              \/ \E m \in Id : next.out[i] = Statement(NoNode, {<<m, "expected">>}, NoNode, {})
  <2>1. i \in 1 .. (L + M + 1)
    BY <1>6
  <2>2. CASE i \in 1 .. L
    <3>1. i \in 1 .. (L + M)
      BY <1>1, <1>3, <2>2
    <3>2. next.out[i] = acc.out[i]
      BY <1>4, <1>6, <2>2, <3>1
    <3>3. CASE \E j \in 1 .. k : i = acc.at[o[j]]
      <4>1. PICK j \in 1 .. k : i = acc.at[o[j]]
        BY <3>3
      <4>2. j \in 1 .. (k + 1)
        OBVIOUS
      <4>3. QED
        BY <1>8, <4>1, <4>2
    <3>4. QED
      BY <2>2, <3>2, <3>3 DEF Laid, L
  <2>3. CASE i \in (L + 1) .. (L + M)
    <3>1. i - L \in 1 .. M /\ L + (i - L) = i /\ i \in 1 .. (L + M)
      BY <1>1, <1>3, <2>3
    <3>2. next.out[i] = Literal(n)[i - L]
      BY <1>4, <1>6, <3>1
    <3>3. QED
      BY <1>1, <3>1, <3>2, LiteralStatement DEF M
  <2>4. CASE i = L + M + 1
    <3>1. k + 1 \in 1 .. (k + 1)
      OBVIOUS
    <3>2. QED
      BY <1>7, <1>2, <2>4, <3>1
  <2>5. i \in 1 .. L \/ i \in (L + 1) .. (L + M) \/ i = L + M + 1
    BY <1>1, <1>3, <2>1
  <2>6. QED
    BY <2>2, <2>3, <2>4, <2>5
<1>13. Laid(o, k + 1, next)
  BY <1>9, <1>10, <1>11, <1>12 DEF Laid
<1>14. QED
  BY <1>13, <1>2 DEF next

\* The loop of emit_region, unfolded.
LEMMA EmittedLaid ==
  ASSUME Declared, EmissionRefusals = {}, NEW b \in Blocks
  PROVE  \E acc : /\ Laid(Ordered(b), Len(Ordered(b)), acc)
                  /\ EmitRegion(b) = [out |-> acc.out \o Closing(b), at |-> acc.at]
<1> DEFINE o == Ordered(b)
           N == Len(o)
           base == [out |-> <<>>, at |-> [n \in Emitted |-> 0]]
           F == [p \in Acc \X (1 .. N) |-> Emit(p[1], o[p[2]])]
<1>1. /\ o \in Seq(Emitted) /\ IsInjective(o) /\ N \in Nat /\ DOMAIN o = 1 .. N
      /\ \A k \in 1 .. N : o[k] \in Emitted
  <2>1. o \in Seq(Members(b)) /\ IsInjective(o)
    BY OrderOfBlock
  <2>2. Members(b) \subseteq Emitted
    BY DEF Members
  <2> HIDE DEF o
  <2>3. QED
    BY <2>1, <2>2
<1>2. ASSUME NEW acc \in Acc, NEW n \in Emitted
      PROVE  Emit(acc, n) \in Acc
  <2>1. acc.out \in Seq(Statements) /\ acc.at \in [Emitted -> Nat] /\ n \in Id
    BY DEF Acc, Emitted
  <2>2. Literal(n) \in Seq(Statements) /\ Own(n) \in Statements
    BY <2>1, OwnStatement, LiteralStatement
  <2> DEFINE l == Literal(n)
             s == Own(n)
             a == acc.out
  <2>3. Len(a) \in Nat /\ Len(l) \in Nat
    BY <2>1, <2>2
  <2>4. Landing(n, acc.out) \in Nat
    BY <2>3 DEF Landing
  <2>5. a \in Seq(Statements) /\ l \in Seq(Statements) /\ s \in Statements
    BY <2>1, <2>2
  <2> HIDE DEF l, s, a
  <2>6. a \o l \o <<s>> \in Seq(Statements)
    BY <2>5
  <2>7. QED
    BY <2>1, <2>4, <2>6 DEF Emit, Acc, l, s, a
<1>3. base \in Acc /\ F \in [Acc \X (1 .. N) -> Acc]
  <2>1. base \in Acc
    BY DEF Acc
  <2> HIDE DEF o, N
  <2>2. QED
    BY <1>1, <1>2, <2>1
<1>4. PICK g : ResultsOf(g, Acc, base, N, F)
  <2> HIDE DEF F, N, base
  <2>1. QED
    BY <1>1, <1>3, StepsHaveResults
<1> DEFINE Follows(f) == f = [k \in 0 .. N |-> IF k = 0 THEN base ELSE Emit(f[k - 1], o[k])]
           emitted == CHOOSE f : Follows(f)
<1>5. Follows(g)
  <2>1. ASSUME NEW k \in 0 .. N, k # 0
        PROVE  g[k] = Emit(g[k - 1], o[k])
    <3>1. k \in 1 .. N /\ k - 1 \in 0 .. N
      BY <1>1, <2>1
    <3>2. <<g[k - 1], k>> \in Acc \X (1 .. N)
      BY <1>4, <3>1 DEF ResultsOf
    <3> HIDE DEF o, N
    <3>3. QED
      BY <1>4, <3>1, <3>2 DEF ResultsOf
  <2>2. g = [k \in 0 .. N |-> g[k]] /\ g[0] = base
    BY <1>4 DEF ResultsOf
  <2> HIDE DEF base, o, N
  <2>3. QED
    BY <2>1, <2>2
<1>6. Follows(emitted)
  BY <1>5
<1>7. EmitRegion(b) = [out |-> emitted[N].out \o Closing(b), at |-> emitted[N].at]
  BY DEF EmitRegion
<1> HIDE DEF emitted, o
<1>8. emitted[0] = base /\ \A k \in 1 .. N : emitted[k] = Emit(emitted[k - 1], o[k])
  <2>1. emitted[0] = base
    BY <1>1, <1>6
  <2>2. ASSUME NEW k \in 1 .. N
        PROVE  k \in 0 .. N /\ k # 0
    BY <1>1
  <2> HIDE DEF base, N
  <2>3. QED
    BY <1>6, <2>1, <2>2
<1> DEFINE T == {k \in Nat : k <= N => Laid(o, k, emitted[k])}
<1>9. 0 \in T
  <2>1. 1 .. 0 = {} /\ base \in Acc /\ Len(base.out) = 0
    BY <1>3
  <2> HIDE DEF base
  <2>2. QED
    BY <1>8, <2>1 DEF Laid
<1>10. ASSUME NEW k \in Nat, k \in T
       PROVE  k + 1 \in T
  <2> SUFFICES ASSUME k + 1 <= N
               PROVE  Laid(o, k + 1, emitted[k + 1])
    OBVIOUS
  <2>1. k + 1 \in 1 .. N /\ (k + 1) - 1 = k /\ Laid(o, k, emitted[k])
    BY <1>1, <1>10
  <2>2. emitted[k + 1] = Emit(emitted[k], o[k + 1])
    <3> HIDE DEF N
    <3>1. QED
      BY <1>8, <2>1
  <2>3. QED
    BY <1>1, <2>1, <2>2, NextLaid
<1> HIDE DEF T
<1>11. N \in T
  BY <1>1, <1>9, <1>10, SetInduction
<1>12. Laid(o, N, emitted[N])
  BY <1>1, <1>11 DEF T
<1>13. QED
  BY <1>7, <1>12 DEF o, N

\* What a block's body holds: the statement of each member, a literal ahead of
\* its gate, and at the end what closes it.
InBlock(b, out, at) ==
  /\ out \in Seq(Statements) /\ at \in [Emitted -> Nat]
  /\ \A n \in Members(b) : at[n] \in 1 .. Len(out) /\ out[at[n]] = Own(n)
  /\ \A p \in Before(b) : at[p[1]] < at[p[2]]
  /\ \A i \in 1 .. Len(out) :
       \/ \E n \in Members(b) : i = at[n]
       \/ \E n \in Id : out[i] = Statement(NoNode, {<<n, "expected">>}, NoNode, {})
       \/ i = Len(out) /\ Len(Closing(b)) = 1 /\ out[i] = Closing(b)[1]

LEMMA BodyOfBlock ==
  ASSUME Declared, EmissionRefusals = {}, NEW b \in Blocks
  PROVE  InBlock(b, EmitRegion(b).out, EmitRegion(b).at)
<1> DEFINE o == Ordered(b)
<1>1. PICK acc : /\ Laid(Ordered(b), Len(Ordered(b)), acc)
                 /\ EmitRegion(b) = [out |-> acc.out \o Closing(b), at |-> acc.at]
  BY EmittedLaid
<1> DEFINE N == Len(o)
           a == acc.out
           at == acc.at
           c == Closing(b)
           out == a \o c
<1>2. /\ o \in Seq(Members(b)) /\ Range(o) = Members(b)
      /\ \A j \in DOMAIN o : \A p \in Before(b) :
              p[2] = o[j] => \E i \in 1 .. (j - 1) : o[i] = p[1]
  BY OrderOfBlock
<1>3. /\ EmitRegion(b).out = out /\ EmitRegion(b).at = at /\ Laid(o, N, acc)
  BY <1>1
<1>4. /\ a \in Seq(Statements) /\ at \in [Emitted -> Nat]
      /\ \A j \in 1 .. N : at[o[j]] \in 1 .. Len(a) /\ a[at[o[j]]] = Own(o[j])
      /\ \A i, j \in 1 .. N : i < j => at[o[i]] < at[o[j]]
      /\ \A i \in 1 .. Len(a) :
           \/ \E j \in 1 .. N : i = at[o[j]]
           \/ \E n \in Id : a[i] = Statement(NoNode, {<<n, "expected">>}, NoNode, {})
  <2> HIDE DEF o, N
  <2>1. QED
    BY <1>3 DEF Laid, Acc
<1>5. c \in Seq(Statements) /\ Len(c) <= 1
  BY ClosingStatement
<1> HIDE DEF o, a, at, c
<1>6. /\ out \in Seq(Statements) /\ Len(out) = Len(a) + Len(c) /\ Len(a) \in Nat /\ Len(c) \in Nat
      /\ \A i \in 1 .. Len(a) : out[i] = a[i]
      /\ \A i \in 1 .. Len(c) : out[Len(a) + i] = c[i]
  BY <1>4, <1>5
<1> HIDE DEF out
<1>7. N \in Nat /\ DOMAIN o = 1 .. N /\ \A j \in 1 .. N : o[j] \in Members(b)
  BY <1>2
<1>8. \A n \in Members(b) : \E j \in 1 .. N : n = o[j]
  BY <1>2, <1>7 DEF Range
<1>9. \A i \in 1 .. Len(a) : i \in 1 .. Len(out)
  BY <1>6
<1> HIDE DEF N
<1>10. ASSUME NEW n \in Members(b)
       PROVE  at[n] \in 1 .. Len(out) /\ out[at[n]] = Own(n)
  BY <1>4, <1>6, <1>8, <1>9
<1>11. ASSUME NEW p \in Before(b)
       PROVE  at[p[1]] < at[p[2]]
  <2>1. p[2] \in Members(b)
    BY DEF Before
  <2>2. PICK j \in 1 .. N : p[2] = o[j]
    BY <1>8, <2>1
  <2>3. PICK i \in 1 .. (j - 1) : o[i] = p[1]
    BY <1>2, <1>7, <2>2
  <2>4. i \in 1 .. N /\ i < j
    BY <1>7
  <2>5. QED
    BY <1>4, <2>2, <2>3, <2>4
<1>12. ASSUME NEW i \in 1 .. Len(out)
       PROVE  \/ \E n \in Members(b) : i = at[n]
              \/ \E n \in Id : out[i] = Statement(NoNode, {<<n, "expected">>}, NoNode, {})
              \/ i = Len(out) /\ Len(c) = 1 /\ out[i] = c[1]
  <2>1. CASE i \in 1 .. Len(a)
    <3>1. out[i] = a[i]
      BY <1>6, <2>1
    <3>2. CASE \E j \in 1 .. N : i = at[o[j]]
      BY <1>7, <3>2
    <3>3. CASE \E n \in Id : a[i] = Statement(NoNode, {<<n, "expected">>}, NoNode, {})
      BY <3>1, <3>3
    <3>4. QED
      BY <1>4, <2>1, <3>2, <3>3
  <2>2. CASE i \notin 1 .. Len(a)
    <3>1. Len(c) = 1 /\ i = Len(a) + 1 /\ 1 \in 1 .. Len(c)
      <4>1. /\ i \in 1 .. (Len(a) + Len(c)) /\ Len(a) \in Nat /\ Len(c) \in Nat
            /\ ~ (i <= Len(a)) /\ Len(c) <= 1
        BY <1>5, <1>6, <2>2
      <4>2. QED
        BY <4>1
    <3>2. out[i] = c[1] /\ i = Len(out)
      BY <1>6, <3>1
    <3>3. QED
      BY <3>1, <3>2
  <2>3. QED
    BY <2>1, <2>2
<1>13. InBlock(b, out, at)
  BY <1>4, <1>6, <1>10, <1>11, <1>12 DEF InBlock, c
<1>14. QED
  BY <1>3, <1>13

-----------------------------------------------------------------------------
(* Flow graphs: from the body of the op to a node *)

\* An admitted graph of which nothing was refused.
Sound == Declared /\ Problems = {} /\ TableRefusals = {} /\ EmissionRefusals = {}

LEMMA WellFormed ==
  ASSUME Sound, NEW n \in Id
  PROVE  /\ Contained(n)
         /\ RegionOf(n) # NoNode => /\ RegionOf(n) \in Id /\ IsRegion(RegionOf(n))
                                    /\ RegionOf(n) \in Emitted
         /\ RegionOf(n) \in Blocks
<1>1. Contained(n)
  BY DEF Sound, TableRefusals
<1>2. StructureProblems(n) = {}
  <2>1. NodeProblems(n) \cup StructureProblems(n) \subseteq Problems
    BY DEF Problems
  <2>2. QED
    BY <2>1 DEF Sound
<1>3. RegionOf(n) # NoNode => RegionOf(n) \in Id /\ IsRegion(RegionOf(n))
  BY <1>2 DEF StructureProblems, RegionOf
<1>4. \A r : IsRegion(r) => ~IsBoundary(r)
  BY DEF IsRegion, IsBoundary, RegionKind, BoundaryKind
<1>5. QED
  BY <1>1, <1>3, <1>4 DEF Emitted, Blocks

\* From the body of the op inwards to n: each region is in the one before it.
Inside(n, w) ==
  /\ w \in Seq(Emitted) /\ Len(w) # 0 /\ w[Len(w)] = n /\ RegionOf(w[1]) = NoNode
  /\ \A i \in 1 .. (Len(w) - 1) : w[i] = RegionOf(w[i + 1]) /\ IsRegion(w[i])

LEMMA PathInwards ==
  ASSUME Sound, NEW n \in Emitted, NEW em
  PROVE  \E w : /\ Inside(n, w)
                /\ PathTo(n, em) = [i \in 1 .. Len(w) |-> em[RegionOf(w[i])].at[w[i]]]
<1> DEFINE e == Enclosing(n)
           L == Len(e)
           c == <<n>> \o e
           w == Reverse(c)
<1>1. n \in Id /\ Declared /\ Contained(n)
  BY WellFormed DEF Emitted, Sound
<1>2. /\ e \in Seq(Links) /\ L \in Nat
      /\ e = <<>> <=> RegionOf(n) = NoNode
      /\ e # <<>> => e[1] = RegionOf(n) /\ RegionOf(e[L]) = NoNode
      /\ \A i \in 1 .. L : e[i] \in Id /\ e[i] # NoNode
      /\ \A i \in 1 .. (L - 1) : e[i + 1] = RegionOf(e[i])
  BY <1>1, EnclosingFacts
<1> HIDE DEF e, L
<1>3. \A i \in 1 .. L : e[i] \in Emitted /\ IsRegion(e[i])
  <2>1. CASE L = 0
    BY <2>1
  <2>2. CASE L # 0
    <3>1. e # <<>> /\ 1 \in 1 .. L
      BY <1>2, <2>2 DEF L
    <3>2. e[1] \in Emitted /\ IsRegion(e[1])
      BY <1>1, <1>2, <3>1, WellFormed
    <3>3. ASSUME NEW i \in 1 .. L, i # 1
          PROVE  e[i] \in Emitted /\ IsRegion(e[i])
      <4>1. i - 1 \in 1 .. (L - 1) /\ i - 1 \in 1 .. L /\ (i - 1) + 1 = i
        BY <1>2, <3>3
      <4>2. e[i] = RegionOf(e[i - 1]) /\ e[i - 1] \in Id /\ e[i] # NoNode
        BY <1>2, <4>1
      <4>3. QED
        BY <4>2, WellFormed
    <3>4. QED
      BY <3>2, <3>3
  <2>3. QED
    BY <2>1, <2>2
<1>4. /\ c \in Seq(Emitted) /\ Len(c) = L + 1 /\ c[1] = n
      /\ \A i \in 1 .. L : c[i + 1] = e[i]
  <2>1. e \in Seq(Emitted)
    BY <1>2, <1>3 DEF L
  <2>2. QED
    BY <1>2, <2>1 DEF L
<1> HIDE DEF c
<1>5. \A i \in 1 .. L : c[i + 1] = RegionOf(c[i]) /\ IsRegion(c[i + 1])
  <2> SUFFICES ASSUME NEW i \in 1 .. L
               PROVE  c[i + 1] = RegionOf(c[i]) /\ IsRegion(c[i + 1])
    OBVIOUS
  <2>1. CASE i = 1
    <3>1. e # <<>>
      BY <1>2, <2>1 DEF L
    <3>2. QED
      BY <1>2, <1>3, <1>4, <2>1, <3>1
  <2>2. CASE i # 1
    <3>1. i - 1 \in 1 .. (L - 1) /\ i - 1 \in 1 .. L /\ (i - 1) + 1 = i
      BY <1>2, <2>2
    <3>2. c[i] = e[i - 1] /\ e[i] = RegionOf(e[i - 1])
      BY <1>2, <1>4, <3>1
    <3>3. QED
      BY <1>3, <1>4, <3>2
  <2>3. QED
    BY <2>1, <2>2
<1>6. RegionOf(c[L + 1]) = NoNode
  <2>1. CASE L = 0
    BY <1>2, <1>4, <2>1 DEF L
  <2>2. CASE L # 0
    <3>1. e # <<>> /\ L \in 1 .. L
      BY <1>2, <2>2 DEF L
    <3>2. QED
      BY <1>2, <1>4, <3>1
  <2>3. QED
    BY <2>1, <2>2
<1>7. /\ w = [i \in 1 .. (L + 1) |-> c[(L + 1) - i + 1]]
  BY <1>4 DEF Reverse
<1>8. \A i \in 1 .. (L + 1) : (L + 1) - i + 1 \in 1 .. (L + 1)
  BY <1>2
<1>9. \A j \in 1 .. (L + 1) : c[j] \in Emitted
  BY <1>4
<1>10. /\ w \in Seq(Emitted) /\ Len(w) = L + 1 /\ DOMAIN w = 1 .. (L + 1)
       /\ \A i \in 1 .. (L + 1) : w[i] = c[(L + 1) - i + 1]
  BY <1>2, <1>7, <1>8, <1>9
<1> HIDE DEF w
<1>11. w[Len(w)] = n /\ RegionOf(w[1]) = NoNode /\ Len(w) # 0
  <2>1. 1 \in 1 .. (L + 1) /\ L + 1 \in 1 .. (L + 1) /\ (L + 1) - 1 + 1 = L + 1 /\ (L + 1) - (L + 1) + 1 = 1
    BY <1>2
  <2>2. QED
    BY <1>2, <1>4, <1>6, <1>10, <2>1
<1>12. ASSUME NEW i \in 1 .. (Len(w) - 1)
       PROVE  w[i] = RegionOf(w[i + 1]) /\ IsRegion(w[i])
  <2> DEFINE j == L - i + 1
  <2>1. /\ i \in 1 .. (L + 1) /\ i + 1 \in 1 .. (L + 1) /\ j \in 1 .. L
        /\ (L + 1) - i + 1 = j + 1 /\ (L + 1) - (i + 1) + 1 = j
    BY <1>2, <1>10
  <2> HIDE DEF j
  <2>2. w[i] = c[j + 1] /\ w[i + 1] = c[j]
    BY <1>10, <2>1
  <2>3. QED
    BY <1>5, <2>1, <2>2
<1>13. Inside(n, w)
  BY <1>10, <1>11, <1>12 DEF Inside
<1>14. PathTo(n, em) = [i \in 1 .. Len(w) |-> em[RegionOf(w[i])].at[w[i]]]
  BY <1>10 DEF PathTo, w, c, e, RegionOf
<1>15. QED
  BY <1>13, <1>14

\* The body of an op and the paths to its nodes.
LEMMA LoweredBodies ==
  ASSUME Sound, lowering = Lowered
  PROVE  \E em : /\ DOMAIN lowering.body = Blocks
                 /\ \A b \in Blocks : /\ lowering.body[b] = em[b].out
                                      /\ InBlock(b, em[b].out, em[b].at)
                 /\ \A n \in Emitted : lowering.paths[n] = PathTo(n, em)
<1> DEFINE em == [b \in Blocks |-> EmitRegion(b)]
<1>1. /\ lowering.body = [b \in Blocks |-> em[b].out]
      /\ lowering.paths = [n \in Emitted |-> PathTo(n, em)]
  BY DEF Lowered
<1>2. \A b \in Blocks : em[b] = EmitRegion(b)
  OBVIOUS
<1> HIDE DEF em
<1>3. \A b \in Blocks : InBlock(b, em[b].out, em[b].at)
  BY <1>2, BodyOfBlock DEF Sound
<1>4. QED
  BY <1>1, <1>3

LEMMA StatementsOfNodes ==
  ASSUME NEW b \in Blocks, NEW out, NEW at, InBlock(b, out, at), NoNode \notin Id
  PROVE  \A i \in 1 .. Len(out) : \A n \in Id : out[i].node = n => n \in Members(b) /\ i = at[n]
<1> SUFFICES ASSUME NEW i \in 1 .. Len(out), NEW n \in Id, out[i].node = n
             PROVE  n \in Members(b) /\ i = at[n]
  OBVIOUS
<1>1. CASE \E m \in Members(b) : i = at[m]
  <2>1. PICK m \in Members(b) : i = at[m]
    BY <1>1
  <2>2. m \in Id /\ out[i] = Own(m)
    BY <2>1 DEF InBlock, Members, Emitted
  <2>3. m = n
    BY <2>2, OwnStatement
  <2>4. QED
    BY <2>1, <2>3
<1>2. CASE \E m \in Id : out[i] = Statement(NoNode, {<<m, "expected">>}, NoNode, {})
  BY <1>2 DEF Statement
<1>3. CASE Len(Closing(b)) = 1 /\ out[i] = Closing(b)[1]
  <2>1. 1 \in 1 .. Len(Closing(b))
    BY <1>3
  <2>2. Closing(b)[1].node = NoNode
    BY <2>1, ClosingStatement
  <2>3. QED
    BY <1>3, <2>2
<1>4. QED
  BY <1>1, <1>2, <1>3 DEF InBlock

LEMMA LeadsHome ==
  ASSUME Sound, NEW em, NEW n \in Emitted,
         \A b \in Blocks : lowering.body[b] = em[b].out /\ InBlock(b, em[b].out, em[b].at),
         lowering.paths[n] = PathTo(n, em)
  PROVE  Home(lowering.paths[n]) = Own(n)
<1>1. PICK w : /\ Inside(n, w)
               /\ PathTo(n, em) = [i \in 1 .. Len(w) |-> em[RegionOf(w[i])].at[w[i]]]
  BY PathInwards
<1> DEFINE L == Len(w)
           path == lowering.paths[n]
<1>2. /\ w \in Seq(Emitted) /\ L \in Nat /\ L # 0 /\ w[L] = n /\ RegionOf(w[1]) = NoNode
      /\ \A i \in 1 .. (L - 1) : w[i] = RegionOf(w[i + 1]) /\ IsRegion(w[i])
      /\ \A i \in 1 .. L : w[i] \in Emitted /\ w[i] \in Id
  BY <1>1 DEF Inside, Emitted
<1>3. path = [i \in 1 .. L |-> em[RegionOf(w[i])].at[w[i]]]
  BY <1>1
<1> HIDE DEF L, path
<1>4. ASSUME NEW i \in 1 .. L
      PROVE  RegionOf(w[i]) \in Blocks /\ lowering.body[RegionOf(w[i])][path[i]] = Own(w[i])
  <2>1. w[i] \in Emitted /\ w[i] \in Id
    BY <1>2
  <2>2. RegionOf(w[i]) \in Blocks
    BY <2>1, WellFormed
  <2>3. w[i] \in Members(RegionOf(w[i]))
    BY <2>1 DEF Members
  <2>4. path[i] = em[RegionOf(w[i])].at[w[i]]
    BY <1>3
  <2>5. QED
    BY <2>2, <2>3, <2>4 DEF InBlock
<1>5. Len(path) = L /\ Last(path) = path[L]
  BY <1>2, <1>3 DEF Last
<1> DEFINE Follows(f) ==
             f = [i \in 0 .. (Len(path) - 1) |->
                    IF i = 0 THEN NoNode ELSE lowering.body[f[i - 1]][path[i]].opens]
           block == CHOOSE f : Follows(f)
           g == [i \in 0 .. (L - 1) |-> IF i = 0 THEN NoNode ELSE w[i]]
<1>6. \A i \in 0 .. (L - 1) : g[i] = RegionOf(w[i + 1])
  BY <1>2
<1>7. ASSUME NEW i \in 1 .. (L - 1)
      PROVE  lowering.body[RegionOf(w[i])][path[i]].opens = w[i]
  <2>1. i \in 1 .. L
    BY <1>2
  <2>2. w[i] \in Id /\ IsRegion(w[i])
    BY <1>2, <2>1
  <2>3. QED
    BY <1>4, <2>1, <2>2, OwnStatement
<1>8. Follows(g)
  <2>1. ASSUME NEW i \in 0 .. (L - 1), i # 0
        PROVE  g[i] = lowering.body[g[i - 1]][path[i]].opens
    <3>1. i \in 1 .. (L - 1) /\ i - 1 \in 0 .. (L - 1) /\ (i - 1) + 1 = i /\ g[i] = w[i]
      BY <1>2, <2>1
    <3>2. g[i - 1] = RegionOf(w[i])
      BY <1>6, <3>1
    <3> HIDE DEF g
    <3>3. QED
      BY <1>7, <3>1, <3>2
  <2>2. g = [i \in 0 .. (L - 1) |-> g[i]] /\ 0 \in 0 .. (L - 1) /\ g[0] = NoNode
    BY <1>2
  <2> HIDE DEF g
  <2>3. QED
    BY <1>5, <2>1, <2>2
<1>9. Follows(block)
  BY <1>8
<1>10. Home(path) = lowering.body[block[Len(path) - 1]][Last(path)]
  BY DEF Home
<1> HIDE DEF block, g
<1>11. \A i \in 0 .. (L - 1) :
         block[i] = IF i = 0 THEN NoNode ELSE lowering.body[block[i - 1]][path[i]].opens
  BY <1>5, <1>9
<1> DEFINE T == {i \in Nat : i <= L - 1 => block[i] = RegionOf(w[i + 1])}
<1>12. 0 \in T
  <2>1. 0 \in 0 .. (L - 1) /\ 0 + 1 = 1
    BY <1>2
  <2>2. block[0] = NoNode
    BY <1>11, <2>1
  <2>3. QED
    BY <1>2, <2>1, <2>2
<1>13. ASSUME NEW i \in Nat, i \in T
       PROVE  i + 1 \in T
  <2> SUFFICES ASSUME i + 1 <= L - 1
               PROVE  block[i + 1] = RegionOf(w[(i + 1) + 1])
    OBVIOUS
  <2>1. /\ i + 1 \in 0 .. (L - 1) /\ i + 1 \in 1 .. (L - 1) /\ i + 1 # 0 /\ (i + 1) - 1 = i
        /\ block[i] = RegionOf(w[i + 1])
    BY <1>2, <1>13
  <2>2. block[i + 1] = lowering.body[block[i]][path[i + 1]].opens
    BY <1>11, <2>1
  <2>3. block[i + 1] = w[i + 1]
    BY <1>7, <2>1, <2>2
  <2>4. w[i + 1] = RegionOf(w[(i + 1) + 1])
    BY <1>2, <2>1
  <2>5. QED
    BY <2>3, <2>4
<1> HIDE DEF T
<1>14. L - 1 \in T
  <2>1. L - 1 \in Nat
    BY <1>2
  <2>2. Nat \subseteq T
    BY <1>12, <1>13, SetInduction
  <2>3. QED
    BY <2>1, <2>2
<1>15. block[L - 1] = RegionOf(n)
  <2>1. L - 1 \in Nat /\ L - 1 <= L - 1 /\ (L - 1) + 1 = L
    BY <1>2
  <2>2. QED
    BY <1>2, <1>14, <2>1 DEF T
<1>16. L \in 1 .. L
  BY <1>2
<1>17. lowering.body[RegionOf(n)][path[L]] = Own(n)
  BY <1>2, <1>4, <1>16
<1>18. QED
  BY <1>5, <1>10, <1>15, <1>17 DEF path

LEMMA OnePlace ==
  ASSUME Sound, NEW em, NEW n \in Emitted,
         \A b \in Blocks : lowering.body[b] = em[b].out /\ InBlock(b, em[b].out, em[b].at)
  PROVE  Cardinality(Places(n)) = 1
<1> DEFINE r == RegionOf(n)
           at(b) == em[b].at[n]
<1>1. n \in Id /\ r \in Blocks /\ n \in Members(r) /\ NoNode \notin Id
  BY WellFormed DEF Emitted, Members, Sound, Declared
<1>2. \A b \in Blocks : /\ lowering.body[b] \in Seq(Statements)
                        /\ DOMAIN lowering.body[b] = 1 .. Len(lowering.body[b])
  BY DEF InBlock
<1>3. ASSUME NEW b \in Blocks, NEW i \in DOMAIN lowering.body[b], lowering.body[b][i].node = n
      PROVE  b = r /\ i = at(b)
  <2>1. n \in Members(b) /\ i = at(b)
    BY <1>1, <1>2, <1>3, StatementsOfNodes
  <2>2. QED
    BY <2>1 DEF Members
<1>4. at(r) \in DOMAIN lowering.body[r] /\ lowering.body[r][at(r)].node = n
  <2>1. at(r) \in 1 .. Len(lowering.body[r]) /\ lowering.body[r][at(r)] = Own(n)
    BY <1>1 DEF InBlock
  <2>2. QED
    BY <1>1, <1>2, <2>1, OwnStatement
<1> HIDE DEF r, at
<1>5. Places(n) = {<<r, at(r)>>}
  <2>1. ASSUME NEW x \in Places(n)
        PROVE  x = <<r, at(r)>>
    <3>1. PICK b \in Blocks : x \in {<<b, i>> : i \in {j \in DOMAIN lowering.body[b] : lowering.body[b][j].node = n}}
      BY DEF Places
    <3>2. PICK i \in DOMAIN lowering.body[b] : lowering.body[b][i].node = n /\ x = <<b, i>>
      BY <3>1
    <3>3. QED
      BY <1>3, <3>2
  <2>2. <<r, at(r)>> \in Places(n)
    <3>1. <<r, at(r)>> \in {<<r, i>> : i \in {j \in DOMAIN lowering.body[r] : lowering.body[r][j].node = n}}
      BY <1>4
    <3>2. QED
      BY <1>1, <3>1 DEF Places
  <2>3. QED
    BY <2>1, <2>2
<1>6. QED
  BY <1>5, FS_Singleton

LEMMA LoweredIsSound ==
  ASSUME FlowInv, IsLowered
  PROVE  Sound /\ lowering = Lowered
<1>1. Declared /\ Problems = {} /\ lowering = Lowering
  BY DEF FlowInv, IsLowered
<1>2. TableRefusals = {}
  BY <1>1 DEF Lowering, Refused, IsLowered
<1>3. EmissionRefusals = {}
  BY <1>1, <1>2 DEF Lowering, Refused, IsLowered
<1>4. QED
  BY <1>1, <1>2, <1>3 DEF Sound, Lowering

\* In every lowered op the recorded path of a node leads from the body of the op
\* to the node's statement, and no node has a second one (connector-flux graph.rs
\* 169-223, 653-664, 740-913).
THEOREM FlowPathsLeadHome == FlowSpec => []PathsLeadHome
<1>1. FlowInv => PathsLeadHome
  <2> SUFFICES ASSUME FlowInv, IsLowered, NEW n \in Emitted
               PROVE  Home(lowering.paths[n]).node = n /\ Cardinality(Places(n)) = 1
    BY DEF PathsLeadHome
  <2>1. Sound /\ lowering = Lowered
    BY LoweredIsSound
  <2>2. PICK em : /\ \A b \in Blocks : /\ lowering.body[b] = em[b].out
                                       /\ InBlock(b, em[b].out, em[b].at)
                  /\ \A m \in Emitted : lowering.paths[m] = PathTo(m, em)
    BY <2>1, LoweredBodies
  <2>3. Home(lowering.paths[n]) = Own(n) /\ Cardinality(Places(n)) = 1
    BY <2>1, <2>2, LeadsHome, OnePlace
  <2>4. n \in Id
    BY DEF Emitted
  <2>5. QED
    BY <2>3, <2>4, OwnStatement
<1>2. QED
  BY <1>1, FlowKeeps, PTL

-----------------------------------------------------------------------------
(* Flow graphs: what is bound where *)

\* F(f, b) looks f up only at smaller ranks than b's.
ByRank(B, X, N, rank, F) ==
  /\ X # {} /\ N \in Nat /\ rank \in [B -> 0 .. N] /\ F \in [[B -> X] \X B -> X]
  /\ \A f, g \in [B -> X] : \A b \in B :
       (\A c \in B : rank[c] < rank[b] => f[c] = g[c]) => F[<<f, b>>] = F[<<g, b>>]

\* A function that refers to itself only at smaller ranks exists.
LEMMA RecursionByRank ==
  ASSUME NEW B, NEW X, NEW N, NEW rank, NEW F, ByRank(B, X, N, rank, F)
  PROVE  \E f : f \in [B -> X] /\ f = [b \in B |-> F[<<f, b>>]]
<1> USE DEF ByRank
<1> DEFINE Y == [B -> X]
           M == N + 2
           G == [p \in Y \X (1 .. M) |-> [b \in B |-> F[<<p[1], b>>]]]
<1>1. PICK base : base \in Y
  <2>1. PICK x : x \in X
    OBVIOUS
  <2>2. [b \in B |-> x] \in Y
    BY <2>1
  <2>3. QED
    BY <2>2
<1>2. G \in [Y \X (1 .. M) -> Y]
  <2>1. \A f \in Y : [b \in B |-> F[<<f, b>>]] \in Y
    OBVIOUS
  <2> HIDE DEF Y
  <2>2. QED
    BY <2>1
<1>3. M \in Nat
  OBVIOUS
<1>4. PICK h : ResultsOf(h, Y, base, M, G)
  <2> HIDE DEF G, M, Y
  <2>1. QED
    BY <1>1, <1>2, <1>3, StepsHaveResults
<1>5. \A k \in 0 .. M : h[k] \in Y
  BY <1>4 DEF ResultsOf
<1>6. ASSUME NEW k \in 1 .. M
      PROVE  \A b \in B : h[k][b] = F[<<h[k - 1], b>>]
  <2>1. k - 1 \in 0 .. M
    OBVIOUS
  <2>2. h[k - 1] \in Y
    BY <1>5, <2>1
  <2>3. <<h[k - 1], k>> \in Y \X (1 .. M)
    BY <2>2
  <2>4. h[k] = G[<<h[k - 1], k>>]
    BY <1>4 DEF ResultsOf
  <2>5. G[<<h[k - 1], k>>] = [b \in B |-> F[<<h[k - 1], b>>]]
    BY <2>3
  <2>6. QED
    BY <2>4, <2>5
<1> HIDE DEF G, Y
<1> DEFINE T == {k \in Nat : k + 1 <= M => \A b \in B : rank[b] < k => h[k + 1][b] = h[k][b]}
<1>7. 0 \in T
  BY DEF T
<1>8. ASSUME NEW k \in Nat, k \in T
      PROVE  k + 1 \in T
  <2> SUFFICES ASSUME (k + 1) + 1 <= M, NEW b \in B, rank[b] < k + 1
               PROVE  h[(k + 1) + 1][b] = h[k + 1][b]
    OBVIOUS
  <2>1. \A c \in B : rank[c] \in Nat
    OBVIOUS
  <2>2. \A c \in B : rank[c] < rank[b] => rank[c] < k
    BY <2>1
  <2>3. k + 1 <= M /\ k \in 0 .. M /\ k + 1 \in 0 .. M
    OBVIOUS
  <2>4. \A c \in B : rank[c] < rank[b] => h[k + 1][c] = h[k][c]
    BY <1>8, <2>2, <2>3
  <2>5. h[k] \in [B -> X] /\ h[k + 1] \in [B -> X]
    BY <1>5, <2>3 DEF Y
  <2>6. F[<<h[k + 1], b>>] = F[<<h[k], b>>]
    BY <2>4, <2>5
  <2>7. k + 1 \in 1 .. M /\ (k + 1) - 1 = k /\ (k + 1) + 1 \in 1 .. M /\ ((k + 1) + 1) - 1 = k + 1
    OBVIOUS
  <2>8. h[k + 1][b] = F[<<h[k], b>>] /\ h[(k + 1) + 1][b] = F[<<h[k + 1], b>>]
    <3>1. \A j \in 1 .. M : \A c \in B : h[j][c] = F[<<h[j - 1], c>>]
      BY <1>6
    <3>2. h[k + 1][b] = F[<<h[(k + 1) - 1], b>>] /\ h[(k + 1) + 1][b] = F[<<h[((k + 1) + 1) - 1], b>>]
      BY <2>7, <3>1
    <3>3. QED
      BY <2>7, <3>2
  <2>9. QED
    BY <2>6, <2>8
<1> HIDE DEF T
<1>9. N + 1 \in T
  BY <1>7, <1>8, SetInduction
<1> DEFINE f == h[N + 1]
<1>10. N + 1 \in 0 .. M /\ (N + 1) + 1 <= M /\ (N + 1) + 1 \in 1 .. M /\ ((N + 1) + 1) - 1 = N + 1
  OBVIOUS
<1>11. f \in [B -> X]
  BY <1>5, <1>10 DEF Y
<1>12. \A b \in B : rank[b] < N + 1
  <2>1. \A b \in B : rank[b] \in 0 .. N
    OBVIOUS
  <2>2. QED
    BY <2>1
<1>13. ASSUME NEW b \in B
       PROVE  f[b] = F[<<f, b>>]
  <2>1. h[(N + 1) + 1][b] = f[b]
    BY <1>9, <1>10, <1>12 DEF T
  <2>2. h[(N + 1) + 1][b] = F[<<f, b>>]
    <3>1. \A j \in 1 .. M : \A c \in B : h[j][c] = F[<<h[j - 1], c>>]
      BY <1>6
    <3>2. h[(N + 1) + 1][b] = F[<<h[((N + 1) + 1) - 1], b>>]
      BY <1>10, <3>1
    <3>3. QED
      BY <1>10, <3>2
  <2>3. QED
    BY <2>1, <2>2
<1> HIDE DEF f
<1>14. QED
  BY <1>11, <1>13

\* The regions from r outwards, r the first, to one that is in no region.
FullChain(r, s) ==
  /\ s \in Seq(Id) /\ s # <<>> /\ s[1] = r
  /\ \A i \in 1 .. (Len(s) - 1) : s[i + 1] = RegionOf(s[i])
  /\ \A i \in 1 .. Len(s) : s[i] # NoNode
  /\ RegionOf(s[Len(s)]) = NoNode

LEMMA ChainsAgree ==
  ASSUME NEW r, NEW s, NEW t, FullChain(r, s), FullChain(r, t)
  PROVE  /\ Len(s) <= Len(t)
         /\ \A i \in 1 .. Len(s) : s[i] = t[i]
<1>1. /\ Len(s) \in Nat /\ Len(t) \in Nat /\ Len(s) # 0 /\ Len(t) # 0 /\ s[1] = r /\ t[1] = r
      /\ \A i \in 1 .. (Len(s) - 1) : s[i + 1] = RegionOf(s[i])
      /\ \A i \in 1 .. (Len(t) - 1) : t[i + 1] = RegionOf(t[i])
      /\ \A i \in 1 .. Len(s) : s[i] # NoNode
      /\ RegionOf(t[Len(t)]) = NoNode
  BY DEF FullChain
<1> DEFINE K == Len(s)
           L == Len(t)
           T == {i \in Nat : i + 1 <= K => i + 1 <= L /\ s[i + 1] = t[i + 1]}
<1> HIDE DEF K, L
<1>2. K \in Nat /\ L \in Nat /\ K # 0 /\ L # 0
  BY <1>1 DEF K, L
<1>3. 0 \in T
  BY <1>1, <1>2
<1>4. ASSUME NEW i \in Nat, i \in T
      PROVE  i + 1 \in T
  <2> SUFFICES ASSUME (i + 1) + 1 <= K
               PROVE  (i + 1) + 1 <= L /\ s[(i + 1) + 1] = t[(i + 1) + 1]
    OBVIOUS
  <2>1. i + 1 <= K /\ i + 1 <= L /\ s[i + 1] = t[i + 1]
    BY <1>2, <1>4
  <2>2. i + 1 \in 1 .. (K - 1) /\ (i + 1) + 1 \in 1 .. K
    BY <1>2
  <2>3. s[(i + 1) + 1] = RegionOf(t[i + 1]) /\ s[(i + 1) + 1] # NoNode
    BY <1>1, <2>1, <2>2 DEF K
  <2>4. i + 1 # L
    BY <1>1, <2>3 DEF L
  <2>5. i + 1 \in 1 .. (L - 1) /\ (i + 1) + 1 <= L
    BY <1>2, <2>1, <2>4
  <2>6. t[(i + 1) + 1] = RegionOf(t[i + 1])
    BY <1>1, <2>5 DEF L
  <2>7. QED
    BY <2>3, <2>5, <2>6
<1> HIDE DEF T
<1>5. \A i \in Nat : i + 1 <= K => i + 1 <= L /\ s[i + 1] = t[i + 1]
  <2>1. Nat \subseteq T
    BY <1>3, <1>4, SetInduction
  <2>2. QED
    BY <2>1 DEF T
<1>6. ASSUME NEW i \in 1 .. K
      PROVE  i <= L /\ s[i] = t[i]
  <2>1. i - 1 \in Nat /\ (i - 1) + 1 = i /\ i <= K
    BY <1>2
  <2>2. QED
    BY <1>5, <2>1
<1>7. K \in 1 .. K
  BY <1>2
<1>8. QED
  BY <1>6, <1>7 DEF K, L

\* The regions around a node are the one it is in and those around that one.
LEMMA EnclosingOf ==
  ASSUME Sound, NEW n \in Id, RegionOf(n) # NoNode
  PROVE  LET r == RegionOf(n) IN
         /\ Enclosing(n) = <<r>> \o Enclosing(r)
         /\ Len(Enclosing(n)) = Len(Enclosing(r)) + 1
         /\ Range(Enclosing(n)) = {r} \cup Range(Enclosing(r))
<1> DEFINE r == RegionOf(n)
           a == Enclosing(n)
           e == Enclosing(r)
           d == <<r>> \o e
<1>1. r \in Id /\ Contained(n) /\ Contained(r) /\ Declared /\ NoNode \notin Id
  BY WellFormed DEF Sound, Declared
<1>2. /\ a \in Seq(Links) /\ a # <<>> /\ a[1] = r
      /\ \A i \in 1 .. Len(a) : a[i] \in Id /\ a[i] # NoNode
      /\ \A i \in 1 .. (Len(a) - 1) : a[i + 1] = RegionOf(a[i])
      /\ RegionOf(a[Len(a)]) = NoNode
  BY <1>1, EnclosingFacts
<1>3. FullChain(r, a)
  <2>1. a \in Seq(Id)
    BY <1>2
  <2> HIDE DEF a, r
  <2>2. QED
    BY <1>2, <2>1 DEF FullChain
<1>4. /\ e \in Seq(Links) /\ (e = <<>> <=> RegionOf(r) = NoNode)
      /\ e # <<>> => e[1] = RegionOf(r) /\ RegionOf(e[Len(e)]) = NoNode
      /\ \A i \in 1 .. Len(e) : e[i] \in Id /\ e[i] # NoNode
      /\ \A i \in 1 .. (Len(e) - 1) : e[i + 1] = RegionOf(e[i])
  BY <1>1, EnclosingFacts
<1>5. e \in Seq(Id) /\ Len(e) \in Nat /\ DOMAIN e = 1 .. Len(e)
  BY <1>4
<1> HIDE DEF a, e, r
<1>6. /\ d \in Seq(Id) /\ Len(d) = Len(e) + 1 /\ d[1] = r /\ d # <<>>
      /\ \A i \in 1 .. Len(e) : d[i + 1] = e[i]
  BY <1>1, <1>5
<1> HIDE DEF d
<1>7. \A i \in 1 .. Len(e) : d[i + 1] = RegionOf(d[i])
  <2> SUFFICES ASSUME NEW i \in 1 .. Len(e)
               PROVE  d[i + 1] = RegionOf(d[i])
    OBVIOUS
  <2>1. CASE i = 1
    <3>1. e # <<>>
      BY <1>5, <2>1
    <3>2. QED
      BY <1>4, <1>6, <2>1, <3>1
  <2>2. CASE i # 1
    <3>1. i - 1 \in 1 .. (Len(e) - 1) /\ i - 1 \in 1 .. Len(e) /\ (i - 1) + 1 = i
      BY <1>5, <2>2
    <3>2. d[i] = e[i - 1] /\ e[i] = RegionOf(e[i - 1])
      BY <1>4, <1>6, <3>1
    <3>3. QED
      BY <1>6, <3>2
  <2>3. QED
    BY <2>1, <2>2
<1>8. RegionOf(d[Len(d)]) = NoNode
  <2>1. CASE e = <<>>
    BY <1>4, <1>6, <2>1
  <2>2. CASE e # <<>>
    <3>1. Len(e) \in 1 .. Len(e)
      BY <1>5, <2>2
    <3>2. QED
      BY <1>4, <1>6, <2>2, <3>1
  <2>3. QED
    BY <2>1, <2>2
<1>9. FullChain(r, d)
  <2>1. Len(d) - 1 = Len(e) /\ \A i \in 1 .. Len(d) : d[i] \in Id
    BY <1>5, <1>6
  <2>2. QED
    BY <1>1, <1>6, <1>7, <1>8, <2>1 DEF FullChain
<1>10. /\ Len(a) <= Len(d) /\ Len(d) <= Len(a)
       /\ \A i \in 1 .. Len(a) : a[i] = d[i]
  BY <1>3, <1>9, ChainsAgree
<1>11. Len(a) = Len(d)
  BY <1>2, <1>5, <1>6, <1>10
<1>12. a = d
  BY <1>2, <1>6, <1>10, <1>11
<1>13. Range(d) = {r} \cup Range(e)
  <2>1. DOMAIN d = 1 .. (Len(e) + 1)
    BY <1>5, <1>6
  <2>2. ASSUME NEW i \in 1 .. (Len(e) + 1), i # 1
        PROVE  i - 1 \in 1 .. Len(e) /\ (i - 1) + 1 = i
    BY <1>5, <2>2
  <2>3. Range(d) \subseteq {r} \cup Range(e)
    <3> SUFFICES ASSUME NEW i \in 1 .. (Len(e) + 1)
                 PROVE  d[i] \in {r} \cup Range(e)
      BY <2>1 DEF Range
    <3>1. CASE i = 1
      BY <1>6, <3>1
    <3>2. CASE i # 1
      <4>1. i - 1 \in 1 .. Len(e) /\ (i - 1) + 1 = i
        BY <2>2, <3>2
      <4>2. d[i] = e[i - 1]
        BY <1>6, <4>1
      <4>3. QED
        BY <1>5, <4>1, <4>2 DEF Range
    <3>3. QED
      BY <3>1, <3>2
  <2>4. \A i \in 1 .. Len(e) : i + 1 \in 1 .. (Len(e) + 1)
    BY <1>5
  <2>5. 1 \in 1 .. (Len(e) + 1)
    BY <1>5
  <2>6. {r} \cup Range(e) \subseteq Range(d)
    BY <1>5, <1>6, <2>1, <2>4, <2>5 DEF Range
  <2>7. QED
    BY <2>3, <2>6
<1>14. QED
  BY <1>6, <1>11, <1>12, <1>13 DEF a, d, e, r

\* Whatever holds of the region of n and of the region of each region it holds
\* of holds of all the regions around n.
LEMMA AroundInduction ==
  ASSUME Sound, NEW n \in Id, NEW P,
         RegionOf(n) # NoNode => RegionOf(n) \in P,
         \A x \in P \cap Id : RegionOf(x) # NoNode => RegionOf(x) \in P
  PROVE  Range(Enclosing(n)) \subseteq P
<1> DEFINE e == Enclosing(n)
<1>1. Declared /\ Contained(n)
  BY WellFormed DEF Sound
<1>2. /\ e \in Seq(Links) /\ (e # <<>> => e[1] = RegionOf(n))
      /\ \A i \in 1 .. Len(e) : e[i] \in Id /\ e[i] # NoNode
      /\ \A i \in 1 .. (Len(e) - 1) : e[i + 1] = RegionOf(e[i])
  BY <1>1, EnclosingFacts
<1>3. Len(e) \in Nat /\ DOMAIN e = 1 .. Len(e)
  BY <1>2
<1> HIDE DEF e
<1> DEFINE T == {i \in Nat : i + 1 <= Len(e) => e[i + 1] \in P}
<1>4. 0 \in T
  <2> SUFFICES ASSUME 1 <= Len(e)
               PROVE  e[1] \in P
    OBVIOUS
  <2>1. e # <<>> /\ 1 \in 1 .. Len(e)
    BY <1>3
  <2>2. QED
    BY <1>2, <2>1
<1>5. ASSUME NEW i \in Nat, i \in T
      PROVE  i + 1 \in T
  <2> SUFFICES ASSUME (i + 1) + 1 <= Len(e)
               PROVE  e[(i + 1) + 1] \in P
    OBVIOUS
  <2>1. i + 1 \in 1 .. (Len(e) - 1) /\ i + 1 \in 1 .. Len(e) /\ (i + 1) + 1 \in 1 .. Len(e) /\ i + 1 <= Len(e)
    BY <1>3
  <2>2. e[i + 1] \in P \cap Id /\ e[(i + 1) + 1] = RegionOf(e[i + 1]) /\ e[(i + 1) + 1] # NoNode
    BY <1>2, <1>5, <2>1
  <2>3. QED
    BY <2>2
<1> HIDE DEF T
<1>6. ASSUME NEW i \in 1 .. Len(e)
      PROVE  e[i] \in P
  <2>1. i - 1 \in Nat /\ (i - 1) + 1 = i /\ i <= Len(e)
    BY <1>3
  <2>2. i - 1 \in T
    BY <1>4, <1>5, <2>1, SetInduction
  <2>3. QED
    BY <2>1, <2>2 DEF T
<1>7. QED
  BY <1>3, <1>6 DEF Range, e

LEMMA AroundAround ==
  ASSUME Sound, NEW n \in Id, NEW v \in Range(Enclosing(n))
  PROVE  v \in Id /\ IsRegion(v) /\ Range(Enclosing(v)) \subseteq Range(Enclosing(n))
<1> DEFINE around == Range(Enclosing(n))
           P == {x \in around : x \in Id /\ IsRegion(x) /\ Range(Enclosing(x)) \subseteq around}
<1>1. RegionOf(n) # NoNode => RegionOf(n) \in P
  BY EnclosingOf, WellFormed
<1>2. ASSUME NEW x \in P \cap Id, RegionOf(x) # NoNode
      PROVE  RegionOf(x) \in P
  <2>1. /\ Range(Enclosing(x)) = {RegionOf(x)} \cup Range(Enclosing(RegionOf(x)))
        /\ RegionOf(x) \in Id /\ IsRegion(RegionOf(x))
    BY <1>2, EnclosingOf, WellFormed
  <2>2. QED
    BY <2>1
<1> HIDE DEF P
<1>3. around \subseteq P
  BY <1>1, <1>2, AroundInduction
<1>4. QED
  BY <1>3 DEF P

\* A block around n, or the body of the op, has a member that is n or around n.
LEMMA MemberOnTheWay ==
  ASSUME Sound, NEW n \in Id, NEW b \in Range(Enclosing(n)) \cup {NoNode}
  PROVE  \E v \in {n} \cup Range(Enclosing(n)) : RegionOf(v) = b
<1> DEFINE e == Enclosing(n)
<1>1. Declared /\ Contained(n)
  BY WellFormed DEF Sound
<1>2. /\ e \in Seq(Links) /\ (e = <<>> <=> RegionOf(n) = NoNode)
      /\ e # <<>> => e[1] = RegionOf(n) /\ RegionOf(e[Len(e)]) = NoNode
      /\ \A i \in 1 .. (Len(e) - 1) : e[i + 1] = RegionOf(e[i])
  BY <1>1, EnclosingFacts
<1>3. Len(e) \in Nat /\ DOMAIN e = 1 .. Len(e)
  BY <1>2
<1> HIDE DEF e
<1>4. CASE b = NoNode
  <2>1. CASE e = <<>>
    BY <1>2, <1>4, <2>1
  <2>2. CASE e # <<>>
    <3>1. Len(e) \in DOMAIN e
      BY <1>3, <2>2
    <3>2. e[Len(e)] \in Range(e)
      BY <3>1 DEF Range
    <3>3. QED
      BY <1>2, <1>4, <2>2, <3>2 DEF e
  <2>3. QED
    BY <2>1, <2>2
<1>5. CASE b \in Range(e)
  <2>1. PICK i \in 1 .. Len(e) : b = e[i]
    BY <1>3, <1>5 DEF Range
  <2>2. CASE i = 1
    <3>1. e # <<>>
      BY <1>3, <2>2
    <3>2. QED
      BY <1>2, <2>1, <2>2, <3>1
  <2>3. CASE i # 1
    <3>1. i - 1 \in 1 .. (Len(e) - 1) /\ i - 1 \in DOMAIN e /\ (i - 1) + 1 = i
      BY <1>3, <2>3
    <3>2. e[i - 1] \in Range(e) /\ RegionOf(e[i - 1]) = b
      BY <1>2, <2>1, <3>1 DEF Range
    <3>3. QED
      BY <3>2 DEF e
  <2>4. QED
    BY <2>2, <2>3
<1>6. QED
  BY <1>4, <1>5 DEF e

\* Where the statements of a lowered op are.
Layout(em) ==
  /\ \A b \in Blocks : lowering.body[b] = em[b].out /\ InBlock(b, em[b].out, em[b].at)
  /\ \A n \in Emitted : lowering.paths[n] = PathTo(n, em)

LEMMA MemberFacts ==
  ASSUME Sound, NEW b \in Blocks, NEW m \in Members(b)
  PROVE  /\ m \in Id /\ m \in Emitted /\ RegionOf(m) = b /\ m # NoNode
         /\ IsRegion(m) => m \in Blocks
BY DEF Members, Emitted, Blocks, Sound, Declared

LEMMA OpensInside ==
  ASSUME Sound, NEW em, Layout(em), NEW b \in Blocks, NEW s \in Range(lowering.body[b]),
         s.opens # NoNode
  PROVE  s.opens \in Members(b) /\ IsRegion(s.opens) /\ s.opens \in Blocks
<1>1. InBlock(b, em[b].out, em[b].at) /\ lowering.body[b] = em[b].out
  BY DEF Layout
<1>2. lowering.body[b] \in Seq(Statements)
  BY <1>1 DEF InBlock
<1>3. PICK i \in 1 .. Len(em[b].out) : s = em[b].out[i]
  BY <1>1, <1>2 DEF Range
<1>4. CASE \E n \in Members(b) : i = em[b].at[n]
  <2>1. PICK n \in Members(b) : i = em[b].at[n]
    BY <1>4
  <2>2. s = Own(n)
    BY <1>1, <1>3, <2>1 DEF InBlock
  <2>3. n \in Id
    BY MemberFacts
  <2>4. IsRegion(n) /\ s.opens = n
    BY <2>2, <2>3, OwnStatement
  <2>5. QED
    BY <2>4, MemberFacts
<1>5. CASE \E n \in Id : s = Statement(NoNode, {<<n, "expected">>}, NoNode, {})
  BY <1>5 DEF Statement
<1>6. CASE Len(Closing(b)) = 1 /\ s = Closing(b)[1]
  <2>1. 1 \in 1 .. Len(Closing(b))
    BY <1>6
  <2>2. QED
    BY <1>6, <2>1, ClosingStatement
<1>7. QED
  BY <1>1, <1>3, <1>4, <1>5, <1>6 DEF InBlock

\* How far inside a block is.
Level(b) == IF b = NoNode THEN 0 ELSE Len(Enclosing(b)) + 1

LEMMA Levels ==
  ASSUME Sound, NEW b \in Blocks
  PROVE  /\ Cardinality(Id) \in Nat /\ Level(b) \in 0 .. Cardinality(Id)
         /\ \A m \in Members(b) : IsRegion(m) => Level(m) = Level(b) + 1
<1> DEFINE N == Cardinality(Id)
<1>1. N \in Nat
  BY FS_CardinalityType DEF Sound, Declared
<1>2. ASSUME b # NoNode
      PROVE  b \in Id /\ Len(Enclosing(b)) \in Nat /\ Len(Enclosing(b)) < N
  <2>1. b \in Id
    BY <1>2 DEF Blocks
  <2>2. Enclosing(b) \in Seq(Links) /\ Contained(b)
    BY <2>1, WellFormed, EnclosingFacts DEF Sound
  <2>3. QED
    BY <2>1, <2>2 DEF Contained
<1> HIDE DEF N
<1>3. Level(b) \in 0 .. N
  <2>1. CASE b = NoNode
    BY <1>1, <2>1 DEF Level
  <2>2. CASE b # NoNode
    <3>1. Len(Enclosing(b)) + 1 \in 0 .. N
      BY <1>1, <1>2, <2>2
    <3>2. QED
      BY <2>2, <3>1 DEF Level
  <2>3. QED
    BY <2>1, <2>2
<1>4. ASSUME NEW m \in Members(b)
      PROVE  Level(m) = Level(b) + 1
  <2>1. m \in Id /\ RegionOf(m) = b /\ m # NoNode /\ Declared
    BY MemberFacts DEF Sound
  <2>2. CASE b = NoNode
    <3>1. Enclosing(m) = <<>>
      BY <2>1, <2>2, EnclosingFacts
    <3>2. Len(Enclosing(m)) = 0
      BY <3>1
    <3>3. QED
      BY <2>1, <2>2, <3>2 DEF Level
  <2>3. CASE b # NoNode
    <3>1. Len(Enclosing(m)) = Len(Enclosing(b)) + 1
      BY <2>1, <2>3, EnclosingOf
    <3>2. QED
      BY <2>1, <2>3, <3>1 DEF Level
  <2>4. QED
    BY <2>2, <2>3
<1>5. QED
  BY <1>1, <1>3, <1>4 DEF N

\* What a block leaves bound is defined, from the innermost blocks outwards.
LEMMA AfterDefined ==
  ASSUME Sound, NEW em, Layout(em), NEW b \in Blocks
  PROVE  After[b] = UNION {Stays(s, After) : s \in Range(lowering.body[b])}
<1> DEFINE N == Cardinality(Id)
           Sym == UNION {UNION {s.binds : s \in Range(lowering.body[c])} : c \in Blocks}
           X == SUBSET Sym
           Y == [Blocks -> X]
           rank == [c \in Blocks |-> N - Level(c)]
           F == [p \in Y \X Blocks |-> UNION {Stays(s, p[1]) : s \in Range(lowering.body[p[2]])}]
<1>1. N \in Nat /\ rank \in [Blocks -> 0 .. N]
  <2>1. \A c \in Blocks : N \in Nat /\ Level(c) \in 0 .. N
    BY Levels
  <2>2. N \in Nat
    BY <2>1 DEF Blocks
  <2> HIDE DEF N
  <2>3. \A c \in Blocks : N - Level(c) \in 0 .. N
    BY <2>1, <2>2
  <2>4. QED
    BY <2>2, <2>3
<1>2. ASSUME NEW c \in Blocks, NEW s \in Range(lowering.body[c]), s.opens # NoNode
      PROVE  s.opens \in Blocks /\ rank[s.opens] < rank[c]
  <2>1. s.opens \in Members(c) /\ IsRegion(s.opens) /\ s.opens \in Blocks
    BY <1>2, OpensInside
  <2>2. Level(s.opens) = Level(c) + 1 /\ Level(c) \in 0 .. N
    BY <2>1, Levels
  <2>3. rank[s.opens] = N - Level(s.opens) /\ rank[c] = N - Level(c)
    BY <2>1
  <2> HIDE DEF N, rank
  <2>4. QED
    BY <1>1, <2>1, <2>2, <2>3
<1> HIDE DEF rank
<1>3. ASSUME NEW f \in Y, NEW c \in Blocks, NEW s \in Range(lowering.body[c])
      PROVE  Stays(s, f) \in X
  <2>1. s.binds \subseteq Sym
    OBVIOUS
  <2> HIDE DEF Sym
  <2>2. s.opens # NoNode => f[s.opens] \in X
    BY <1>2
  <2>3. QED
    BY <2>1, <2>2 DEF Stays
<1> HIDE DEF Sym
<1>4. F \in [Y \X Blocks -> X]
  <2>1. ASSUME NEW f \in Y, NEW c \in Blocks
        PROVE  UNION {Stays(s, f) : s \in Range(lowering.body[c])} \in X
    BY <1>3
  <2> HIDE DEF X, Y
  <2>2. QED
    BY <2>1
<1>5. ASSUME NEW f \in Y, NEW g \in Y, NEW c \in Blocks,
             \A d \in Blocks : rank[d] < rank[c] => f[d] = g[d]
      PROVE  F[<<f, c>>] = F[<<g, c>>]
  <2>1. \A s \in Range(lowering.body[c]) : Stays(s, f) = Stays(s, g)
    BY <1>2, <1>5 DEF Stays
  <2>2. /\ F[<<f, c>>] = UNION {Stays(s, f) : s \in Range(lowering.body[c])}
        /\ F[<<g, c>>] = UNION {Stays(s, g) : s \in Range(lowering.body[c])}
    <3> HIDE DEF Y
    <3>1. QED
      OBVIOUS
  <2>3. {Stays(s, f) : s \in Range(lowering.body[c])} = {Stays(s, g) : s \in Range(lowering.body[c])}
    BY <2>1
  <2>4. QED
    BY <2>2, <2>3
<1>6. X # {}
  OBVIOUS
<1>7. PICK f : f \in Y /\ f = [c \in Blocks |-> F[<<f, c>>]]
  <2> HIDE DEF F, X, N
  <2>1. \A g, h \in [Blocks -> X] : \A c \in Blocks :
          (\A d \in Blocks : rank[d] < rank[c] => g[d] = h[d]) => F[<<g, c>>] = F[<<h, c>>]
    BY <1>5
  <2>2. F \in [[Blocks -> X] \X Blocks -> X]
    BY <1>4
  <2>3. ByRank(Blocks, X, N, rank, F)
    BY <1>1, <1>6, <2>1, <2>2 DEF ByRank
  <2>4. QED
    BY <2>3, RecursionByRank
<1> DEFINE Follows(h) == h = [c \in Blocks |-> UNION {Stays(s, h) : s \in Range(lowering.body[c])}]
<1>8. Follows(f)
  <2>1. \A c \in Blocks : F[<<f, c>>] = UNION {Stays(s, f) : s \in Range(lowering.body[c])}
    <3>1. f \in Y
      BY <1>7
    <3> HIDE DEF Y
    <3>2. QED
      BY <3>1
  <2> HIDE DEF F
  <2>2. QED
    BY <1>7, <2>1
<1>9. After = CHOOSE h : Follows(h)
  BY DEF After
<1>10. After = [c \in Blocks |-> UNION {Stays(s, After) : s \in Range(lowering.body[c])}]
  <2> HIDE DEF Y, X, F, N
  <2>1. Follows(CHOOSE h : Follows(h))
    BY <1>8
  <2>2. QED
    BY <1>9, <2>1
<1>11. QED
  BY <1>10

\* So is what is bound where a block begins, from the body of the op inwards.
Boundaries == UNION {{<<n, p>> : p \in graph.node[n].outs} : n \in Id \ Emitted}

LEMMA EntryDefined ==
  ASSUME Sound, NEW b \in Blocks
  PROVE  Entry[b] = IF b = NoNode THEN Boundaries
                    ELSE Entry[RegionOf(b)] \cup BoundBefore(RegionOf(b), Last(lowering.paths[b]))
<1> DEFINE N == Cardinality(Id)
           Ahead(c) == BoundBefore(RegionOf(c), Last(lowering.paths[c]))
           X == SUBSET (Boundaries \cup UNION {Ahead(c) : c \in Blocks})
           Y == [Blocks -> X]
           rank == [c \in Blocks |-> Level(c)]
           F == [p \in Y \X Blocks |->
                   IF p[2] = NoNode THEN Boundaries ELSE p[1][RegionOf(p[2])] \cup Ahead(p[2])]
<1>1. N \in Nat /\ rank \in [Blocks -> 0 .. N]
  <2>1. \A c \in Blocks : N \in Nat /\ Level(c) \in 0 .. N
    BY Levels
  <2>2. QED
    BY <2>1 DEF Blocks
<1>2. ASSUME NEW c \in Blocks, c # NoNode
      PROVE  RegionOf(c) \in Blocks /\ rank[RegionOf(c)] < rank[c]
  <2>1. c \in Id /\ IsRegion(c)
    BY <1>2 DEF Blocks
  <2>2. RegionOf(c) \in Blocks /\ c \in Emitted
    BY <2>1, WellFormed DEF Emitted, IsRegion, IsBoundary, RegionKind, BoundaryKind
  <2>3. c \in Members(RegionOf(c))
    BY <2>2 DEF Members
  <2>4. Level(c) = Level(RegionOf(c)) + 1 /\ Level(RegionOf(c)) \in 0 .. N
    BY <2>1, <2>2, <2>3, Levels
  <2>5. rank[RegionOf(c)] = Level(RegionOf(c)) /\ rank[c] = Level(c)
    BY <2>2
  <2> HIDE DEF N, rank
  <2>6. QED
    BY <1>1, <2>2, <2>4, <2>5
<1> HIDE DEF rank
<1>3. F \in [Y \X Blocks -> X]
  <2>1. ASSUME NEW f \in Y, NEW c \in Blocks
        PROVE  (IF c = NoNode THEN Boundaries ELSE f[RegionOf(c)] \cup Ahead(c)) \in X
    <3>1. c # NoNode => f[RegionOf(c)] \in X
      BY <1>2
    <3> HIDE DEF Ahead
    <3>2. QED
      BY <3>1
  <2> HIDE DEF X, Y, Ahead
  <2>2. QED
    BY <2>1
<1>4. ASSUME NEW f \in Y, NEW g \in Y, NEW c \in Blocks,
             \A d \in Blocks : rank[d] < rank[c] => f[d] = g[d]
      PROVE  F[<<f, c>>] = F[<<g, c>>]
  <2>1. c # NoNode => f[RegionOf(c)] = g[RegionOf(c)]
    BY <1>2, <1>4
  <2> HIDE DEF Y, Ahead
  <2>2. QED
    BY <2>1
<1>5. X # {}
  OBVIOUS
<1>6. PICK f : f \in Y /\ f = [c \in Blocks |-> F[<<f, c>>]]
  <2> HIDE DEF F, X, N
  <2>1. \A g, h \in [Blocks -> X] : \A c \in Blocks :
          (\A d \in Blocks : rank[d] < rank[c] => g[d] = h[d]) => F[<<g, c>>] = F[<<h, c>>]
    BY <1>4
  <2>2. F \in [[Blocks -> X] \X Blocks -> X]
    BY <1>3
  <2>3. ByRank(Blocks, X, N, rank, F)
    BY <1>1, <1>5, <2>1, <2>2 DEF ByRank
  <2>4. QED
    BY <2>3, RecursionByRank
<1> DEFINE Follows(h) ==
             h = [c \in Blocks |->
                    IF c = NoNode
                    THEN UNION {{<<n, p>> : p \in graph.node[n].outs} : n \in Id \ Emitted}
                    ELSE LET around == graph.node[c].region
                         IN  h[around] \cup BoundBefore(around, Last(lowering.paths[c]))]
<1>7. Follows(f)
  <2>1. \A c \in Blocks : F[<<f, c>>] = IF c = NoNode THEN Boundaries ELSE f[RegionOf(c)] \cup Ahead(c)
    <3> HIDE DEF Y, Ahead
    <3>1. QED
      BY <1>6
  <2> HIDE DEF F
  <2>2. QED
    BY <1>6, <2>1 DEF Boundaries, RegionOf
<1>8. Entry = CHOOSE h : Follows(h)
  BY DEF Entry
<1>9. Follows(Entry)
  BY <1>7, <1>8
<1>10. QED
  BY <1>9 DEF Boundaries, RegionOf

\* What the statement of a node binds, and what it leaves bound.
LEMMA OwnBinds ==
  ASSUME NEW n \in Id, NEW p \in graph.node[n].outs
  PROVE  ~IsRegion(n) \/ KindOf(n) = "retry" => <<n, p>> \in Stays(Own(n), After)
<1> SUFFICES ASSUME ~IsRegion(n) \/ KindOf(n) = "retry"
             PROVE  <<n, p>> \in Own(n).binds
  BY DEF Stays
<1>1. \/ KindOf(n) = "retry"
      \/ KindOf(n) \notin {"gate", "retry", "approval", "throttle"}
  BY DEF IsRegion, RegionKind
<1>2. Own(n).binds = {<<n, q>> : q \in graph.node[n].outs}
  BY <1>1 DEF Own, Statement
<1>3. QED
  BY <1>2

\* A gate declares no port.
LEMMA NoGateDeclares ==
  ASSUME Sound, NEW n \in Id, NEW p \in graph.node[n].outs
  PROVE  KindOf(n) # "gate"
<1> SUFFICES ASSUME KindOf(n) = "gate"
             PROVE  FALSE
  OBVIOUS
<1>1. <<"gate output", n>> \in NodeProblems(n)
  BY DEF NodeProblems, KindOf
<1>2. NodeProblems(n) \subseteq Problems
  BY DEF Problems
<1>3. QED
  BY <1>1, <1>2 DEF Sound

\* A boundary is in no region.
LEMMA BoundariesOutside ==
  ASSUME Sound, NEW n \in Id, IsBoundary(n)
  PROVE  RegionOf(n) = NoNode
<1> SUFFICES ASSUME RegionOf(n) # NoNode
             PROVE  FALSE
  OBVIOUS
<1>1. <<"boundary region", n>> \in NodeProblems(n)
  BY DEF NodeProblems, RegionOf
<1>2. NodeProblems(n) \subseteq Problems
  BY DEF Problems
<1>3. QED
  BY <1>1, <1>2 DEF Sound

\* The statement of a member is where the block has it, and what it leaves
\* bound is bound after it and, if the block's region lets it out, outside.
LEMMA MemberStatement ==
  ASSUME Sound, NEW em, Layout(em), NEW b \in Blocks, NEW m \in Members(b)
  PROVE  /\ em[b].at[m] \in DOMAIN lowering.body[b] /\ lowering.body[b][em[b].at[m]] = Own(m)
         /\ Stays(Own(m), After) \subseteq After[b]
         /\ \A i \in Nat : em[b].at[m] < i => Stays(Own(m), After) \subseteq BoundBefore(b, i)
<1> DEFINE body == lowering.body[b]
           j == em[b].at[m]
<1>1. InBlock(b, em[b].out, em[b].at) /\ body = em[b].out
  BY DEF Layout
<1>2. body \in Seq(Statements) /\ j \in 1 .. Len(body) /\ body[j] = Own(m)
  BY <1>1 DEF InBlock
<1>3. DOMAIN body = 1 .. Len(body) /\ Len(body) \in Nat
  BY <1>2
<1>4. Stays(Own(m), After) \subseteq After[b]
  <2>1. Own(m) \in Range(body)
    BY <1>2, <1>3 DEF Range
  <2>2. After[b] = UNION {Stays(s, After) : s \in Range(body)}
    BY AfterDefined
  <2> HIDE DEF body
  <2>3. QED
    BY <2>1, <2>2
<1>5. ASSUME NEW i \in Nat, j < i
      PROVE  Stays(Own(m), After) \subseteq BoundBefore(b, i)
  <2>1. j \in 1 .. (i - 1)
    BY <1>2, <1>3, <1>5
  <2>2. Stays(body[j], After) \subseteq BoundBefore(b, i)
    BY <2>1 DEF BoundBefore
  <2>3. QED
    BY <1>2, <2>2
<1>6. QED
  BY <1>2, <1>3, <1>4, <1>5

-----------------------------------------------------------------------------
(* Flow graphs: from a region inwards *)

Declaring(p) == {n \in Id : p \in graph.node[n].outs}

\* One step from a region inwards to the node that binds p.
Deeper(n, p, stops) == IF IsRegion(n) /\ KindOf(n) \notin stops THEN Producer(n, p) ELSE n

\* A region of the op has a producer of each port that it declares, in it.
LEMMA ProducerInside ==
  ASSUME Sound, NEW p, NEW n \in Declaring(p), IsRegion(n)
  PROVE  /\ Producer(n, p) \in Declaring(p) /\ Producer(n, p) \in Members(n)
         /\ n \in Blocks /\ n \in Emitted
<1> DEFINE m == Producer(n, p)
<1>1. n \in Id /\ p \in graph.node[n].outs /\ n # NoNode
  BY DEF Declaring, Sound, Declared
<1>2. n \in Emitted /\ n \in Blocks
  BY <1>1 DEF Emitted, Blocks, IsRegion, IsBoundary, RegionKind, BoundaryKind
<1>3. ShapeRefusals(n) = {}
  <2>1. ShapeRefusals(n) \subseteq UNION {ShapeRefusals(k) : k \in Emitted}
    BY <1>2
  <2>2. QED
    BY <2>1 DEF Sound, TableRefusals
<1>4. Cardinality(Producers(n, p)) = 1
  <2> SUFFICES ASSUME Cardinality(Producers(n, p)) # 1
               PROVE  FALSE
    OBVIOUS
  <2>1. p \in {q \in graph.node[n].outs : IsRegion(n) /\ Cardinality(Producers(n, q)) # 1}
    BY <1>1
  <2>2. <<"region output", n>> \in {<<"region output", n>> : q \in
              {q \in graph.node[n].outs : IsRegion(n) /\ Cardinality(Producers(n, q)) # 1}}
    BY <2>1
  <2>3. <<"region output", n>> \in ShapeRefusals(n)
    BY <2>2 DEF ShapeRefusals
  <2>4. QED
    BY <1>3, <2>3
<1>5. Producers(n, p) # {}
  BY <1>4, FS_EmptySet
<1>6. m \in Producers(n, p)
  BY <1>5 DEF Producer
<1>7. m \in Id /\ RegionOf(m) = n /\ p \in graph.node[m].outs
  BY <1>6 DEF Producers, RegionOf
<1>8. ~IsBoundary(m)
  BY <1>1, <1>7, BoundariesOutside
<1>9. QED
  BY <1>2, <1>7, <1>8 DEF Declaring, Members, Emitted

\* Inwards, step by step.
LEMMA InwardsSteps ==
  ASSUME Sound, NEW p, NEW n \in Declaring(p), NEW stops
  PROVE  \E g : /\ g \in [0 .. Cardinality(Id) -> Declaring(p)] /\ g[0] = n
                /\ \A k \in 1 .. Cardinality(Id) : g[k] = Deeper(g[k - 1], p, stops)
                /\ Inwards([node |-> n, port |-> p], stops) = g[Cardinality(Id)]
<1> DEFINE N == Cardinality(Id)
           X == Declaring(p)
           F == [x \in X \X (1 .. N) |-> Deeper(x[1], p, stops)]
           ref == [node |-> n, port |-> p]
<1>1. N \in Nat
  BY FS_CardinalityType DEF Sound, Declared
<1>2. n \in X /\ F \in [X \X (1 .. N) -> X]
  <2>1. \A m \in X : Deeper(m, p, stops) \in X
    BY ProducerInside DEF Deeper
  <2> HIDE DEF X
  <2>2. QED
    BY <2>1 DEF X
<1>3. PICK g : ResultsOf(g, X, n, N, F)
  <2> HIDE DEF F, N, X
  <2>1. QED
    BY <1>1, <1>2, StepsHaveResults
<1> DEFINE Follows(f) ==
             f = [k \in 0 .. N |->
                    IF k = 0 THEN ref.node
                    ELSE LET m == f[k - 1] IN
                         IF IsRegion(m) /\ KindOf(m) \notin stops THEN Producer(m, ref.port) ELSE m]
           walk == CHOOSE f : Follows(f)
<1>4. Follows(g)
  <2>1. ASSUME NEW k \in 0 .. N, k # 0
        PROVE  g[k] = Deeper(g[k - 1], p, stops)
    <3>1. k \in 1 .. N /\ k - 1 \in 0 .. N
      BY <1>1, <2>1
    <3>2. <<g[k - 1], k>> \in X \X (1 .. N)
      BY <1>3, <3>1 DEF ResultsOf
    <3> HIDE DEF X
    <3>3. QED
      BY <1>3, <3>1, <3>2 DEF ResultsOf
  <2>2. g = [k \in 0 .. N |-> g[k]] /\ g[0] = n
    BY <1>3 DEF ResultsOf
  <2> HIDE DEF N
  <2>3. QED
    BY <2>1, <2>2 DEF Deeper
<1>5. Follows(walk)
  BY <1>4
<1>6. Inwards(ref, stops) = walk[N]
  BY DEF Inwards
<1> HIDE DEF walk
<1>7. walk[0] = n /\ \A k \in 1 .. N : walk[k] = Deeper(walk[k - 1], p, stops)
  <2>1. walk[0] = n
    BY <1>1, <1>5
  <2>2. ASSUME NEW k \in 1 .. N
        PROVE  walk[k] = Deeper(walk[k - 1], p, stops)
    <3>1. k \in 0 .. N /\ k # 0
      BY <1>1
    <3> HIDE DEF N
    <3>2. QED
      BY <1>5, <3>1 DEF Deeper
  <2>3. QED
    BY <2>1, <2>2
<1> DEFINE T == {k \in Nat : k <= N => walk[k] \in X}
<1>8. 0 \in T
  BY <1>7
<1>9. ASSUME NEW k \in Nat, k \in T
      PROVE  k + 1 \in T
  <2> SUFFICES ASSUME k + 1 <= N
               PROVE  walk[k + 1] \in X
    OBVIOUS
  <2>1. k + 1 \in 1 .. N /\ (k + 1) - 1 = k /\ walk[k] \in X
    BY <1>1, <1>9
  <2>2. walk[k + 1] = Deeper(walk[k], p, stops)
    BY <1>7, <2>1
  <2>3. QED
    BY <2>1, <2>2, ProducerInside DEF Deeper
<1> HIDE DEF T
<1>10. \A k \in 0 .. N : walk[k] \in X
  <2>1. Nat \subseteq T
    BY <1>8, <1>9, SetInduction
  <2>2. QED
    BY <1>1, <2>1 DEF T
<1>11. walk = [k \in 0 .. N |-> walk[k]]
  BY <1>5
<1>12. walk \in [0 .. N -> X]
  <2> HIDE DEF N, X
  <2>1. QED
    BY <1>10, <1>11
<1> HIDE DEF N, X
<1>13. QED
  BY <1>6, <1>7, <1>12 DEF N, X

AtEnd(n, stops) == ~IsRegion(n) \/ KindOf(n) \in stops

\* Each step that moves goes one region further in, so the walk has stopped
\* before it is as long as there are nodes.
LEMMA InwardsStops ==
  ASSUME Sound, NEW p, NEW stops, NEW g \in [0 .. Cardinality(Id) -> Declaring(p)],
         \A k \in 1 .. Cardinality(Id) : g[k] = Deeper(g[k - 1], p, stops)
  PROVE  AtEnd(g[Cardinality(Id)], stops)
<1> DEFINE N == Cardinality(Id)
           Depth(n) == Len(Enclosing(n))
           T == {k \in Nat : k <= N => AtEnd(g[k], stops) \/ k <= Depth(g[k])}
<1>1. N \in Nat
  BY FS_CardinalityType DEF Sound, Declared
<1>2. ASSUME NEW n \in Declaring(p)
      PROVE  Depth(n) \in Nat /\ Depth(n) < N
  <2>1. n \in Id /\ Declared
    BY DEF Declaring, Sound
  <2>2. Enclosing(n) \in Seq(Links) /\ Contained(n)
    BY <2>1, WellFormed, EnclosingFacts
  <2>3. QED
    BY <2>2 DEF Contained
<1>3. 0 \in T
  <2>1. g[0] \in Declaring(p)
    BY <1>1
  <2>2. 0 <= Depth(g[0])
    BY <1>2, <2>1
  <2>3. QED
    BY <2>2
<1>4. ASSUME NEW k \in Nat, k \in T
      PROVE  k + 1 \in T
  <2> SUFFICES ASSUME k + 1 <= N, ~AtEnd(g[k + 1], stops)
               PROVE  k + 1 <= Depth(g[k + 1])
    OBVIOUS
  <2>1. k + 1 \in 1 .. N /\ (k + 1) - 1 = k /\ k \in 0 .. N
    BY <1>1
  <2>2. g[k] \in Declaring(p) /\ g[k + 1] = Deeper(g[k], p, stops)
    BY <2>1
  <2>3. ~AtEnd(g[k], stops) /\ IsRegion(g[k]) /\ g[k + 1] = Producer(g[k], p)
    BY <2>2 DEF Deeper, AtEnd
  <2>4. k <= Depth(g[k])
    BY <1>1, <1>4, <2>1, <2>3
  <2>5. /\ g[k + 1] \in Id /\ RegionOf(g[k + 1]) = g[k] /\ g[k] # NoNode
    <3>1. g[k + 1] \in Members(g[k]) /\ g[k] \in Id
      BY <2>2, <2>3, ProducerInside DEF Declaring
    <3>2. QED
      BY <3>1 DEF Members, Emitted, Sound, Declared
  <2>6. Depth(g[k + 1]) = Depth(g[k]) + 1
    BY <2>5, EnclosingOf
  <2>7. QED
    BY <1>2, <2>2, <2>4, <2>6
<1> HIDE DEF T
<1>5. N \in T
  BY <1>1, <1>3, <1>4, SetInduction
<1>6. g[N] \in Declaring(p)
  BY <1>1
<1>7. ~ (N <= Depth(g[N]))
  BY <1>1, <1>2, <1>6
<1>8. QED
  BY <1>1, <1>5, <1>7 DEF T

\* What a node declares is bound after its statement, under its symbol.
LEMMA Exported ==
  ASSUME Sound, NEW em, Layout(em), NEW p, NEW n \in Declaring(p)
  PROVE  /\ LocalSymbol([node |-> n, port |-> p]) \in Stays(Own(n), After)
         /\ ~IsRegion(n) => LocalSymbol([node |-> n, port |-> p]) = <<n, p>>
<1> DEFINE N == Cardinality(Id)
<1>1. PICK g : /\ g \in [0 .. N -> Declaring(p)] /\ g[0] = n
               /\ \A k \in 1 .. N : g[k] = Deeper(g[k - 1], p, {"retry"})
               /\ Inwards([node |-> n, port |-> p], {"retry"}) = g[N]
  BY InwardsSteps
<1>2. N \in Nat
  BY FS_CardinalityType DEF Sound, Declared
<1>3. AtEnd(g[N], {"retry"}) /\ g[N] \in Id /\ p \in graph.node[g[N]].outs
  <2>1. AtEnd(g[N], {"retry"})
    BY <1>1, InwardsStops
  <2>2. g[N] \in Declaring(p)
    BY <1>1, <1>2
  <2>3. QED
    BY <2>1, <2>2 DEF Declaring
<1>4. LocalSymbol([node |-> n, port |-> p]) = <<g[N], p>>
  BY <1>1 DEF LocalSymbol
<1> DEFINE symbol == <<g[N], p>>
<1>5. symbol \in Stays(Own(g[N]), After)
  BY <1>3, OwnBinds DEF AtEnd
<1> HIDE DEF N, symbol
<1>6. ASSUME NEW k \in 1 .. N, symbol \in Stays(Own(g[k]), After)
      PROVE  symbol \in Stays(Own(g[k - 1]), After)
  <2> DEFINE m == g[k - 1]
  <2>1. k - 1 \in 0 .. N
    BY <1>2
  <2>2. m \in Declaring(p) /\ g[k] = Deeper(m, p, {"retry"})
    BY <1>1, <2>1
  <2> HIDE DEF m
  <2>3. CASE AtEnd(m, {"retry"})
    BY <1>6, <2>2, <2>3 DEF Deeper, AtEnd, m
  <2>4. CASE ~AtEnd(m, {"retry"})
    <3>1. IsRegion(m) /\ KindOf(m) # "retry" /\ g[k] = Producer(m, p)
      BY <2>2, <2>4 DEF Deeper, AtEnd
    <3>2. m \in Id /\ m # NoNode /\ KindOf(m) # "gate" /\ g[k] \in Members(m) /\ m \in Blocks
      BY <2>2, <3>1, ProducerInside, NoGateDeclares DEF Declaring, Sound, Declared
    <3>3. symbol \in After[m]
      BY <1>6, <3>2, MemberStatement
    <3>4. Own(m).opens = m /\ KindOf(m) \in {"approval", "throttle"}
      BY <3>1, <3>2, OwnStatement DEF IsRegion, RegionKind
    <3>5. QED
      BY <3>2, <3>3, <3>4 DEF Stays, m
  <2>5. QED
    BY <2>3, <2>4
<1> DEFINE T == {j \in Nat : j <= N => symbol \in Stays(Own(g[N - j]), After)}
<1>7. 0 \in T
  <2>1. N - 0 = N
    BY <1>2
  <2>2. QED
    BY <1>5, <2>1 DEF N
<1>8. ASSUME NEW j \in Nat, j \in T
      PROVE  j + 1 \in T
  <2> SUFFICES ASSUME j + 1 <= N
               PROVE  symbol \in Stays(Own(g[N - (j + 1)]), After)
    OBVIOUS
  <2>1. N - j \in 1 .. N /\ (N - j) - 1 = N - (j + 1) /\ j <= N
    BY <1>2
  <2>2. symbol \in Stays(Own(g[N - j]), After)
    BY <1>8, <2>1
  <2>3. symbol \in Stays(Own(g[(N - j) - 1]), After)
    BY <1>6, <2>1, <2>2
  <2>4. QED
    BY <2>1, <2>3
<1> HIDE DEF T
<1>9. symbol \in Stays(Own(n), After)
  <2>1. N \in T /\ N - N = 0
    BY <1>2, <1>7, <1>8, SetInduction
  <2>2. symbol \in Stays(Own(g[N - N]), After)
    BY <1>2, <2>1 DEF T
  <2>3. QED
    BY <1>1, <2>1, <2>2
<1>10. ASSUME ~IsRegion(n)
       PROVE  symbol = <<n, p>>
  <2> DEFINE Q == {j \in Nat : j <= N => g[j] = n}
  <2>1. 0 \in Q
    BY <1>1
  <2>2. ASSUME NEW j \in Nat, j \in Q
        PROVE  j + 1 \in Q
    <3> SUFFICES ASSUME j + 1 <= N
                 PROVE  g[j + 1] = n
      OBVIOUS
    <3>1. j + 1 \in 1 .. N /\ (j + 1) - 1 = j /\ g[j] = n
      BY <1>2, <2>2
    <3>2. g[j + 1] = Deeper(g[j], p, {"retry"})
      BY <1>1, <3>1 DEF N
    <3>3. QED
      BY <1>10, <3>1, <3>2 DEF Deeper
  <2> HIDE DEF Q
  <2>3. N \in Q
    BY <1>2, <2>1, <2>2, SetInduction
  <2>4. QED
    BY <1>2, <2>3 DEF Q, symbol, N
<1>11. QED
  BY <1>4, <1>9, <1>10 DEF symbol, N

-----------------------------------------------------------------------------
(* Flow graphs: from a node outwards *)

\* From n outwards over the regions that a value leaves: y starts at n, then
\* follows left; what is around the last of them is the readers' or the op's.
Outwards(n, readers, y, K) ==
  /\ y \in [0 .. K -> Id] /\ y[0] = n
  /\ \A i \in 1 .. K : /\ y[i] = Left(n, readers)[i] /\ y[i] = RegionOf(y[i - 1])
                       /\ IsRegion(y[i]) /\ y[i] \in Range(Enclosing(n)) \ readers
  /\ RegionOf(y[K]) \in (Range(Enclosing(n)) \cap readers) \cup {NoNode}

LEMMA LeftLength ==
  ASSUME Sound, NEW n \in Id, NEW readers
  PROVE  LET chain == Enclosing(n) left == Left(n, readers) IN
         /\ Len(left) \in Nat /\ DOMAIN left = 1 .. Len(left) /\ Len(left) <= Len(chain)
         /\ \A i \in 1 .. Len(left) : left[i] = chain[i]
         /\ Len(left) # Len(chain) => chain[Len(left) + 1] \in readers
<1> DEFINE chain == Enclosing(n)
           left == Left(n, readers)
           stays == {i \in DOMAIN chain : chain[i] \in readers}
<1>1. chain \in Seq(Links)
  BY EnclosingFacts DEF Sound
<1>2. Len(chain) \in Nat /\ DOMAIN chain = 1 .. Len(chain)
  BY <1>1
<1>3. left = IF stays = {} THEN chain ELSE SubSeq(chain, 1, Min(stays) - 1)
  BY DEF Left
<1> HIDE DEF chain, left
<1>4. CASE stays = {}
  BY <1>2, <1>3, <1>4 DEF chain, left
<1>5. CASE stays # {}
  <2>1. stays \in SUBSET Nat
    BY <1>2
  <2>2. Min(stays) \in stays
    BY <1>5, <2>1, LeastIsMin
  <2>3. PICK m \in 0 .. Len(chain) : Min(stays) = m + 1 /\ m + 1 \in 1 .. Len(chain)
    <3>1. Min(stays) \in 1 .. Len(chain)
      BY <1>2, <2>2
    <3>2. Min(stays) - 1 \in 0 .. Len(chain) /\ Min(stays) = (Min(stays) - 1) + 1
      BY <1>2, <3>1
    <3>3. QED
      BY <3>1, <3>2
  <2>4. left = SubSeq(chain, 1, m)
    <3>1. (m + 1) - 1 = m
      OBVIOUS
    <3>2. QED
      BY <1>3, <1>5, <2>3, <3>1
  <2>5. /\ Len(left) = m /\ DOMAIN left = 1 .. m /\ \A i \in 1 .. m : left[i] = chain[i]
    BY <1>1, <1>2, <2>4
  <2>6. chain[m + 1] \in readers /\ m <= Len(chain)
    BY <1>2, <2>2, <2>3
  <2>7. QED
    BY <2>5, <2>6 DEF chain, left
<1>6. QED
  BY <1>4, <1>5

LEMMA LeftOutwards ==
  ASSUME Sound, NEW n \in Id, NEW readers
  PROVE  \E y : Outwards(n, readers, y, Len(Left(n, readers)))
<1> DEFINE chain == Enclosing(n)
           left == Left(n, readers)
           K == Len(left)
           y == [i \in 0 .. K |-> IF i = 0 THEN n ELSE left[i]]
<1>1. Declared /\ Contained(n) /\ NoNode \notin Id
  BY WellFormed DEF Sound, Declared
<1>2. /\ chain \in Seq(Links) /\ (chain = <<>> <=> RegionOf(n) = NoNode)
      /\ chain # <<>> => chain[1] = RegionOf(n) /\ RegionOf(chain[Len(chain)]) = NoNode
      /\ \A i \in 1 .. Len(chain) : chain[i] \in Id /\ chain[i] # NoNode
      /\ \A i \in 1 .. (Len(chain) - 1) : chain[i + 1] = RegionOf(chain[i])
  BY <1>1, EnclosingFacts
<1>3. Len(chain) \in Nat /\ DOMAIN chain = 1 .. Len(chain)
  BY <1>2
<1>4. /\ K \in Nat /\ DOMAIN left = 1 .. K /\ K <= Len(chain)
      /\ \A i \in 1 .. K : left[i] = chain[i]
      /\ K # Len(chain) => chain[K + 1] \in readers
  BY LeftLength
<1>5. \A i \in 1 .. K : left[i] \in Range(chain) \ readers
  <2>1. \A i \in 1 .. K : left[i] \in Range(left)
    BY <1>4 DEF Range
  <2>2. QED
    BY <1>1, <2>1, LeftOnes
<1> HIDE DEF chain, left, K
<1>6. K \in Nat /\ Len(chain) \in Nat /\ K <= Len(chain)
  BY <1>3, <1>4
<1>7. y \in [0 .. K -> Id] /\ y[0] = n /\ \A i \in 1 .. K : y[i] = left[i]
  <2>1. \A i \in 1 .. K : left[i] \in Id
    <3>1. \A i \in 1 .. K : i \in 1 .. Len(chain)
      BY <1>6
    <3>2. QED
      BY <1>2, <1>4, <3>1
  <2>2. \A i \in 0 .. K : i # 0 => i \in 1 .. K
    BY <1>4
  <2>3. QED
    BY <1>4, <2>1, <2>2
<1> HIDE DEF y
<1>8. \A i \in 0 .. K : i < Len(chain) => RegionOf(y[i]) = chain[i + 1]
  <2> SUFFICES ASSUME NEW i \in 0 .. K, i < Len(chain)
               PROVE  RegionOf(y[i]) = chain[i + 1]
    OBVIOUS
  <2>1. CASE i = 0
    <3>1. chain # <<>>
      BY <1>3, <2>1
    <3>2. QED
      BY <1>2, <1>7, <2>1, <3>1
  <2>2. CASE i # 0
    <3>1. i \in 1 .. K /\ i \in 1 .. (Len(chain) - 1)
      BY <1>6, <2>2
    <3>2. QED
      BY <1>2, <1>4, <1>7, <3>1
  <2>3. QED
    BY <2>1, <2>2
<1>9. ASSUME NEW i \in 1 .. K
      PROVE  y[i] = RegionOf(y[i - 1]) /\ IsRegion(y[i])
  <2>1. i - 1 \in 0 .. K /\ i - 1 < Len(chain) /\ (i - 1) + 1 = i /\ i \in 1 .. Len(chain)
    BY <1>6
  <2>2. y[i] = RegionOf(y[i - 1]) /\ y[i - 1] \in Id /\ y[i] # NoNode
    BY <1>2, <1>4, <1>7, <1>8, <2>1
  <2>3. QED
    BY <2>2, WellFormed
<1>10. RegionOf(y[K]) \in (Range(chain) \cap readers) \cup {NoNode}
  <2>1. CASE K = Len(chain)
    <3>1. CASE chain = <<>>
      BY <1>2, <1>7, <2>1, <3>1
    <3>2. CASE chain # <<>>
      <4>1. K \in 1 .. K
        BY <1>3, <2>1, <3>2
      <4>2. y[K] = chain[Len(chain)]
        BY <1>4, <1>7, <2>1, <4>1
      <4>3. QED
        BY <1>2, <3>2, <4>2
    <3>3. QED
      BY <3>1, <3>2
  <2>2. CASE K # Len(chain)
    <3>1. K \in 0 .. K /\ K < Len(chain) /\ K + 1 \in DOMAIN chain
      BY <1>3, <1>4, <2>2
    <3>2. RegionOf(y[K]) = chain[K + 1]
      BY <1>8, <3>1
    <3>3. QED
      BY <1>4, <2>2, <3>1, <3>2 DEF Range
  <2>3. QED
    BY <2>1, <2>2
<1>11. Outwards(n, readers, y, K)
  BY <1>5, <1>7, <1>9, <1>10 DEF Outwards, chain, left
<1>12. QED
  BY <1>11 DEF K, left

\* The symbol a value has after the first k regions that it leaves.
SymbolAfter(n, p, left, k) ==
  LET retries == {i \in 1 .. k : KindOf(left[i]) = "retry"}
  IN  IF retries = {} THEN LocalSymbol([node |-> n, port |-> p]) ELSE <<left[Max(retries)], p>>

LEMMA LastIsMax ==
  ASSUME NEW k \in Nat, NEW S \in SUBSET (1 .. k), k \in S
  PROVE  Max(S) = k
<1>1. \A x \in S : k >= x
  OBVIOUS
<1>2. \A x \in S : (\A y \in S : x >= y) => x = k
  OBVIOUS
<1>3. QED
  BY <1>1, <1>2, Zenon DEF Max

\* A value leaves the regions that declare its port bound, to the block where
\* its readers are.
LEMMA Arrives ==
  ASSUME Sound, NEW em, Layout(em), NEW p, NEW n \in Declaring(p), n \in Emitted, NEW readers,
         \A r \in Range(Left(n, readers)) : p \in graph.node[r].outs
  PROVE  \E u \in Declaring(p) :
           /\ u = n \/ (u \in Range(Enclosing(n)) \ readers)
           /\ u \in Emitted /\ RegionOf(u) \in (Range(Enclosing(n)) \cap readers) \cup {NoNode}
           /\ SymbolFor([node |-> n, port |-> p], readers) \in Stays(Own(u), After)
           /\ RegionOf(n) \in readers => u = n
<1> DEFINE left == Left(n, readers)
           K == Len(left)
<1>1. n \in Id /\ p \in graph.node[n].outs
  BY DEF Declaring
<1>2. PICK y : Outwards(n, readers, y, K)
  BY <1>1, LeftOutwards
<1>3. /\ K \in Nat /\ DOMAIN left = 1 .. K
  BY <1>1, LeftLength
<1> HIDE DEF left, K
<1>4. /\ y \in [0 .. K -> Id] /\ y[0] = n
      /\ \A i \in 1 .. K : /\ y[i] = left[i] /\ y[i] = RegionOf(y[i - 1])
                           /\ IsRegion(y[i]) /\ y[i] \in Range(Enclosing(n)) \ readers
      /\ RegionOf(y[K]) \in (Range(Enclosing(n)) \cap readers) \cup {NoNode}
  BY <1>2 DEF Outwards, left
<1>5. ASSUME NEW i \in 0 .. K
      PROVE  y[i] \in Declaring(p) /\ y[i] \in Emitted
  <2>1. CASE i = 0
    BY <1>4, <2>1
  <2>2. CASE i # 0
    <3>1. i \in 1 .. K
      BY <1>3, <2>2
    <3>2. y[i] \in Id /\ y[i] = left[i] /\ IsRegion(y[i])
      BY <1>4, <3>1
    <3>3. p \in graph.node[left[i]].outs
      BY <1>3, <3>1 DEF Range, left
    <3>4. QED
      BY <3>2, <3>3 DEF Declaring, Emitted, IsRegion, IsBoundary, RegionKind, BoundaryKind
  <2>3. QED
    BY <2>1, <2>2
<1> DEFINE symbol(k) == SymbolAfter(n, p, left, k)
           T == {k \in Nat : k <= K => symbol(k) \in Stays(Own(y[k]), After)}
<1>6. 0 \in T
  <2>1. 1 .. 0 = {}
    OBVIOUS
  <2>2. symbol(0) = LocalSymbol([node |-> n, port |-> p])
    BY <2>1 DEF SymbolAfter
  <2>3. QED
    BY <1>4, <2>2, Exported
<1>7. ASSUME NEW k \in Nat, k \in T
      PROVE  k + 1 \in T
  <2> SUFFICES ASSUME k + 1 <= K
               PROVE  symbol(k + 1) \in Stays(Own(y[k + 1]), After)
    OBVIOUS
  <2> DEFINE r == y[k + 1]
             now == {i \in 1 .. (k + 1) : KindOf(left[i]) = "retry"}
             then == {i \in 1 .. k : KindOf(left[i]) = "retry"}
  <2>1. /\ k \in 0 .. K /\ k + 1 \in 0 .. K /\ k + 1 \in 1 .. K /\ (k + 1) - 1 = k
        /\ symbol(k) \in Stays(Own(y[k]), After)
    BY <1>3, <1>7
  <2>2. /\ r \in Declaring(p) /\ r \in Id /\ p \in graph.node[r].outs /\ IsRegion(r)
        /\ r = left[k + 1] /\ r = RegionOf(y[k]) /\ y[k] \in Emitted
    BY <1>4, <1>5, <2>1 DEF Declaring
  <2> HIDE DEF r
  <2>3. CASE KindOf(r) = "retry"
    <3>1. k + 1 \in now /\ now \in SUBSET (1 .. (k + 1)) /\ now # {}
      <4>1. k + 1 \in 1 .. (k + 1) /\ KindOf(left[k + 1]) = "retry"
        BY <2>2, <2>3
      <4>2. QED
        BY <4>1
    <3> HIDE DEF now
    <3>2. Max(now) = k + 1
      BY <3>1, LastIsMax
    <3>3. symbol(k + 1) = <<r, p>>
      BY <2>2, <3>1, <3>2 DEF SymbolAfter, now
    <3>4. QED
      BY <2>2, <2>3, <3>3, OwnBinds DEF r
  <2>4. CASE KindOf(r) # "retry"
    <3>1. now = then
      <4>1. 1 .. (k + 1) = (1 .. k) \cup {k + 1}
        OBVIOUS
      <4>2. QED
        BY <2>2, <2>4, <4>1
    <3>2. symbol(k + 1) = symbol(k)
      BY <3>1 DEF SymbolAfter
    <3>3. KindOf(r) # "gate" /\ r \in Blocks /\ y[k] \in Members(r) /\ r # NoNode
      BY <2>2, NoGateDeclares, ProducerInside DEF Members, Sound, Declared
    <3>4. symbol(k) \in After[r]
      BY <2>1, <3>3, MemberStatement
    <3>5. Own(r).opens = r /\ KindOf(r) \in {"approval", "throttle"}
      BY <2>2, <2>4, <3>3, OwnStatement DEF IsRegion, RegionKind
    <3> HIDE DEF symbol
    <3>6. QED
      BY <3>2, <3>3, <3>4, <3>5 DEF Stays, r
  <2>5. QED
    BY <2>3, <2>4
<1> HIDE DEF T
<1>8. K \in T
  BY <1>3, <1>6, <1>7, SetInduction
<1>9. symbol(K) \in Stays(Own(y[K]), After)
  BY <1>3, <1>8 DEF T
<1>10. SymbolFor([node |-> n, port |-> p], readers) = symbol(K)
  BY <1>3 DEF SymbolFor, SymbolAfter, left
<1>11. y[K] = n \/ y[K] \in Range(Enclosing(n)) \ readers
  <2>1. CASE K = 0
    BY <1>4, <2>1
  <2>2. CASE K # 0
    <3>1. K \in 1 .. K
      BY <1>3, <2>2
    <3>2. QED
      BY <1>4, <3>1
  <2>3. QED
    BY <2>1, <2>2
<1>12. ASSUME RegionOf(n) \in readers
       PROVE  y[K] = n
  <2>1. CASE K = 0
    BY <1>4, <2>1
  <2>2. CASE K # 0
    <3>1. 1 \in 1 .. K /\ 1 - 1 = 0
      BY <1>3, <2>2
    <3>2. y[1] = RegionOf(y[0]) /\ y[1] \notin readers
      BY <1>4, <3>1
    <3>3. QED
      BY <1>4, <1>12, <3>2
  <2>3. QED
    BY <2>1, <2>2
<1>13. K \in 0 .. K
  BY <1>3
<1>14. QED
  BY <1>4, <1>5, <1>9, <1>10, <1>11, <1>12, <1>13

-----------------------------------------------------------------------------
(* Flow graphs: from a block inwards *)

\* What is bound where the block of an outer region begins stays bound inwards.
LEMMA EntryGrows ==
  ASSUME Sound, NEW n \in Id, NEW v \in Range(Enclosing(n))
  PROVE  Entry[v] \subseteq Entry[RegionOf(n)]
<1> DEFINE b == RegionOf(n)
           P == {x \in Id : IsRegion(x) /\ Entry[x] \subseteq Entry[b]}
<1>1. b # NoNode => b \in P
  BY WellFormed
<1>2. ASSUME NEW x \in P \cap Id, RegionOf(x) # NoNode
      PROVE  RegionOf(x) \in P
  <2>1. RegionOf(x) \in Id /\ IsRegion(RegionOf(x))
    BY <1>2, WellFormed
  <2>2. x \in Blocks /\ x # NoNode
    BY DEF Blocks, Sound, Declared
  <2>3. Entry[RegionOf(x)] \subseteq Entry[x]
    BY <2>2, EntryDefined
  <2>4. QED
    BY <2>1, <2>3
<1> HIDE DEF P
<1>3. Range(Enclosing(n)) \subseteq P
  BY <1>1, <1>2, AroundInduction DEF b
<1>4. QED
  BY <1>3 DEF P, b

LEMMA BoundariesBound ==
  ASSUME Sound, NEW b \in Blocks
  PROVE  Boundaries \subseteq Entry[b]
<1>1. Entry[NoNode] = Boundaries
  BY EntryDefined DEF Blocks
<1>2. CASE b = NoNode
  BY <1>1, <1>2
<1>3. CASE b # NoNode
  <2>1. b \in Id /\ NoNode \notin Id
    BY <1>3 DEF Blocks, Sound, Declared
  <2>2. Entry[RegionOf(b)] \subseteq Entry[b]
    BY <1>3, EntryDefined
  <2>3. PICK v \in {b} \cup Range(Enclosing(b)) : RegionOf(v) = NoNode
    BY <2>1, MemberOnTheWay
  <2>4. v \in Blocks /\ v # NoNode
    BY <1>3, <2>1, AroundAround DEF Blocks
  <2>5. Boundaries \subseteq Entry[v]
    BY <1>1, <2>3, <2>4, EntryDefined
  <2>6. Entry[v] \subseteq Entry[b]
    BY <2>1, <2>2, EntryGrows
  <2>7. QED
    BY <2>5, <2>6
<1>4. QED
  BY <1>2, <1>3

\* What is bound ahead of n, or of a region around it, is bound at n.
LEMMA BoundInside ==
  ASSUME Sound, NEW em, Layout(em), NEW n \in Emitted, NEW v \in {n} \cup Range(Enclosing(n))
  PROVE  /\ v \in Emitted /\ RegionOf(v) \in Blocks
         /\ BoundBefore(RegionOf(v), em[RegionOf(v)].at[v]) \subseteq
              Bound(RegionOf(n), em[RegionOf(n)].at[n])
<1>1. n \in Id
  BY DEF Emitted
<1>2. CASE v = n
  BY <1>1, <1>2, WellFormed DEF Bound
<1>3. CASE v \in Range(Enclosing(n))
  <2>1. v \in Id /\ IsRegion(v) /\ v \in Emitted /\ v \in Blocks /\ v # NoNode
    BY <1>1, <1>3, AroundAround
    DEF Emitted, Blocks, IsRegion, IsBoundary, RegionKind, BoundaryKind, Sound, Declared
  <2>2. RegionOf(v) \in Blocks
    BY <2>1, WellFormed
  <2>3. Last(lowering.paths[v]) = em[RegionOf(v)].at[v]
    <3>1. lowering.paths[v] = PathTo(v, em)
      BY <2>1 DEF Layout
    <3>2. PICK w : /\ Inside(v, w)
                   /\ PathTo(v, em) = [i \in 1 .. Len(w) |-> em[RegionOf(w[i])].at[w[i]]]
      BY <2>1, PathInwards
    <3>3. Len(w) \in Nat /\ Len(w) # 0 /\ w[Len(w)] = v
      BY <3>2 DEF Inside
    <3> DEFINE path == [i \in 1 .. Len(w) |-> em[RegionOf(w[i])].at[w[i]]]
    <3>4. Len(path) = Len(w) /\ path[Len(w)] = em[RegionOf(w[Len(w)])].at[w[Len(w)]]
      BY <3>3
    <3> HIDE DEF path
    <3>5. Last(path) = em[RegionOf(v)].at[v]
      BY <3>3, <3>4 DEF Last
    <3>6. QED
      BY <3>1, <3>2, <3>5 DEF path
  <2>4. BoundBefore(RegionOf(v), em[RegionOf(v)].at[v]) \subseteq Entry[v]
    BY <2>1, <2>3, EntryDefined
  <2>5. Entry[v] \subseteq Entry[RegionOf(n)]
    BY <1>1, <1>3, EntryGrows
  <2>6. QED
    BY <2>1, <2>2, <2>4, <2>5 DEF Bound
<1>4. QED
  BY <1>2, <1>3

\* No edge leads from a node to itself.
LEMMA NoSelfLoop ==
  ASSUME Sound, NEW e \in graph.edges
  PROVE  e.from.node # e.to.node
<1> DEFINE edges == {<<f.from.node, f.to.node>> : f \in graph.edges}
           o == InOrder(graph.decl, edges)
           x == e.from.node
<1> SUFFICES ASSUME e.from.node = e.to.node
             PROVE  FALSE
  OBVIOUS
<1>1. /\ graph.decl \in Seq(Id) /\ Range(graph.decl) = Id /\ IsInjective(graph.decl)
      /\ TableRefusals = {} /\ Problems = {}
  BY DEF Sound, Declared
<1>2. x \in Id
  BY <1>1, AdmittedEdges DEF Sound
<1>3. <<x, x>> \in edges
  OBVIOUS
<1>4. Len(o) = Len(graph.decl)
  BY <1>1 DEF TableRefusals, Acyclic
<1>5. Sorted(o, graph.decl, edges, Len(graph.decl))
  BY <1>1, InOrderSorted
<1> HIDE DEF o, edges, x
<1>6. /\ o \in Seq(Id) /\ IsInjective(o)
      /\ \A j \in DOMAIN o : \A pair \in edges :
           pair[2] = o[j] => \E i \in 1 .. (j - 1) : o[i] = pair[1]
  BY <1>1, <1>5 DEF Sorted
<1>7. Range(o) = Id
  <2>1. IsFiniteSet(Id) /\ Cardinality(Id) = Len(graph.decl)
    BY <1>1, OnceCounted
  <2>2. IsFiniteSet(Range(o)) /\ Cardinality(Range(o)) = Len(o) /\ Range(o) \subseteq Id
    <3>1. IsFiniteSet(Range(o)) /\ Cardinality(Range(o)) = Len(o)
      BY <1>6, OnceCounted
    <3>2. Range(o) \subseteq Id
      BY <1>6 DEF Range
    <3>3. QED
      BY <3>1, <3>2
  <2>3. QED
    BY <1>4, <2>1, <2>2, FS_Subset
<1>8. PICK j \in DOMAIN o : o[j] = x
  BY <1>2, <1>7 DEF Range
<1>9. PICK i \in 1 .. (j - 1) : o[i] = x
  BY <1>3, <1>6, <1>8
<1>10. i \in DOMAIN o /\ i # j
  BY <1>6
<1>11. QED
  BY <1>6, <1>8, <1>9, <1>10 DEF IsInjective

\* Only the node and the port of a reference decide its symbol.
LEMMA SameSymbol ==
  ASSUME NEW ref, NEW readers
  PROVE  SymbolFor(ref, readers) = SymbolFor([node |-> ref.node, port |-> ref.port], readers)
<1> DEFINE same == [node |-> ref.node, port |-> ref.port]
<1>1. same.node = ref.node /\ same.port = ref.port
  OBVIOUS
<1> HIDE DEF same
<1>2. Inwards(ref, {"retry"}) = Inwards(same, {"retry"})
  BY <1>1 DEF Inwards
<1>3. SymbolFor(ref, readers) = SymbolFor(same, readers)
  BY <1>1, <1>2 DEF SymbolFor, LocalSymbol
<1>4. QED
  BY <1>3 DEF same

\* A value that every region it leaves declares.
Crosses(ref, readers) ==
  Declares(ref) /\ \A q \in Range(Left(ref.node, readers)) : ref.port \in graph.node[q].outs

LEMMA UnrefusedCrosses ==
  ASSUME NEW ref, NEW readers, NEW why, ReadRefusals(ref, readers, why) = {}
  PROVE  Crosses(ref, readers)
BY DEF ReadRefusals, Crosses

\* What the statement of a node reads crosses the regions in between.
LEMMA OwnReads ==
  ASSUME Sound, NEW x \in Emitted, NEW r \in Own(x).reads
  PROVE  /\ ~IsRegion(x) \/ KindOf(x) = "gate"
         /\ r.why # "close"
         /\ \E ref : /\ Crosses(ref, Readers(x)) /\ r.from = ref.node
                     /\ r.symbol = SymbolFor(ref, Readers(x))
<1>1. x \in Id /\ Declared /\ Problems = {} /\ TableRefusals = {} /\ EmissionRefusals = {}
  BY DEF Emitted, Sound
<1>2. KindOf(x) \notin {"retry", "approval", "throttle"}
  BY DEF Own, Statement
<1>3. CASE KindOf(x) = "gate"
  <2> DEFINE ref == graph.node[x].cond.left
  <2>1. r = Read(ref, Readers(x), "condition")
    BY <1>3 DEF Own, Statement
  <2>2. KindRefusals(x) = {}
    <3>1. InputRefusals(x) \cup KindRefusals(x) \subseteq EmissionRefusals
      BY DEF EmissionRefusals
    <3>2. QED
      BY <1>1, <3>1
  <2>3. ReadRefusals(ref, Readers(x), "condition") = {}
    <3>1. ReadRefusals(ref, Readers(x), "condition") \subseteq KindRefusals(x)
      BY <1>3 DEF KindRefusals, KindOf
    <3>2. QED
      BY <2>2, <3>1
  <2> HIDE DEF ref
  <2>4. Crosses(ref, Readers(x))
    BY <2>3, UnrefusedCrosses
  <2>5. QED
    BY <1>3, <2>1, <2>4 DEF Read
<1>4. CASE KindOf(x) # "gate"
  <2>1. Own(x).reads = EdgeReads(x)
    BY <1>2, <1>4 DEF Own, Statement
  <2>2. PICK e \in Into(x) : r = Read(e.from, Readers(x), "edge")
    BY <2>1 DEF EdgeReads
  <2>3. e \in graph.edges /\ e.to.node = x
    BY DEF Into
  <2>4. Crosses(e.from, Readers(x))
    BY <1>1, <2>3, AdmittedEdges DEF Crosses, Declares
  <2>5. ~IsRegion(x)
    BY <1>2, <1>4 DEF IsRegion, RegionKind
  <2>6. QED
    BY <2>2, <2>4, <2>5 DEF Read
<1>5. QED
  BY <1>3, <1>4

\* A value from outside the op is bound everywhere in it.
LEMMA BoundaryValue ==
  ASSUME Sound, NEW em, Layout(em), NEW ref, NEW readers, Crosses(ref, readers),
         IsBoundary(ref.node), NEW b \in Blocks, NEW i
  PROVE  SymbolFor(ref, readers) \in Bound(b, i)
<1> DEFINE n == ref.node
           p == ref.port
           same == [node |-> n, port |-> p]
<1>1. n \in Id /\ p \in graph.node[n].outs /\ n \in Declaring(p)
  BY DEF Crosses, Declares, Declaring
<1>2. ~IsRegion(n)
  BY DEF IsRegion, IsBoundary, RegionKind, BoundaryKind
<1>3. Enclosing(n) = <<>>
  BY <1>1, BoundariesOutside, EnclosingFacts DEF Sound
<1>4. Left(n, readers) = <<>>
  BY <1>3 DEF Left
<1>5. SymbolFor(same, readers) = LocalSymbol(same)
  <2>1. same.node = n
    OBVIOUS
  <2> HIDE DEF same, n
  <2>2. {j \in DOMAIN Left(same.node, readers) : KindOf(Left(same.node, readers)[j]) = "retry"} = {}
    BY <1>4, <2>1
  <2>3. QED
    BY <2>2 DEF SymbolFor
<1>6. LocalSymbol(same) = <<n, p>>
  BY <1>1, <1>2, Exported
<1>7. <<n, p>> \in Boundaries
  <2>1. n \in Id \ Emitted /\ <<n, p>> \in {<<n, q>> : q \in graph.node[n].outs}
    BY <1>1 DEF Emitted
  <2> HIDE DEF n, p
  <2>2. QED
    BY <2>1 DEF Boundaries
<1>8. SymbolFor(ref, readers) = <<n, p>>
  BY <1>5, <1>6, SameSymbol
<1> HIDE DEF n, p, same
<1>9. QED
  BY <1>7, <1>8, BoundariesBound DEF Bound

\* What a node reads along an edge into it: the value leaves its source's
\* regions up to the block the two have in common, whose order puts the part
\* that has the source before the part that has the reader.
LEMMA NodeReads ==
  ASSUME Sound, NEW em, Layout(em), NEW b \in Blocks, NEW x \in Members(b),
         NEW r \in Own(x).reads, Drawn(b, em[b].at[x], r)
  PROVE  r.symbol \in Bound(b, em[b].at[x])
<1> DEFINE readers == Range(Enclosing(x))
           i == em[b].at[x]
<1>1. x \in Id /\ x \in Emitted /\ RegionOf(x) = b /\ x # NoNode
  BY MemberFacts
<1>2. ~IsRegion(x) \/ KindOf(x) = "gate"
  BY <1>1, OwnReads
<1>3. PICK ref : /\ Crosses(ref, readers) /\ r.from = ref.node
                 /\ r.symbol = SymbolFor(ref, readers)
  BY <1>1, OwnReads DEF Readers
<1> DEFINE m == ref.node
           p == ref.port
<1>4. m \in Declaring(p) /\ m \in Id
  BY <1>3 DEF Crosses, Declares, Declaring
<1>5. CASE IsBoundary(m)
  BY <1>3, <1>5, BoundaryValue
<1>6. CASE ~IsBoundary(m)
  <2>1. m \in Emitted
    BY <1>4, <1>6 DEF Emitted
  <2>2. \A q \in Range(Left(m, readers)) : p \in graph.node[q].outs
    BY <1>3 DEF Crosses
  <2>3. SymbolFor([node |-> m, port |-> p], readers) = r.symbol
    BY <1>3, SameSymbol
  <2> HIDE DEF p, m, readers
  <2>4. PICK u \in Declaring(p) :
          /\ u = m \/ (u \in Range(Enclosing(m)) \ readers)
          /\ u \in Emitted /\ RegionOf(u) \in (Range(Enclosing(m)) \cap readers) \cup {NoNode}
          /\ r.symbol \in Stays(Own(u), After)
    BY <1>4, <2>1, <2>2, <2>3, Arrives
  <2> DEFINE B == RegionOf(u)
  <2>5. PICK v \in {x} \cup readers : RegionOf(v) = B
    BY <1>1, <2>4, MemberOnTheWay DEF readers
  <2>6. /\ v \in Emitted /\ B \in Blocks
        /\ BoundBefore(B, em[B].at[v]) \subseteq Bound(b, i)
    BY <1>1, <2>5, BoundInside DEF readers
  <2>7. u \in Members(B) /\ v \in Members(B)
    BY <2>4, <2>5, <2>6 DEF Members
  <2>8. PICK e \in graph.edges : e.from.node = m /\ Owned(x, e.to.node) /\ m \notin readers
    <3>1. lowering.body[b][i].node = x
      BY <1>1, MemberStatement, OwnStatement
    <3>2. QED
      BY <1>3, <3>1 DEF Drawn, m, readers
  <2> DEFINE t == e.to.node
  <2>9. t \in Id
    BY AdmittedEdges DEF Sound
  <2>10. x = t \/ (x \in Range(Enclosing(t)) /\ IsRegion(x) /\ readers \subseteq Range(Enclosing(t)))
    BY <2>8, <2>9, AroundAround DEF Owned, readers
  <2>11. Owned(u, m) /\ Owned(v, t)
    BY <2>4, <2>10 DEF Owned, readers
  <2>12. u # v
    <3> SUFFICES ASSUME u = v
                 PROVE  FALSE
      OBVIOUS
    <3>1. v = x
      BY <2>4, <2>8
    <3>2. u \in Id /\ p \in graph.node[u].outs
      BY DEF Declaring
    <3>3. ~IsRegion(x)
      BY <1>2, <3>1, <3>2, NoGateDeclares
    <3>4. x = m /\ x = t
      BY <1>4, <2>4, <2>10, <3>1, <3>3, AroundAround
    <3>5. QED
      BY <2>8, <3>4, NoSelfLoop
  <2>13. <<u, v>> \in Before(B)
    BY <2>7, <2>8, <2>11, <2>12 DEF Before
  <2>14. em[B].at[u] < em[B].at[v] /\ em[B].at[v] \in Nat
    <3>1. InBlock(B, em[B].out, em[B].at)
      BY <2>6 DEF Layout
    <3>2. QED
      BY <2>6, <2>13, <3>1 DEF InBlock
  <2> HIDE DEF B
  <2>15. Stays(Own(u), After) \subseteq BoundBefore(B, em[B].at[v])
    BY <2>6, <2>7, <2>14, MemberStatement
  <2>16. QED
    BY <2>4, <2>6, <2>15
<1>7. QED
  BY <1>5, <1>6

\* What a block ends in.
LEMMA ClosingReads ==
  ASSUME Sound, NEW em, Layout(em), NEW b \in Blocks, NEW i, i = Len(lowering.body[b]),
         i \in 1 .. Len(lowering.body[b]), Len(Closing(b)) = 1,
         lowering.body[b][i] = Closing(b)[1], NEW r \in Closing(b)[1].reads
  PROVE  r.symbol \in Bound(b, i)
<1>1. ASSUME NEW u \in Members(b)
      PROVE  Stays(Own(u), After) \subseteq Bound(b, i)
  <2>1. em[b].at[u] \in 1 .. Len(lowering.body[b]) /\ lowering.body[b][em[b].at[u]] = Own(u)
    BY DEF Layout, InBlock
  <2>2. Own(u).node = u /\ u # NoNode
    BY MemberFacts, OwnStatement
  <2>3. lowering.body[b][i].node = NoNode
    <3>1. 1 \in 1 .. Len(Closing(b))
      OBVIOUS
    <3>2. QED
      BY <3>1, ClosingStatement
  <2>4. em[b].at[u] # i
    BY <2>1, <2>2, <2>3
  <2>5. i \in Nat /\ em[b].at[u] < i
    BY <2>1, <2>4
  <2>6. Stays(Own(u), After) \subseteq BoundBefore(b, i)
    BY <2>5, MemberStatement
  <2>7. QED
    BY <2>6 DEF Bound
<1>2. CASE b = NoNode
  <2> DEFINE ref == graph.output
             m == ref.node
             p == ref.port
  <2>1. ref # NoNode /\ r.symbol = SymbolFor(ref, {})
    BY <1>2 DEF Closing, Statement, Read
  <2>2. ReadRefusals(ref, {}, "output") = {}
    <3>1. ref # NoNode => ReadRefusals(ref, {}, "output") \subseteq EmissionRefusals
      BY DEF EmissionRefusals
    <3>2. QED
      BY <2>1, <3>1 DEF Sound
  <2>3. Crosses(ref, {})
    <3> HIDE DEF ref
    <3>1. QED
      BY <2>2, UnrefusedCrosses
  <2> HIDE DEF ref
  <2>4. CASE IsBoundary(m)
    BY <2>1, <2>3, <2>4, BoundaryValue
  <2>5. CASE ~IsBoundary(m)
    <3>1. m \in Declaring(p) /\ m \in Emitted
      BY <2>3, <2>5 DEF Crosses, Declares, Declaring, Emitted
    <3>2. \A q \in Range(Left(m, {})) : p \in graph.node[q].outs
      BY <2>3 DEF Crosses
    <3>3. SymbolFor([node |-> m, port |-> p], {}) = r.symbol
      BY <2>1, SameSymbol
    <3> HIDE DEF m, p
    <3>4. PICK u \in Declaring(p) :
            /\ u \in Emitted /\ RegionOf(u) = NoNode
            /\ r.symbol \in Stays(Own(u), After)
      BY <3>1, <3>2, <3>3, Arrives
    <3>5. u \in Members(b)
      BY <1>2, <3>4 DEF Members
    <3>6. QED
      BY <1>1, <3>4, <3>5
  <2>6. QED
    BY <2>4, <2>5
<1>3. CASE b # NoNode
  <2>1. KindOf(b) = "retry" /\ b \in Id /\ IsRegion(b)
    BY <1>3 DEF Closing, Blocks, IsRegion, RegionKind
  <2>2. PICK p \in graph.node[b].outs :
          r = Read([node |-> Producer(b, p), port |-> p], {b} \cup Readers(b), "close")
    <3> DEFINE exported == {Read([node |-> Producer(b, p), port |-> p], {b} \cup Readers(b), "close") :
                              p \in graph.node[b].outs}
    <3>1. Closing(b) = IF exported = {} THEN <<>> ELSE <<Statement(NoNode, {}, NoNode, exported)>>
      BY <1>3, <2>1, Zenon DEF Closing
    <3> HIDE DEF exported
    <3>2. exported # {}
      BY <3>1
    <3>3. Closing(b)[1].reads = exported
      BY <3>1, <3>2 DEF Statement
    <3>4. r \in exported
      BY <3>3
    <3>5. QED
      BY <3>4 DEF exported
  <2> DEFINE m == Producer(b, p)
             readers == {b} \cup Readers(b)
  <2>3. m \in Declaring(p) /\ m \in Members(b)
    BY <2>1, ProducerInside DEF Declaring
  <2>4. m \in Id /\ m \in Emitted /\ RegionOf(m) = b /\ b \in readers
    BY <2>3, MemberFacts
  <2> HIDE DEF m, readers
  <2>5. Range(Left(m, readers)) = {}
    <3>1. Range(Enclosing(m)) = {b} \cup Range(Enclosing(b))
      BY <1>3, <2>4, EnclosingOf
    <3>2. QED
      BY <2>4, <3>1, LeftOnes DEF Sound, readers, Readers
  <2>6. \A q \in Range(Left(m, readers)) : p \in graph.node[q].outs
    BY <2>5
  <2>7. PICK u \in Declaring(p) :
          /\ SymbolFor([node |-> m, port |-> p], readers) \in Stays(Own(u), After)
          /\ u = m
    BY <2>3, <2>4, <2>6, Arrives
  <2>8. r.symbol = SymbolFor([node |-> m, port |-> p], readers)
    BY <2>2 DEF Read, m, readers
  <2>9. QED
    BY <1>1, <2>3, <2>7, <2>8
<1>4. QED
  BY <1>2, <1>3

\* In every lowered op, at any depth of regions, a value that flows out of a retry,
\* into the op's answer or along an edge that does not lead from a region to a node
\* inside that region is bound where it is read: the order of the blocks
\* (connector-flux graph.rs 672-738) and the symbols that readers ask for (510-573)
\* fit each other. Along the edges left out it is not (707-709, 883-899): the loader
\* admits them and EveryEdgeIsBound, which includes them, is false.
THEOREM FlowEdgesAreBound == FlowSpec => []EdgesAreBound
<1>1. FlowInv => EdgesAreBound
  <2> SUFFICES ASSUME FlowInv, IsLowered, NEW b \in Blocks, NEW i \in DOMAIN lowering.body[b],
                      NEW r \in Reads(b, i), r.why = "close" \/ Drawn(b, i, r)
               PROVE  r.symbol \in Bound(b, i)
    BY DEF EdgesAreBound
  <2>1. Sound /\ lowering = Lowered
    BY LoweredIsSound
  <2>2. PICK em : Layout(em)
    BY <2>1, LoweredBodies DEF Layout
  <2>3. InBlock(b, em[b].out, em[b].at) /\ lowering.body[b] = em[b].out
    BY <2>2 DEF Layout
  <2>4. lowering.body[b] \in Seq(Statements) /\ i \in 1 .. Len(lowering.body[b])
    <3>1. lowering.body[b] \in Seq(Statements)
      BY <2>3 DEF InBlock
    <3>2. QED
      BY <3>1
  <2>5. r \in lowering.body[b][i].reads
    BY DEF Reads
  <2>6. CASE \E x \in Members(b) : i = em[b].at[x]
    <3>1. PICK x \in Members(b) : i = em[b].at[x]
      BY <2>6
    <3>2. r \in Own(x).reads /\ x \in Emitted
      BY <2>1, <2>2, <2>5, <3>1, MemberStatement, MemberFacts
    <3>3. r.why # "close"
      BY <2>1, <3>2, OwnReads
    <3>4. QED
      BY <2>1, <2>2, <3>1, <3>2, <3>3, NodeReads
  <2>7. CASE \E n \in Id : lowering.body[b][i] = Statement(NoNode, {<<n, "expected">>}, NoNode, {})
    BY <2>5, <2>7 DEF Statement
  <2>8. CASE i = Len(lowering.body[b]) /\ Len(Closing(b)) = 1 /\ lowering.body[b][i] = Closing(b)[1]
    BY <2>1, <2>2, <2>4, <2>5, <2>8, ClosingReads
  <2>9. QED
    BY <2>3, <2>4, <2>6, <2>7, <2>8 DEF InBlock
<1>2. QED
  BY <1>1, FlowKeeps, PTL
=============================================================================
