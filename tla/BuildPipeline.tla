--------------------------- MODULE BuildPipeline ---------------------------
(***************************************************************************)
(* The build of the connector command line (connector-cli, pipeline.rs,    *)
(* artifact.rs and lib.rs): the providers' definitions are compiled by     *)
(* worker threads into one plan, and the plan's artifacts are written one  *)
(* after the other, each to a temporary that is renamed over the old file. *)
(*                                                                         *)
(* A definition is a version, some of which do not compile.  One path per  *)
(* provider stands for the family of its artifacts, and Index for those    *)
(* that are a function of the whole catalogue: its contents are the        *)
(* published entries, in the order they were merged.  Definitions change   *)
(* between runs only.  External: a power failure may undo the renames of   *)
(* the run it ends, as no directory is synced, and leaves a file that was  *)
(* not synced in part; between runs the file system settles.               *)
(***************************************************************************)
EXTENDS Naturals, Sequences, FiniteSets, SequencesExt, Filtering

CONSTANTS
  Order,     \* the providers, sorted by name
  Version,   \* what a definition says
  Broken,    \* the versions that do not compile
  None,      \* no definition, no file, no provider
  Index,     \* the path of the catalogue's own artifacts
  Listing,   \* every path, in the order of the paths
  Partial,   \* the contents of a file cut short
  Workers,   \* the most threads a run compiles with
  MaxRuns    \* bound: how many runs are started

Provider == Range(Order)
Path == Provider \cup {Index}

ASSUME BuildAssumption ==
  /\ Workers \in Nat \ {0} /\ MaxRuns \in Nat
  /\ None \notin Version /\ Index \notin Provider /\ Range(Listing) = Path
  /\ Order \in Seq(Provider) /\ Listing \in Seq(Path)

VARIABLES
  definition,  \* per provider, its definition or None
  tree,        \* per path, the committed contents or None
  run,         \* the run in progress or the last one
  runs         \* how many were started

buildVars == <<definition, tree, run, runs>>

Idle == {"new", "failed", "refused", "aborted", "crashed", "done"}

NoRun == [phase |-> "new", whole |-> TRUE, providers |-> <<>>, next |-> 1,
          claimed |-> <<>>, batches |-> <<>>, plan |-> <<>>, synced |-> FALSE,
          loose |-> {}, failed |-> None, before |-> tree]

BuildInit ==
  /\ definition \in [Provider -> Version \cup {None}]
  /\ tree = [p \in Path |-> None]
  /\ run = NoRun
  /\ runs = 0

\* The definitions are edited, added and removed by hand; the outcome of the
\* last run is no longer looked at.
Edit(p, v) ==
  /\ run.phase \in Idle /\ runs < MaxRuns
  /\ definition' = [definition EXCEPT ![p] = v]
  /\ run' = NoRun
  /\ UNCHANGED <<tree, runs>>

-----------------------------------------------------------------------------
(* Planning *)

\* discover: the selected providers that exist, in order.
Discovered(only) == Kept(Order, {p \in only : definition[p] # None})

\* plan_at_width: one thread per worker, never more than there are providers.
Begin(only, width) ==
  /\ run.phase \in Idle /\ runs < MaxRuns
  /\ Discovered(only) # <<>> /\ width <= Len(Discovered(only))
  /\ runs' = runs + 1
  /\ run' = [NoRun EXCEPT !.phase = "compiling", !.whole = (only = Provider),
                          !.providers = Discovered(only),
                          !.claimed = [w \in 1..width |-> 0],
                          !.batches = [w \in 1..width |-> <<>>]]
  /\ UNCHANGED <<definition, tree>>

Width == Len(run.batches)

Fails(result) == result.version \in Broken

\* A run of one worker is the sequential loop: it stops at the first failure.
Stopped == Width = 1 /\ \E r \in Range(run.batches[1]) : Fails(r)

\* A worker claims the next index; a failure of its own does not stop it.
Claim(w) ==
  /\ run.phase = "compiling" /\ run.claimed[w] = 0
  /\ run.next <= Len(run.providers) /\ ~Stopped
  /\ run' = [run EXCEPT !.claimed[w] = run.next, !.next = @ + 1]
  /\ UNCHANGED <<definition, tree, runs>>

Compile(w) ==
  LET i == run.claimed[w]
      result == [index |-> i, provider |-> run.providers[i],
                 version |-> definition[run.providers[i]]]
  IN  /\ run.phase = "compiling" /\ i # 0
      /\ run' = [run EXCEPT !.claimed[w] = 0, !.batches[w] = Append(@, result)]
      /\ UNCHANGED <<definition, tree, runs>>

Results == UNION {Range(run.batches[w]) : w \in 1..Width}

\* Mutant of Compiled: the results stay in the order the threads were joined.
CompiledUnsorted == FlattenSeq(run.batches)

\* compile_all: the order of the results is restored by index, so the n-th
\* result is the one with n - 1 smaller indices.
Compiled ==
  LET upto(r) == {q \in Results : q.index <= r.index}
  IN  [n \in 1..Cardinality(Results) |-> CHOOSE r \in Results : Cardinality(upto(r)) = n]

\* plan_at_width: one artifact per provider, and the whole catalogue's.
Artifacts ==
  LET compiled == Compiled
      published == [i \in DOMAIN compiled |-> <<compiled[i].provider, compiled[i].version>>]
      of(p) == CHOOSE r \in Range(compiled) : r.provider = p
  IN  [p \in {r.provider : r \in Range(compiled)} \cup IF run.whole THEN {Index} ELSE {} |->
         IF p = Index THEN published ELSE <<of(p).version>>]

\* planned: what the artifacts would change in the tree, by path, whatever they
\* were compiled from.
Changes(artifacts) ==
  LET paths == Kept(Listing, {p \in DOMAIN artifacts : tree[p] # artifacts[p]})
  IN  [i \in DOMAIN paths |-> [path |-> paths[i], contents |-> artifacts[paths[i]]]]

\* orphaned: committed files of the family that no artifact claims; a narrowed
\* run looks for none.
Orphans ==
  IF run.whole THEN {p \in Provider : tree[p] # None /\ p \notin Range(run.providers)} ELSE {}

\* The threads are joined: the first failure in order is the run's, orphans
\* are refused, and only then is anything written.
Join ==
  LET failing == {i \in DOMAIN Compiled : Fails(Compiled[i])}
  IN  /\ run.phase = "compiling"
      /\ run.next > Len(run.providers) \/ Stopped
      /\ \A w \in 1..Width : run.claimed[w] = 0
      /\ LET joined == [run EXCEPT !.batches = <<>>, !.claimed = <<>>]
         IN  run' = IF failing # {}
                    THEN [joined EXCEPT !.phase = "failed", !.failed = Compiled[Min(failing)].provider]
                    ELSE IF Orphans # {} THEN [joined EXCEPT !.phase = "refused"]
                    ELSE [joined EXCEPT !.phase = "applying", !.plan = Changes(Artifacts)]
      /\ UNCHANGED <<definition, tree, runs>>

-----------------------------------------------------------------------------
(* Applying *)

\* write_then_rename, up to the flush: the temporary is whole.
WriteTemporary ==
  /\ run.phase = "applying" /\ run.plan # <<>> /\ ~run.synced
  /\ run' = [run EXCEPT !.synced = TRUE]
  /\ UNCHANGED <<definition, tree, runs>>

\* Mutant of Ready: the rename does not wait for the flush.
ReadyUnsynced == run.phase = "applying" /\ run.plan # <<>>

Ready == run.phase = "applying" /\ run.plan # <<>> /\ run.synced

Rename ==
  LET a == Head(run.plan)
  IN  /\ Ready
      /\ tree' = [tree EXCEPT ![a.path] = a.contents]
      /\ run' = [run EXCEPT !.plan = Tail(@), !.synced = FALSE,
                            !.loose = IF run.synced THEN @ ELSE @ \cup {a.path}]
      /\ UNCHANGED <<definition, runs>>

\* A write fails: its temporary is removed and the rest is not attempted.
WriteFails ==
  /\ run.phase = "applying" /\ run.plan # <<>>
  /\ run' = [run EXCEPT !.phase = "aborted"]
  /\ UNCHANGED <<definition, tree, runs>>

Finish ==
  /\ run.phase = "applying" /\ run.plan = <<>>
  /\ run' = [run EXCEPT !.phase = "done"]
  /\ UNCHANGED <<definition, tree, runs>>

\* The machine stops; any rename of this run may be undone.
Crash ==
  /\ run.phase \notin Idle
  /\ \E undone \in SUBSET {p \in Path : tree[p] # run.before[p]} :
       tree' = [p \in Path |-> IF p \in undone THEN run.before[p]
                               ELSE IF p \in run.loose THEN Partial ELSE tree[p]]
  /\ run' = [run EXCEPT !.phase = "crashed"]
  /\ UNCHANGED <<definition, runs>>

BuildNext ==
  \/ \E p \in Provider, v \in Version \cup {None} : Edit(p, v)
  \/ \E only \in {Provider} \cup {{p} : p \in Provider}, width \in 1..Workers : Begin(only, width)
  \/ \E w \in 1..Width : Claim(w) \/ Compile(w)
  \/ Join \/ WriteTemporary \/ Rename \/ WriteFails \/ Finish \/ Crash

BuildSpec == BuildInit /\ [][BuildNext]_buildVars

-----------------------------------------------------------------------------
(* Properties *)

\* What a sequential build of the run's providers would generate at a path.
Generated(p) ==
  IF p = Index
  THEN [i \in DOMAIN run.providers |-> <<run.providers[i], definition[run.providers[i]]>>]
  ELSE <<definition[p]>>

Planned == Range(run.providers) \cup IF run.whole THEN {Index} ELSE {}

\* A run ends as the sequential build would, whatever order the threads
\* finished in: it names the first provider that does not compile, or refuses
\* an orphan, and has touched nothing; or every artifact it planned is the
\* generated one, also after a run that stopped in the middle.
SequentialOutcome ==
  LET broken == {i \in DOMAIN run.providers : definition[run.providers[i]] \in Broken}
  IN  /\ run.phase = "failed" =>
           broken # {} /\ run.failed = run.providers[Min(broken)] /\ tree = run.before
      /\ run.phase = "refused" => broken = {} /\ tree = run.before
      /\ run.phase \in {"applying", "done"} => broken = {} /\ Orphans = {}
      /\ run.phase = "done" => \A p \in Planned : tree[p] = Generated(p)

\* At every moment of a run, and after a crash at any moment, a path holds what
\* it held before the run or the whole of what the run generates for it.
OldOrNew ==
  run.phase # "new" =>
    \A p \in Path : tree[p] = run.before[p] \/ (p \in Planned /\ tree[p] = Generated(p))
=============================================================================
