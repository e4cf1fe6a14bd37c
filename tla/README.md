# Verification of the connector workspace

TLA+ modules, model-checking configurations and proofs for the code of this
repository: the credential stores of `crates/connector-secrets`, the host's sign-in
and its cache of signing keys, the path of one operation from the host through the
connector pack and the resolver to the vendor, the parallel build of the command
line, and the flow graphs from loader to lowered op. What is left out, most of it
sequential translation of documents, is in section 7.

## 1. Inventory

| Component | State | Operations | Interacts with | Hard behaviour | What makes it correct |
|---|---|---|---|---|---|
| Secret batch (`connector-secrets/src/batch.rs`) | operations, touched addresses, scope | `move_secret`, `put`, `delete`, `apply_to` | both stores apply it | order of operations | one outcome in every order; nothing outside the scope |
| Prepared-transaction port (`transaction.rs`) | ids with owner-allocated generations, public states, errors | `prepare`, `state`, `commit`, `abort`, `reclaim` | implemented by the stores, driven by a coordinator | replays, delayed calls, retirement | the contract of section 3.2 |
| `MemoryStore` (`memory.rs`) | entries, terminals, one prepared slot, fence | `put`, `delete`, `apply`, the five transaction calls | one mutex, no awaits inside | long call sequences, capacity | implements the contract |
| `FileStore` (`file.rs`, `file/prepared.rs`, `file/unix.rs`) | live file, fixed stage file, temporaries, in-memory view, lease | the same, `open`, recovery, reaping | file system; one process at a time by a lease | crash between any two steps, I/O errors, power loss | always reopens; no answered outcome is lost; implements the contract |
| Windows layer (`file/windows.rs`), Vault (`vault.rs`) | none of their own | the same four file operations; HTTP calls | | | same as Unix; Vault refuses transactions |
| Sign-in and sessions (`connectors-api/src/auth`) | pending logins, live sessions, binding cookie | `signin`, `callback`, `signout`, `resolve` | browser, identity provider, key-set cache | replayed and concurrent callbacks, expiry, a full pending table | a state is redeemed once, by the browser it was given to; a revoked session is dead |
| Key-set cache (`auth/oidc.rs`) | cached keys and their age | `current`, `refresh_for_unknown_key` | awaits the provider without a lock | concurrent refetches, key rotation | rate limit; a rotated key is eventually accepted |
| Host settings and execution (`connectors-api/src/{config,secrets,exec,api}.rs`) | settings per tenant, secret store | `execute`, writes of settings and credentials, the connector's page | pack, stores | settings and credentials written while an operation runs, a dropped connection | what a request carries is its own tenant's; the page tells the truth |
| Connector pack (`connector-pack`) | per-request configuration snapshot, redactor | projection, permission gate, dispatch, `mint` | store, redactor, vendor | awaits between projection, gate and request; minting before a failure | the gate saw the URL that is requested; secrets are held by the redactor before they travel |
| Resolver (`connector-resolve`) | none of its own | `assemble_credentials`, `resolve_endpoint`, placement | the store, one await per credential | a store changed or failing between two reads | one alternative, whole |
| Command line (`connector-cli`: pipeline, artifacts) | the tree of generated artifacts | `discover`, `compile_all`, `plan`, `apply`, `write_atomic` | threads, file system | parallel compile, failure or crash half way | sequential result; nothing written before everything compiled; each path old or new |
| Flow graphs (`connector-spec/src/{graph,provider}.rs`, `connector-flux/src/graph.rs`) | a graph, its symbol table | `validate_graphs`, `emit_graph_with_paths` | the loader admits what the lowering gets | nested regions, ordering over collapsed edges | every value is bound where it is read; the path map leads to its statement |
| Addresses, the rest of specification and emitter, catalog | none | pure functions over documents | | sequential | functional correctness; left to the repository's tests |

`PROJECT.json` lists each component with its status and every hazard with its
line. Assets, generated tables (`crates/catalog/src/generated`), provider data
(`connectors/`, `catalog/`) and `web/` are left aside.

## 2. Plan

1. **Credential stores** (done): `SecretBatch`, `SecretTransaction`,
   `PreparedStore`, `MemoryStore`, `FileStore`; refinement of the contract by
   both stores; proofs of the contract and of both stores.
2. **`SignIn`** (done): model and proofs of its safety.
3. **`KeySetCache`** (done): model, liveness by TLC, proofs of its safety.
4. **`Execution`** (done): a call over changing settings and credentials, with
   minting and store failures; proofs of all its safety properties.
5. **`BuildPipeline`** and **`FlowGraph`** (done): the parts that run without
   the host, each against what a sequential reader expects of it.
6. **Proofs of the offline parts** (done): the batch for every length and any
   addresses, the build for any providers and schedules, flow graphs of any size and
   nesting.
7. **Left**: the liveness of `KeySetCache` stays with the model checker (section 6),
   and what section 7 lists is not modelled; two hazards in `PROJECT.json` therefore
   have no property, and say why.

## 3. Modules

| Module | Models |
|---|---|
| `SecretBatch` | `batch.rs`: admission to a batch and its application, as operators |
| `SecretTransaction` | ids, generations, ledger records, the fence and the size bounds |
| `PreparedStore` | the abstract contract of the port |
| `MemoryStore` | `memory.rs` |
| `FileStore` | `file.rs`, `file/prepared.rs`, `file/unix.rs` |
| `FileAcknowledged` | `FileStore` with a history of what each call answered for its own work |
| `SignIn` | `auth/session.rs` and the sign-in routes of `auth/routes.rs` |
| `KeySetCache` | `JwksCache` of `auth/oidc.rs` and `verify_with_rotation` of `auth/routes.rs` |
| `Execution` | `connectors-api` `exec.rs` and parts of `api.rs`; `connector-pack` `tool.rs`, `config.rs`, `credentials.rs`, `mint.rs`; `connector-resolve` `resolve.rs`, `credentials.rs`, `auth.rs`, `endpoints.rs` |
| `Filtering` | `filter` and `retain` on a sequence, for the two modules below |
| `BuildPipeline` | `connector-cli` `discovery.rs`, `pipeline.rs`, `artifact.rs` and `build` of `lib.rs` |
| `FlowGraph` | `connector-spec` `graph.rs` and the graph rules of `provider.rs`; `connector-flux` `graph.rs` |
| `MC*` | instances for TLC; `MCSecretBatch` also has the batch builder as a machine, `MCFlowGraph` the graphs that are drawn; `MCOffline` puts these two and the build side by side, `MCHost` the memory store and the calls (parts that share no state: a behaviour is one of the one or one of the other) |
| `*_proofs` | theorems, each beside the module it is about; `Offline_proofs` is about the batch builder of `MCSecretBatch`, `BuildPipeline` and `FlowGraph` |

### 3.1 Batch

An address stands for its rendered path: rendering is injective, so only
equality matters. Entries are total functions in which `NoValue` means a missing
key. `Admit` is the builder's rule (inside the scope, not touched before; the two
ends of one move are compared with the earlier operations only, as in the code).
`ApplyTo` runs the operations in order, as the code does. `Outcome` and `Refuses`
describe the same result from the set of operations; they are what the stores
use. That they agree with `ApplyTo` on every batch the builder can admit and every
image, and therefore that order plays no part, is checked by the run `batch` and
proved for batches of any length.

### 3.2 The contract

`PreparedStore` has four variables (image read, fence, ledger, candidate) and one
indivisible action per call that changes the store. Its properties:

* `OneSlot`: at most one transaction is prepared and a candidate exists exactly then;
* `OutcomesAreFinal`: an outcome stays until its generation is retired;
* `FenceMonotone` and `FenceHolds`: retirement is for good, and frees its lines;
* `OutcomeReserved`: what is prepared can always be recorded as decided;
* `SlotFreezesReads`: while a transaction is prepared only its own decision
  changes what is read, and a commit publishes exactly the prepared candidate.

### 3.3 MemoryStore

One mutex guards the state and nothing awaits inside it, so each call is one
action, with one disjunct per outcome in the order of the code's checks.
`reply` is the latest answer; `heard` collects what an owner was told. The
refinement maps the prepared slot and the table of terminals to one ledger
(`LedgerView`). The byte bounds are kept in small units with the order the code's
constants have: a line of the ledger costs 1, 2 or 3, the reservation is 4, a
value 8 (in the code 87, 153, 154 and 160 bytes).

### 3.4 FileStore

Calls hold both mutexes from their first read to their answer, so calls do not
interleave with each other. What interleaves is the machine. A call is therefore
started by the action of its name, which evaluates the code's checks and
computes what it will write, and continues with steps on the file system:

```
prepare          stage.create  stage.replace  stage.sync  live.create  live.replace  live.sync
commit, abort    live.create   live.replace   live.sync   remove       remove.sync
put, delete, apply, reclaim, first open
                 live.create   live.replace   live.sync
open, state with a leftover stage              remove       remove.sync
```

Writing and flushing a temporary is one step with its creation: until the rename
nobody reads it, and what matters is that it is there. Between any two steps:

* `Crash` ends the process (`Kills` allows it in the middle of a call);
* `Faults` makes a step fail: `write` (a temporary not created, written or
  renamed; the code then tries to remove it, which may fail as well), `revalidate`
  (the destination does not pass its check after the rename), `sync` and `quietsync`
  (the directory sync fails where the code requires it, and where it ignores it),
  `remove` (the stage is not removed), `reap` (open does not find or does not remove
  a leftover temporary);
* `Writeback` and `PowerLoss`: `durable` is what a power loss would leave; the
  kernel may write either directory entry back at any time and in any order.

`temps` says for which of the two files temporaries lie around. Their names carry the
process id and a counter, so a call replaces the file with a temporary of its own and
leaves those of earlier processes where they are (`Own`, `Replace`, `WriteFails`).
Only open removes them (`Reap`), those of the live file, as best effort: the code
ignores a directory it cannot read and a file it cannot remove. Nothing is claimed of
a temporary beyond what `file_temporary` shows.

`mem` is the store's view, set where the code sets it: after the live file is
installed, and, for commit and abort, before the stage is removed. `Recovery` is
`recover_stage`, used by `Open` and `State`. `uncertain` names the call whose I/O
error the owner has not resolved. The design document says "a transaction-method
I/O failure is outcome-uncertain until `state` resolves it"; with `Reconciles` the
owner follows that and calls `state` (or reopens) before anything else. A
failed put, delete or apply asks nothing of it.

`heard` collects every outcome the owner was answered, also those that `state`, `open`
and the replay of a known id repeat from the files. `FileAcknowledged` adds the history
`acknowledged`: only the outcomes that a prepare, commit or abort answered for what it
did itself, behind its own directory sync. The difference is what `file_unsynced` is
about, and why only the second kind is safe in every environment (section 6).

### 3.5 Sign-in

A handler runs from one await to the next as one action. `Start` is `signin`;
`Callback` is `callback` up to the token exchange, `Establish` and `Refuse` what
follows it, so any number of other requests fit in between. A state stands for
everything minted with it (nonce, verifier, challenge), and a request names the
session token it may mint. `pending` and `live` are the two tables; a browser has
one binding cookie and one session cookie, set by the last step of the handler
that answers. The provider's side is external: a person approves a started
sign-in, a code is redeemed only with the verifier of its own sign-in, possibly
more than once, and a callback may carry any code in any browser, for any state.
A state waits while its age is below `LOGIN_TTL`; sessions expire at any moment.

An admitted sign-in can be finished while its state waits in the table and the binding
of its browser names it (`Redeemable`). A misdirected callback in that browser clears
the binding and a second sign-in there overwrites it; the state then waits in the table
and nobody can redeem it. `OnlyItsBrowserEndsIt` says that nothing but the time and the
requests of that browser (`OwnStep`) has this effect: no other browser's sign-in,
callback or expiry takes a sign-in away.

### 3.6 Key set

`current` and `refresh_for_unknown_key` look at the cache under a lock that is
released before the fetch. A callback is therefore `Current`, possibly a fetch,
`Refresh`, possibly a second fetch; a fetch is an `Answer` of the provider at one
moment and a `Store` at a later one, or a `Fail`, or a `Timeout`. Keys are
numbered in the order of publication, and the provider's document has the newest
and the one before it. Time is counted in ticks, the durations are constants in
the order of the code's (a fetch times out before the refetch limit, which is
below the document's lifetime), and ages stop at the longest time a property
speaks of. A tick does not pass a fetch's timeout: an answer that arrived in time
is also stored by then.

* `RotationIsSurvived`: a callback whose key has been published for the refetch
  limit plus one fetch is not refused as unknown, although another callback may
  have stored an answer older than its own look at the cache;
* `WithdrawnKeyDies`: late answers count as fresh from their store, so a withdrawn
  key lives up to one fetch longer than the document's lifetime, and no longer.

### 3.7 Running an operation

A call goes through the stages of `execute`, one action per stretch of code between
two awaits or lock acquisitions:

```
Begin  ReadField*  Project   Execute  Get*       Dispatch  Respond      Divert  MintPut   AnswerHandle
new -> projecting -> projected -> assembling -> assembled -> sent -+-> minting -> minted -> done
                                                                   +-> done
```

a permission `Gate` may be asked between `Project` and `Execute`, and `Drop` may end
a call at any of its awaits. `ReadField` takes the settings' lock for
one field at a time, so a projection is not one snapshot of all settings, only a
snapshot of each; `Get` is one awaited read of the store, which may also fail. The
operators' writes (`PutConfig`, `PutCredential`, `DeleteCredential`) fit in anywhere.

A call collects the credentials of one alternative in order; a missing one moves it
to the next alternative with nothing collected, a failing store ends it
(`GetFound`, `GetMissing`, `GetFailed`). A secret has forms (as stored, joined with
a user name, encoded for a query), each registered with the redactor before the
request exists. The vendor echoes any of what it was sent. `gated` remembers the URL
the permission gate saw, `held` and `bound` every value that was at an address or a
setting while the call was assembling or projecting, `wrote` what it minted into the
store: these four histories are what the properties compare requests and answers with.

* `OwnTenantOnly`: every setting and secret in a request was the calling tenant's
  own while the call looked at it;
* `WholeAlternative`: exactly one alternative, complete, nothing of another, and a
  credential is reported missing only if each alternative lacked one;
* `CallableIsTruthful`: the page (`is_callable`) and the assembly, two pieces of
  code, agree while the tenant's credentials do not change; it says nothing of a call
  that is refused for the user name a credential is joined with
  (`MissingCredentialConfig`), which the page does not look at;
* `HeldBeforeItTravels`: no form travels that the redactor does not hold, also one
  too short to be held, and so no answer shows a secret;
* `GateMatchesRequest`: what the gate was shown is what is requested;
* `HandleNamesStored`: a handle is answered only for a secret that was stored.

### 3.8 The build

`Begin` discovers the providers (all, or one) and starts up to `Workers` threads that
`Claim` and `Compile` under a common index; `Join` puts the results back in the order
of the providers, takes the first failure in that order, builds the plan, refuses
orphans and sorts the changes by path. `WriteTemporary`, `Rename` and `WriteFails`
are one artifact's write; a `Crash` may come anywhere and undo any rename of its run,
since no directory is synced. The results of the threads are joined by their index,
which is how the code sorts them; changes are written in the order of the paths
(`Listing`). Compilation is a function of the definition; one path
stands for each provider's artifacts and one for those of the whole catalogue.

### 3.9 Flow graphs

A graph is drawn once (`FlowInit`), loaded (`LoadGraph` computes every problem the
loader reports) and, if there are none, lowered (`LowerGraph`). These are pure
functions over a document, so the model is operators: the problems, the refusals,
the order of each block (`InOrder`, over edges collapsed onto the children of the
block), the symbol a reader uses (`SymbolFor`), the statements, and the path of each
node. `Bound` is what the emitted op is read against: a symbol is bound by the
statements before it in its block and around it, and by the bodies of approvals and
throttles that have ended, not by those of `when` and `retry`. The code's recursions
(outwards over regions, inwards to a producer, over the statements of a block and over
the blocks) are recursive functions over a length or over the blocks, which the proofs
can unfold: `Inwards` walks at most as far as there are nodes, and the proof that this
is far enough is `InwardsStops`.

* `EdgesAreBound`: what flows out of a retry, into the answer or along an edge is bound
  and in scope where it is read, except along an edge from a region to a node inside
  that region;
* `EveryEdgeIsBound`, without that exception, is violated (`flow_unbound`): the loader
  admits such an edge, `order` skips it, because the region is not a child of its own
  block, and the reader asks for a symbol that is bound behind it;
* `PathsLeadHome`: a node's path leads to its one statement, and every emitted node
  has one;
* `CrossingsAgree`: the loader's and the lowering's copies of the rule on leaving a
  region never disagree on an edge.

## 4. Runs

| Run | Shows | Bounds |
|---|---|---|
| `batch` | one part after the other of what runs without the host: `OrderIndependent`, `ApplyMatchesOutcome`, `ScopeConfined` for every admissible batch | three addresses in scope and one outside, two values: batches end when the three are used, which is the longest a batch over them can be |
| | `SequentialOutcome`, `OldOrNew` for the build | three providers whose index file sorts between their own, two threads, two runs: the second meets the tree the first left, complete or not |
| | `EdgesAreBound`, `PathsLeadHome`, `CrossingsAgree` for flow graphs | four nodes and at most two edges: every graph with one region or with two nested ones that can export and be asked about, and an example with one thing wrong at a time |
| `host` | the memory store: the contract, its action properties, `FenceHolds`, `OutcomeReserved`, `OneDecision` | three ids, two of one generation, so that a fence retires some and not all; two digests; two terminals and 18 units, so that both bounds are met with a transaction prepared |
| | the calls: the six properties of section 3.7 | one call, since each is about one call and the others only write what operators may write too; a second tenant with values of its own; three operations (two alternatives and two endpoints; a mint; no credential), three credentials, of which one is joined with a user name and sent in the query; two writes, which is what it takes to change one credential and one setting, or one and back |
| `file_crash` | kills and I/O errors everywhere: `AlwaysRecoverable`, `AnswersKept`, `ViewMatchesFiles`, `OneDecision`, `HolderCanDecide`, the contract | three ids over two generations, two of them interchangeable (symmetry), one address with or without its value, two terminals, 12 units |
| `file_power` | power losses, in an environment without kills inside a call and without failing required syncs: `AlwaysRecoverable`, `AnswersDurable`, and on the durable files `DurableSlotFreezesReads` and `DurableOutcomesAreFinal` | as before, faults `write`, `quietsync`, `remove` |
| `file_temporary` | violated: `NoTemporaryAtRest` | one id, kills only |
| `file_unresolved` | violated: `AlwaysRecoverable` without reconciliation | one id, fault `write` |
| `file_unsynced` | violated: `AnswersDurable` with kills and power losses | one id, no fault |
| `memory_abort` | violated: `PreparedCanAbort` | the memory store as in `host` |
| `signin` | `SessionIsItsBrowsersOwn`, `RedeemedOnce`, `OnlyItsBrowserEndsIt`, `PendingIsBounded` | two browsers; three sign-ins for a table of two, so that one is refused or must wait for another to leave; two people; two callbacks, which a double redemption takes; a lifetime of two ticks |
| `keyset` | `RotationIsSurvived`, `WithdrawnKeyDies`, `EveryCallbackEnds` | two callbacks at a time, repeated without bound; three keys, so that one is withdrawn; lifetime 3, limit 2, timeout 1 ticks |
| `keyset_refetch` | violated: `ForcedRefetchesApart` | as `keyset` |
| `flow_unbound` | violated: `EveryEdgeIsBound` | the graphs of `batch` |

Why the bounds are enough: one slot means at most one transaction is in
progress, so the interesting relations are between it and one earlier
transaction whose record, stage or generation is still around; a third id lets
the ledger be full at the same time. One address distinguishes the old image, the
candidate and an image changed in between, since each may hold the value or not.
`Val`, `Digest` and `Id` are otherwise uninterpreted. For flow graphs, two edges are
enough to order a node before a region, to feed one port twice and to leave two regions
one after the other; what needs longer chains of edges is a cycle through several nodes,
which is refused in one place.

All type invariants are proved (section 6). Those of `FileStore` and `KeySetCache` are
also checked by a run, those of the other components are not checked again.

**Fairness.** `KeySetCache` assumes weak fairness of what the host does for each
callback (the runtime polls every task that is ready, and a timer of the HTTP
client ends a fetch) and of time. It assumes nothing of the provider, which may
never answer. `EveryCallbackEnds` is the only liveness property; the other
specifications have no fairness. Deadlock is checked in `file_crash`, `file_power` and `keyset`; a batch is complete when
every address is used, and a lowered graph and the last of the runs of a build end
theirs; sign-in stops when its states, requests and sessions are used up, and a call is
made once: `batch`, `signin` and `host` may stop. (The memory store has no await and
holds its mutex only inside a call.)

**Kills in `file_power`.** With arbitrary writeback, a kill between the rename of
the stage and its sync, followed by a new process and a power loss, reaches files
whose durable parts are of different calls; the run `file_unsynced` shows the
consequence. `file_power` therefore loses power at any instant but kills the
process only between calls; `file_crash` has the kills. What is true of power losses
with kills and failing syncs is proved of `FileAcknowledged` (section 6).

**A durable refinement** does not hold and is not claimed: point writes take the
directory sync as best effort, so they become durable with the next call's sync
and the durable files can take two steps of the contract at once. The two
`Durable...` action properties say what remains true.

**The mapping of `file_crash`.** The contract's image is what the owner reads: the
live file, except after a point write that failed behind its rename. That write
is in the file but not in the answers of this process (`EntriesRead`), until a
write, `state` or a reopen settles it.

## 5. Findings

1. `file_temporary`: the reaper at `open` looks for `.<store>.*.tmp`; the temporary
   of the stage is `..<store>.prepared.*.tmp`, because the stage's own name starts
   with a dot. A crash while the stage is written leaves a complete copy of every
   credential that no open removes, which the comment at `file.rs:242` rules out.
2. `file_unresolved`: prepare fails after publishing its stage; the view does not
   know the id, so neither abort nor reclaim removes the stage, and a reclaim makes
   it one that recovery refuses. With the reconciliation the design asks for, the
   property holds.
3. `file_unsynced`: `open` and `state` read the live file without syncing the
   directory, so an outcome found after a kill is answered before it is durable.
4. `memory_abort`: `MemoryStore::abort` validates the bounds of the old image,
   which neither `prepare` nor its `put` checked, and can answer `Capacity` for the
   transaction it holds.
5. `keyset_refetch`: the refetch limit looks at the age of the stored document, and
   nothing marks a refetch as under way, so callbacks that look before any has
   stored all refetch; the comment at `oidc.rs:73` promises an interval.
6. `flow_unbound`: an edge from a region's own output to a node of that region is
   admitted, and the lowered op reads the value before it is bound; the comment at
   `graph.rs:666` says that every value is bound before it is read.

Observed while modelling and not the subject of a run:

* A gate names what it compares in its condition, not by an edge. `order`
  (`connector-flux/src/graph.rs:672`, "ordered so every value is bound before it is
  read") looks at edges alone, and the loader does not ask for one, so a gate declared
  before the node it compares lowers to a `when` ahead of the symbol's binding, unless
  Flux's own loader refuses the text. The repository's worked example has no such edge
  and is in order by its declaration. `EdgesAreBound` speaks of a condition only where
  an edge is drawn as well.
* An edge from a region to a node outside and one back into the region is no cycle of
  nodes and is admitted, although the loader's comment (`provider.rs:4226`) says it
  checks "that it has a lowering at all"; the lowering refuses it. It also refuses
  every throttle and every delayed retry, which the loader admits.
* `topological_order` subtracts an incoming edge once per declaration of its source:
  for a graph that declares one id twice, which the loader reports but does not stop
  at, the count can pass below zero. The model declares every id once.
* An edge has no way to name one of a graph's own `inputs`.
* The comments on the dry run say that it names a missing credential; it never looks at
  the store.

## 6. Proofs

Checked by TLAPS for every value of the constants, from the named assumptions in
`SecretBatch`, `SecretTransaction`, `MemoryStore`, `FileStore`, `SignIn`, `KeySetCache`,
`Execution`, `BuildPipeline` and `FlowGraph` (values and markers are distinct,
generations are positive naturals, there are finitely many ids and addresses, batches
consist of mutations, durations and bounds are naturals, a fetch times out before the
refetch limit and that before the lifetime, the catalogue's declarations have their
types and no alternative is empty, every path is listed, a graph has finitely many nodes
and declares each once), which TLC evaluates in every run of the
module. Every invariant and action property of the passing runs is a theorem; the one
property that is not is the liveness of `keyset`. Those of `FileStore` are theorems under
the environment that their run has, which each statement names (`Calm`, `Enduring`).

* `PreparedStore_proofs`: `ContractInvariant` (`Spec => []Inv`), with
  `Inv == TypeOK /\ OneSlot /\ FenceHolds /\ OutcomeReserved`. The conjunction is
  inductive as it stands: `OneSlot` gives commit its candidate and its single
  record, `FenceHolds` keeps a slot out of the retired generations. From it and
  the steps: `ContractOutcomesAreFinal`, `ContractFenceMonotone`,
  `ContractSlotFreezesReads`.
* `MemoryStore_proofs`: `IInv == TypeOK /\ FenceHolds` is inductive
  (`MemoryTypeCorrect`, `MemoryFenceHolds`). `TypeOK` carries what the refinement
  needs: the terminals hold no prepared record and the slot's id is not among
  them, so `LedgerView` loses nothing. `FenceHolds` is needed because `Commit` and
  `Abort` of the contract ask for an id above the fence.
  `MemoryImplementsPreparedStore` then shows every call to be a step of the
  contract or a stutter, and `MemoryOutcomeReserved` follows from the contract's
  own theorem through the refinement. `MemoryOutcomesAreFinal` and
  `MemorySlotFreezesReads` state the contract's action properties of the store's own
  variables, taken from the steps of the contract that its calls are.
  `MemoryOneDecision` needs what an owner heard to be held: `Agreeing` says that a
  decision that was answered is still in the terminals, or its generation is retired
  and no later call can answer anything else about it.
* `SecretTransaction_proofs`: lemmas on outcomes of batches, kinds of records, and
  retirement.

* `FileStore_proofs`: `FileTypeCorrect` for every machine and owner. The next six assume `Calm == Reconciles /\ ~PowerLosses`: kills and I/O errors
  come anywhere and in any number, the owner resolves an uncertain call before the next
  one, and no power is lost. Without `Reconciles` they are false (`file_unresolved`).
  None of them is inductive: that recovery accepts the two files depends on the call
  that wrote them. `FilesInv` says, for each step of a call, how far the files have got
  (`Staging`, `Staged`, `Writing`, `Written`, `Removing`) and what the guards of the
  call found (`PreparePlanned`, `CommitPlanned` and so on, one per call), and at every
  moment that the files are `Sound`; a crash keeps only that, and open starts from it.
  With it follow `FileAlwaysRecoverable`, `FileViewMatchesFiles`,
  `FileImplementsPreparedStore` (one case per step: the contract's action happens at
  the rename of the live file; a stage behind a free slot is no candidate), and, with
  `Answered` carried along, `FileAnswersKept` and `FileOneDecision`.
  `FileHolderCanDecide` needs one thing more, `Reserved`: the room that the checks of
  prepare left for the decision is still there, in the ledger and in the file, because
  nothing else that writes is admitted while the slot is taken. Commit adds the
  candidate's entries, which prepare has encoded; abort's line is shorter than the
  prepared one it replaces (`AbortedFits`).

* The next part of `FileStore_proofs` adds power losses and writeback, under `Enduring`:
  the owner reconciles, and no call ends between a change of the directory and the sync
  after it (no kill inside a call, no failing required sync or revalidation), as in the
  run `file_power`. This leaves out what the code can meet: that a kill and then a power
  loss take back an outcome that was answered is `file_unsynced`. What is on disk and what
  is durable are four files, which may be written back in any order. `DurableInv` says
  that the stages differ only at a sync of a stage (`StagesAgree`), the live files only
  by point writes while the slot is free (`LivesAgree`), or while a live file waits for
  its sync, and then the durable one is still the file the call began with
  (`LiveOlder`); and that the durable pair is recoverable too. A power loss makes the
  durable pair the disk, so the four theorems follow: `FilePowerRecoverable`,
  `FileAnswersDurable`, `FileDurableOutcomesAreFinal`, `FileDurableSlotFreezesReads`.

* The last part of `FileStore_proofs` is about `FileAcknowledged` and leaves nothing out
  of the machine or the owner: kills inside a call, failing syncs, power losses, writeback
  in any order, no reconciliation. `FileAcknowledgedIsDurable`: what a prepare, commit or
  abort answered for its own work stays in the durable live file until its generation is
  retired there. `FileAcknowledgedOnce`: no id is acknowledged as committed and as
  aborted. What `state`, `open` and replays repeat from the files is not in it. The
  invariant (`AckInv`) says that whatever is acknowledged is in the live file on disk, in
  the durable one, in the view and in the file a call is about to write, or its
  generation is retired there, and that a call that has passed its sync has its outcome
  in both live files. No run repeats these two theorems.

* `KeySetCache_proofs`: `KeySetTypeCorrect`, `KeySetRotationIsSurvived` and
  `KeySetWithdrawnKeyDies`, for any number of callbacks and keys and any durations in
  the assumed order. The properties compare a key's age with a limit when a
  verification ends; the document looked at was stored or fetched earlier. The
  invariant carries the bound there: a key missing from a fetched document is no older
  than the fetch, one missing from the cached document no older than the document's
  age and one fetch (`NothingMissed`).

* `Offline_proofs`: `BatchMatchesOutcome`, `BatchScopeConfined` and
  `BatchOrderIndependent`, for batches of any length. The builder keeps the operations
  `Apart`: no two of them name one address, so each works on entries the others have
  not changed. `ApplyDone` says, by induction over the number of operations applied,
  that what is done so far is the outcome of those operations (`DoneBy`); the induction
  is `SetInduction`, derived from the well-foundedness of the finite sets 0..n. A
  reordering has the same set of operations and is as much apart.

* The second part of `Offline_proofs` is the build: `BuildIsSequential` and
  `BuildOldOrNew`, for any providers, number of workers, schedule, faults and crashes.
  What the properties say of a finished run rests on how it got there. `Claimed` says
  that, while it compiles, the indices below the next one are exactly the results and
  the claims in progress, each once, and every result is what its provider compiles to
  (`ResultAt`); so the join, which is ordered by index, has the results of the first
  providers in order, and all of them unless one failed (`JoinedInOrder`). `PlanHolds`
  says that, while it applies, the plan is to write what a sequential run generates and
  that whatever is not in the plan is in the tree already. The recursive functions behind
  the selections and the sort are unfolded by `StepsHaveResults`: a step on a set has its
  sequence of results from any start.

* The third part is flow graphs: `FlowCrossingsAgree`, `FlowPathsLeadHome` and
  `FlowEdgesAreBound`, for graphs of any size and nesting. The state invariant is small
  (`FlowInv`: what is answered is computed from the graph that was drawn); the work is
  in what the operators mean on a graph that neither the loader nor the lowering refuses.
  `EnclosingFacts`: the regions around a node are a chain, each the region of the one
  before, that ends in the body of the op. From it the crossing rule: the regions a value
  leaves are around its source and not around its reader, in both copies.
  `InOrderSorted` and `InBlock`: a block has one statement for each of its members after
  everything it depends on, literals ahead of their gates, and the recorded position is
  that statement's; with `PathInwards` a path leads home. What is bound where is defined
  by recursion over blocks, inwards (`Entry`) and outwards (`After`); that these
  functions exist is `RecursionByRank`, with the depth of a block as the rank, and it
  needs the chains to be finite. `EdgesAreBound` is then two journeys: a value leaves its
  regions one by one, each of which declares its port, under the symbol that its last
  retry gives it (`Exported`, `Arrives`), up to the block that its source and its reader
  have in common; there the order puts the one before the other, and what is bound where
  an outer block begins stays bound inwards (`EntryGrows`, `BoundInside`, `NodeReads`). The
  theorem has the exception of the property, edges from a region to a node inside it.

* `SignIn_proofs`: all invariants of the run `signin`, for any number of browsers,
  sign-ins and callbacks. The invariant adds to them what carries a sign-in from
  browser to session: a binding names a sign-in started in its browser, a request
  that redeemed a state runs in the browser the state was given to, a session
  cookie names a session established in its browser (`Provenance`), and a redeemed
  state does not wait (`SpentIsGone`). Single redemption needs `Provenance` too:
  only because a redeemed state was once given out can it not be given out again.
  `SignInStaysRedeemable` is the action property `OnlyItsBrowserEndsIt`: it rests on a
  binding being that of a sign-in started in its own browser, so that another browser's
  request, which takes only the state its own binding names, cannot take this one.

* `Execution_proofs`: the invariants of the calls in the run `host`, for any tenants,
  calls, catalogue and number of writes. `IInv` is `ExecutionTypeOK` and, per call, `Owned` and
  `Watched`. `Owned` relates what a call has so far to its histories, stage by stage:
  `Staged` (which fields may be set in which phase), `Projected` (its settings come
  from `bound`), `Assembled` (what it has collected is a prefix of the alternative it
  is at, each from `held`, and every alternative before it lacked something),
  `Carried` (a request has exactly that, held by the redactor, and the gate's URL) and
  `Minted`. `Watched` says that the histories include what the store and the settings
  hold now. The properties themselves are not inductive: that a request carries one
  whole alternative rests on what was collected before there was a request. The
  histories only grow, so another call or an operator's write keeps `Owned`
  (`OwnedGrows`); what is left is one lemma per action.

Only model-checked:

* `EveryCallbackEnds` of `KeySetCache`: liveness under fairness, which the prover does
  not do.

## 7. Not modelled

* Credential stores: the line grammar of the store file beyond what each image holds
  (files are read back as written; damaged files are refused by the parser and its
  tests), owner and mode checks other than as a failing step, two processes at one store
  (the lease is a kernel lock), legacy 0.19.1 writers, the Windows layer, Vault.
* Sign-in: the developer sign-in, the checks of a token other than finding its key, the
  rendering of cookies.
* Running an operation: parameters and bodies, channels and intents, the dry run, the
  grammar of a URL position beyond a set of values it refuses, routing and rendering.
* Command line: scaffolding, pinning, rendering of documents, the contents of artifacts.
* Specification and emitter: everything but flow graphs. Definitions, their loader, the
  OpenAPI translation and the emission of single operations are sequential
  transformations of text and documents without state; what could be wrong in them is
  in the data a model abstracts, and their tests compare that data. They, the
  provider definitions and the generated tables are most of the repository's lines.
* Of a flow graph: names and spelling, types, metadata, templates' and paths' grammar,
  and Flux's own reading of the emitted text.
* Addresses and the catalog reader: parsing and digests, no state.
