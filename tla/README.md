# TLA+ models of the NeoFS sidechain deploy engine

This directory holds TLA+ models of the code under `src/`. The main subject is
the chain-state synchronisation engine in `src/pkg/morph/deploy`
(`util.go` and `nns.go`): the block-height monitor, the pending-transaction
tracker, the NNS registry readers, the deploy and update orchestrators of the
NNS contract, and manifest co-signing. The shard garbage collector
(`src/pkg/local_object_storage/shard/gc.go`) is modelled as well. The project
contains:

- TLC runs on small instances;
- an abstract specification of what the update orchestration promises
  (`UpdateAbstract`), which `NNSUpdate` is checked and proved to implement;
- TLAPS proofs, for every value of the constants, of these facts:
  - the type invariants of the deploy and update loops;
  - the deploy loop's no-duplicate-deployment invariant within one call,
    across restarts, and for a process never restarted;
  - the update loop's success condition, its no-duplicate-update invariant
    and its refinement of `UpdateAbstract`;
  - the tracker's safe-to-resubmit invariant;
  - that `setGroupInManifest` is an idempotent upsert keyed by the public
    key;
  - that a block-height monitor never runs ahead of the chain and its
    height never decreases;
  - that the NNS readers report what the registry holds at the time of the
    read;
  - the shard GC's type invariant, and that the pool drops a handler only
    behind a cancelled handler of an earlier event.

## 1. Inventory

### Components and how they interact

| Component | Code | State | Operations |
|---|---|---|---|
| HeightMonitor | `blockchainMonitor`, util.go:57-155 | atomic `height`, subscription `subID`, listener goroutine, single-slot `chNewBlock` | `newBlockchainMonitor`, listener step per block, `currentHeight`, `waitForNextBlock`, `stop` |
| PendingTxTracker | `transactionGroupMonitor`, util.go:172-209 | atomic `pending`, one goroutine per track | `reset`, `isPending`, `trackPendingTransactionsAsync` and its goroutine (`WaitAny`, `reset`, `cancel`) |
| RegistryReader | `readNNSOnChainState` util.go:157-170; `lookupNNSDomainRecord` nns.go:199-229; `readContractOnChainStateByDomainName` util.go:211-241 | none (reads the chain) | read contract with ID=1; resolve a domain's first TXT record, decode it in either of two encodings, read the contract |
| DeployOrchestrator | `initNNSContract`, nns.go:84-197 | loop locals `sentTxValidUntilBlock`, `committeeGroupKey`, `managementContract` | one loop iteration per block: read ID=1; fail, return, wait, or send a deployment |
| UpdateOrchestrator | `updateNNSContract`, nns.go:257-400 | `jLocalManifest`, `prm.localManifest`, `updateTxValidUntilBlock` | setup; per block: read the checksum, read the version, dry-run probe (`MakeCall`), `Notarize`, deposit-deficiency callback |
| ManifestCoSigner | `setGroupInManifest`, util.go:32-55 | the manifest's `Groups` | upsert of the group signed by a key |
| Shard GC | `gc.go` | handler contexts, worker pool, remover timer | `init`, `listenEvents`, `tickRemover`, `removeGarbage` |
| Notificator, neofs-adm `root.go`, neofs-lens `inspect.go` | cmd/ | none of their own | I/O and CLI flags (not modelled) |

How they interact:

- The orchestrators iterate once per block of their monitor (`for ; ; prm.monitor.waitForNextBlock(ctx)`).
- They read the chain through the RegistryReader.
- They decide whether a transaction sent earlier may still land by comparing
  its ValidUntilBlock (VUB) with `monitor.currentHeight()`.
- Both orchestrators co-sign the manifest with `setGroupInManifest`.
- Several nodes (committee members) run the same orchestrators against one
  chain at the same time.

### Hard behaviours

The behaviours that make this code hard, each listed with its line in
`PROJECT.json` "hazards":

- **Interleavings:**
  - the listener goroutine and the waiters;
  - several nodes deploying or updating at once;
  - the handlers of two GC events.
- **Timing:**
  - blocks arriving between two RPCs of one iteration;
  - transactions expiring by VUB.
- **Failures:**
  - lost responses;
  - process restarts;
  - a Notary deposit that runs out;
  - failing metabase calls.
- **Numeric edge:** the first stored height is a block *count*, and every
  later one is a block *index*.

## 2. Plan and modules

Modules, in the order they build on each other:

1. `BlockchainMonitor`: the chain height and one monitor per node. Its
   actions are `MonitorStarted`/`MonitorInit` (newBlockchainMonitor),
   `ReceiveBlock`/`ListenerExit` (listener), `Stop`, `BeginWait`/`WaitTick`/
   `WaitCancelled` (waitForNextBlock).
2. `NNSDeploy`: initNNSContract, one loop per node. It composes the monitor
   with `Mon == INSTANCE BlockchainMonitor` (the monitor's variables are
   redeclared and substituted by name). The chain is the environment:
   - `NewBlock` includes at most one pool transaction and drops the expired
     ones;
   - a deployment's contract hash is determined by its sender.

   Actions:
   - `ReadState` runs from the top of an iteration to the decision to send.
     This covers: ctx check, `readNNSOnChainState`, name check, authority,
     key init, and the VUB relevance check.
   - `SendDeploy` is the actor, the co-signing, `Deploy` and its error
     handling; it ends in a wait.
   - `Restart` re-invokes the function with fresh locals.

   A transaction records the call that sent it (`call`, the sender's restart
   count then). The code never reads it; it lets `NoDuplicateInCall` say
   what one call of the function guarantees.
3. `NNSDeploy` proofs (`NNSDeployProofs`).
4. `NNSUpdate`: updateNNSContract, composed the same way. The chain executes
   an update only if it raises the version; this is the contract's "already
   updated" check. Actions:
   - `Prepare`: setup, including the JSON encoding of the manifest;
   - `ReadState`: checksum (nns.go:291-318);
   - `ReadVersion`: the version read, its comparison with the local one, the
     extra arguments and `setGroupInManifest` (nns.go:320-341);
   - `SendUpdate`: the dry run of 'update' (`MakeCall`) on the chain as it is
     then, success on "already updated", the relevance check, `Notarize` and
     `onNotaryDepositDeficiency` (nns.go:343-398). Blocks, and other nodes'
     updates, may land between `ReadVersion` and `SendUpdate`, which is what
     makes the "already updated" branch reachable;
   - `DepositRunsOut`: the environment.

   The constant `LostNotaryResponse` lets a `Notarize` that fails with an
   RPC error still have put its request in the pool (a timeout or a lost
   answer). It is `FALSE` in every run but `update_lost_response`.
5. `UpdateAbstract`: what updateNNSContract promises, without blocks,
   transactions, probes or deposits. The state is the chain's NNS contract
   (`chain`: a NEF or `NoContract`) and each node's outcome (`status`). Its
   actions:
   - `Upgrade(n)`: the contract becomes `LocalNef[n]`, of strictly greater
     version;
   - `Succeed(n)`: success, when the chain's version is at least the local one;
   - `Inconsistent(n)`: the "same version" error, when the versions are equal;
   - `Ended(n, "failed")` and `Ended(n, "cancelled")`.

   `NNSUpdate` defines `Abs == INSTANCE UpdateAbstract WITH chain <- nnsNef,
   status <- UpdStatus`. `UpdStatus` maps the positions `"prepare"`, `"iter"`,
   `"version"` and `"send"` of the loop to `"running"`, and a terminal `upc` to itself.
   The property `UpdateRefinesAbstract == Abs!Spec` is checked by the `update`
   run. Every step of `NNSUpdate` is an abstract step or a stutter:
   - a block that executes an update is `Upgrade`;
   - a loop step that returns is `Succeed`, `Inconsistent` or `Ended`;
   - every other step is a stutter.
6. `TxGroupMonitor`: the tracker. Its caller is not in the sources, so it is
   modelled from spec 4.2: it submits only when `isPending()` is false.
7. `ManifestGroup`: `setGroupInManifest` as an operator, checked against a
   reference upsert.
8. `Registry`: the readers, against a registry that changes between reads.
9. `ShardGC`: the event listener with its pool and the remover. The pool's
   capacity is `PoolCapacity`, the handler count computed by `gc.init`.
10. The proof modules `NNSDeployProofs`, `NNSUpdateProofs`,
    `TxGroupMonitorProofs`, `ManifestGroupProofs`, `ShardGCProofs`,
    `BlockchainMonitorProofs` and `RegistryProofs` (section 5).

Each `MC*.tla` module fixes the model values and the bounds for TLC. Each
`.cfg` file chooses the constants of one run.

Planned next:

- liveness of the orchestrators: each eventually returns once the chain has
  the contract and blocks keep coming;
- an abstract spec for `NNSDeploy`, like `UpdateAbstract`.

## 3. Correspondence with the code

In both orchestrators:

- `dpc`/`upc` is the position in the function: `"iter"` is the top of the
  loop, `"send"` is after the relevance check, and the terminal values are
  the function's returns.
- Every `continue` is `EndIteration(n)`, which enters
  `waitForNextBlock` (`Mon!BeginWait`).
- An RPC that may fail is a disjunct ending in `EndIteration`.
- The model keeps the order of the checks in the code:
  - a `continue` comes before a later read;
  - fatal returns set a terminal `dpc`/`upc` value.

Data is abstracted:

- a contract is its sender (deploy) or its NEF (update);
- `Version` maps NEFs to versions;
- a transaction is `[from, vub, seq]` (update: also `nef`, and `group`, which
  says whether the manifest sent carries the committee group);
- errors are the classes the code distinguishes (`isErrNotEnoughGAS`,
  `isErrNotaryDepositExpires`, `isErrContractAlreadyUpdated`, others).

`PROJECT.json` "map" gives the lines of every definition.

## 4. Runs

| Run | Checks | Shows |
|---|---|---|
| `monitor` | `MonitorNotAhead`, `HeightMonotonic` | No monitor reports a height beyond the block after the chain's latest. The height never decreases, across the count→index switch (2 nodes, 4 blocks). |
| `deploy` | `TypeOK`, `NoDuplicateInCall` | One deployer and one replica, each restarted at most once (4 blocks): one call of initNNSContract never has two pending deployments. Across a restart it may, which `deploy_restart_duplicate` shows. |
| `deploy_restart_duplicate` | `NoDuplicateDeploy` (violation) | A restart forgets the VUB and resends. |
| `deploy_lost_response` | `NoDuplicateDeploy` (violation) | A failed Deploy that reached the pool resets the VUB and resends. |
| `update` | `TypeOK`, `UpdateSuccessSound`, `NoDuplicateUpdate`, `UpdateRefinesAbstract` | Two committee nodes with different local NEFs race, and every Notarize answer arrives. Success is reported only when the chain has the local version or newer, whether decided on the version read or on the dry run's "already updated" (the mutant that takes every dry-run error for "already updated" breaks it). There are never two pending updates of one node. Every behaviour implements `UpdateAbstract`. For example, the "same version" error is returned only when the chain's version equals the local one, which the mutant comparing checksums breaks. |
| `update_version_race` | `InconsistencyIsReal` (violation) | The node's own earlier update, landing between its checksum read and its version read, gives a spurious fatal "same version" error although the chain now runs the local contract. |
| `update_manifest_group` | `UpdateKeepsGroup` (violation) | The update sends the manifest JSON encoded before the group was set. |
| `update_lost_response` | `NoDuplicateUpdate` (violation) | A Notarize that fails after its request reached the pool leaves `updateTxValidUntilBlock` unset, and the node notarizes a second update while the first is still valid. |
| `tracker` | `SafeToResubmit` | A false `isPending()` under a live context means no submitted group can still land. |
| `manifest_group` | `UpsertMatchesReference` | `setGroupInManifest` is an idempotent upsert keyed by public key. |
| `registry` | `ReadMatchesRegistry` | Each read returns the error or contract that spec 4.3 gives for the registry at that moment. |
| `shard_gc` | `TypeOK`, `GarbageRemoved`, `DropOnlyBehindCancelled` | GC-marked objects are eventually deleted. A handler job is refused by the pool only while the pool still holds jobs of an earlier, already cancelled event. So a pool sized to the handler count never drops a job of the first event, or of an event whose predecessor has finished. |

The deploy runs give deployment authority to one node. With two such nodes,
both find ID=1 free and both deploy. The contract hash depends on the sender,
so the second deployment creates another NameService under another ID (the
model's `strays`). Neither the code nor the specification makes the authority
unique.

Every property of a passing run also has a mutant in `PROJECT.json`. A mutant
is a plausible bug in the mapped code, and TLC finds the property violated
under the same configuration.

### Bounds and why they are enough

- **Chain length.** Chains have 3 to 5 blocks (`MaxHeight`: 4 for the
  monitor and the `deploy` run, 5 for the deploy violation runs, 3 for
  update), and the VUB increment is 2. So a
  sent transaction can be accepted, expire, or be superseded, and a second
  one can be sent after the first expired (in the update run, at block 3).
  Every violation above needs at most one resend.
- **Nodes.** Two nodes are enough for every race modelled: between two
  deployers, between two updaters with different local versions, and
  between a node and the block stream.
- **Restarts.** `MaxRestarts = 1` restart per node, in the `deploy` and
  `deploy_restart_duplicate` runs, which is enough for a restart that
  forgets a pending transaction.
- **Tracker.** Three tracks, so a group can be tracked again after an
  earlier one landed, expired or was cancelled.
- **GC.** Three events for two handlers, so the handlers of two events
  overlap in the pool.
- **Manifests.** Up to three groups over three keys, so every position of
  an existing key is covered.

### Fairness

Only the GC run checks a liveness property. The remover's timer (`time.Timer` reset in a loop) is weakly fair for
  collecting and for deleting. Failures are bounded by `MaxFailures`, which
  stands for "the metabase eventually answers".

The monitor, tracker and orchestrator runs check safety only.

`CHECK_DEADLOCK FALSE` appears where the system really stops:

- the chain stops at its bound;
- the orchestrators return;
- the tracker's caller has used its tracks.

## 5. Proofs

`NNSDeployProofs` extends `NNSDeploy` and TLAPS. It proves the following:

- **`TypeCorrect`**: `Spec => []TypeOK`, with the step as lemma
  `TypeOKStep`. There is one step per action of `Next`, and each variable an
  action changes gets a step of its own.
- **`NoDuplicateInCallHolds`**: under `~AmbiguousSend`,
  `Spec => []NoDuplicateInCall`, with any number of restarts. The run
  `deploy_lost_response` shows that the hypothesis is needed. The inductive
  invariant `IInv` strengthens `NoDuplicateInCall` with:
  - `TypeOK`;
  - `Mon!MonitorNotAhead`: a monitor's received index is at most the chain's,
    and its height at most one more;
  - `PoolValid`: a transaction in the pool is still valid;
  - `PoolFromPastCalls`: it was sent by its sender's current call or by an
    earlier one;
  - `PoolMatchesVub`: if sent by the current call, its VUB is the one the
    call remembers;
  - `SendingHasNoTx`: a call about to send has no transaction in the pool.

  The key step is lemma `NoTxWhenExpired`. If the check `cur <= vub` fails,
  the transaction with that VUB has `vub < height <= delivered + 1 <=
  chainHeight + 1`, so it is no longer valid. This holds although the first
  height is a block count. A restart (lemma `RestartKeepsIInv`) starts a new
  call: the transactions of the old one no longer belong to the current
  call, and the new monitor starts at the chain's height. `IInv` was
  model-checked with TLC, with two deployers restarted once on a 3-block
  chain, before it was proved.
- **`NoDuplicateDeployHolds`**: under `MaxRestarts = 0` and
  `~AmbiguousSend`, `Spec => []NoDuplicateDeploy`. Without restarts every
  transaction belongs to call 0, so `NoDuplicateInCall` is
  `NoDuplicateDeploy`. The run `deploy_restart_duplicate` shows that a
  restart breaks it.

The assumptions are `DeployAssumption`: `MaxHeight`, `VubIncrement > 0`,
`Deployers \subseteq Nodes`, and distinct sentinels.

`NNSUpdateProofs` extends `NNSUpdate` and TLAPS. It proves the following,
under `UpdateAssumption` (a positive chain bound and VUB increment, versions
in `Nat`, a local NEF per node, and a `NoContract` sentinel outside `Nefs`):

- **`TypeCorrect`**: `Spec => []TypeOK`.
- **`UpdateSuccessSoundHolds`**: `Spec => []UpdateSuccessSound`. The
  invariant is not inductive on its own: a block that executes an update
  could in principle lower the version, or install a contract where there
  was none. The inductive invariant `UInv` adds:
  - `VersionHasContract`: a loop about to read the version, or to send, has
    found a contract;
  - `PoolFromLocal`: a pending update carries its sender's local NEF;
  - `PoolNeedsContract`: nothing is pending while the chain has no contract.

  With these, lemma `ChainStep` shows that a block either leaves the
  contract alone or replaces it by a pool transaction's NEF of strictly
  greater version. A success, once returned, therefore stays sound. A
  success is returned on the version read (`LocalIsBehind`) or on the dry
  run's "already updated", which the model gives exactly when the chain's
  version, at the time of the dry run, is at least the local one (lemma
  `SendUpdateCases`). The theorem holds with or without lost Notarize
  answers.

  Each loop action is summarised once by `LoopOutcome(n)`: which variables
  it changes, and under which condition it returns success or the
  inconsistency error. Lemmas `PrepareOutcome`, `ReadStateOutcome`,
  `ReadVersionOutcome` and `SendUpdateOutcome` establish `LoopOutcome(n)`
  for the four loop actions. Both the invariant step (`LoopKeepsUInv`) and the refinement step
  (`LoopRefines`) are proved from it.
- **`UpdateRefinement`**: `Spec => UpdateRefinesAbstract`. The proof has
  three parts:
  - the initial states map to `Abs!Init`;
  - under `UInv`, every step maps to an abstract step or a stutter (lemma
    `StepRefines`, built from `LoopRefines` and `BlockRefines`);
  - the temporal conclusion follows by PTL.

- **`NoDuplicateUpdateHolds`**: under `~LostNotaryResponse`,
  `Spec => []NoDuplicateUpdate`. The run `update_lost_response` shows that
  the hypothesis is needed. The inductive invariant `DupInv` is the
  deploy loop's argument carried over: `TypeOK`, `Mon!MonitorNotAhead`,
  `PoolValid` and `PoolMatchesVub`. Lemma `SendOutcome` says what
  `SendUpdate` does to the pool: nothing, or, when the remembered VUB
  has passed (`~PrevUpdateMayLand`), it adds the transaction `SentTx(n)`.
  Lemma `NoUpdateWhenExpired` shows that then no earlier update of that
  node is in the pool. `DupInv` was model-checked on the `update` run
  before it was proved.

`TxGroupMonitorProofs` extends `TxGroupMonitor` and TLAPS:

- **`SafeToResubmitHolds`**: `Spec => []SafeToResubmit`, for any chain
  length, VUB increment and number of tracks. The inductive invariant `IInv`
  adds four facts to `TypeOK`:
  - `PoolSingle`: at most one group is in the pool;
  - `PoolLive`: that group is the latest track, still valid, not accepted,
    and its goroutine is inside `WaitAny` unless the context is done;
  - `TracksActive`: a goroutine that has not yet reached `reset()` belongs to
    the latest track, and the flag is set meanwhile;
  - `LandedSubmitted`: only submitted tracks were accepted.

  The heart of the argument is the `WaitAnyReturns` step. A goroutine whose
  group is still in the pool cannot return from `WaitAny` while the context
  is live: the group has not been accepted and its VUB has not been passed.
  So when `reset()` clears the flag, the pool is empty, or the context is
  done.

`ManifestGroupProofs` extends `ManifestGroup` and TLAPS:

- **`UpsertMatchesReferenceHolds`**: `Spec => []UpsertMatchesReference`,
  for every set of keys and deployers and every `MaxGroups`. The inductive
  invariant `MInv` is `TypeOK` plus `KeysDistinct(groups)`: no two groups
  share a public key. `UpsertMatchesReference` alone is not inductive: on a
  list with a repeated key, the loop updates only the first group of that
  key.

  The argument is built from lemmas about the operators:
  - `IndexOfFound` and `IndexOfMissing`: on distinct keys, the index that
    `SelectInSeq` returns is the key's only group, or 0;
  - `SetGroupByIndex`, `UpsertExisting` and `UpsertNew`: the call replaces
    that group's signature in place or appends a group;
  - `SetSigType` and `SetSigSame`: rewriting one signature keeps a list of
    groups, and writing a group's own signature back changes nothing;
  - `UpsertShapeHolds`: the resulting list has distinct keys, the same keys
    in place, the new key set, the new signature only at `k`, and a second
    call leaves it unchanged;
  - `DistinctLen`: a list with distinct keys has as many groups as keys;
  - `SigOfAt`: the reference map gives each key the signature of its group.

  The reference is written `UpsertKey(SigOf(groups), k, ...)`, an explicit
  function equal to `(k :> ...) @@ SigOf(groups)`. The provers cannot expand
  TLC's `:>` and `@@`.

`ShardGCProofs` extends `ShardGC` and TLAPS, under `GCAssumption`:

- **`TypeCorrect`**: `Spec => []TypeOK`, from the inductive invariant
  `GCInv`, which adds the following to `TypeOK`:
  - `OnlyLatestLive`: every job whose context is not cancelled belongs to
    the latest event;
  - `GenIsSent`: the context generation is the number of events received;
  - `JobsNotAhead`: no job in the pool belongs to a later generation;
  - `CurJobsSubmitted`: while `listenEvents` is submitting, the latest
    event's jobs in the pool are the handlers before the one it is about to
    submit.

  Without `JobsNotAhead`, a `ReceiveEvent` could leave a job with the new
  generation live. `GCInv` was model-checked with three handlers and four
  events before it was proved.
- **`DropOnlyBehindCancelledHolds`**: `Spec => DropOnlyBehindCancelled`, an
  action property. The pool's capacity is the handler count. By
  `CurJobsSubmitted`, the latest event's jobs are among handlers
  `1..next-1`. Lemma `HandlersBound` counts them with a surjection from
  `1..next-1`, so there are at most `next - 1 < NHandlers` of them. A full
  pool therefore holds a job of an earlier event, and by `OnlyLatestLive`
  that event is cancelled (lemma `FullPoolHoldsOlderJob`).

`BlockchainMonitorProofs` extends `BlockchainMonitor` and TLAPS, under
`MaxHeightAssumption`:

- **`MonitorNotAheadHolds`**: `Spec => []MonitorNotAhead`. `TypeOK` and
  `MonitorNotAhead` together are inductive (`MInv`). The listener receives
  only blocks the chain has produced. It stores the index `delivered + 1`,
  which is the new `delivered`. The first stored value is a block count,
  which exceeds the received index by at most one.
- **`HeightMonotonicHolds`**: `Spec => HeightMonotonic`, an action property.
  Only `ReceiveBlock` writes the height, and under `MonitorNotAhead` the
  value it writes, `delivered + 1`, is at least the height it replaces
  (lemma `HeightStep`). Without the invariant the count-then-index
  convention could lower the height, as the mutant that subscribes first
  shows.

`RegistryProofs` extends `Registry` and TLAPS:

- **`ReadMatchesRegistryHolds`**: `Spec => ReadMatchesRegistry`, an action
  property that needs no invariant. Lemma `DomainReadResult` follows each
  outcome of the `resolve` call through the decoding chain. A "token not
  found" happens only for an unregistered name, and a Null result only for
  a name without records. Every other step leaves `lastRead` alone or
  records an NNS read (lemma `OtherStepsRead`).

The following stay with TLC:

- the liveness property `GarbageRemoved`. It depends on the fairness of the
  remover's timer. TLAPS's provers here do not reason about `WF` and
  `ENABLED`.
- the violation runs. They show a disagreement on a small instance, and a
  counterexample is the whole evidence;
- what a recursive definition computes for every input. No module in this
  project needs one. `SelectInSeq` is defined without recursion, so
  `ManifestGroupProofs` can reason about it directly.

Every safety invariant and action property of a passing run is proved.

## 6. Not modelled

- `notificator.go`: the specification puts notification delivery out of
  scope. The code is sequential I/O over the storage engine and NATS setup; it
  logs each failure and continues, and has no shared state to explore.
- `root.go` and `inspect.go` (CLI declarations and printing).
- The RPC client, the Notary service's collection of committee signatures
  (a notarized transaction is modelled by its main transaction), the NNS
  contract's own code, the metabase and the worker pool implementation.
  These are not in the sources; they are the environment of the models.
