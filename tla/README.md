# Verification of ecphory

TLA+ models of the ecphory fabric, checked with TLC and, for most of their safety
properties, proved with TLAPS for every value of the constants. The source paths below are relative to the repository root.

## 1. The system

Ecphory keeps a graph of *intent nodes*. The library (`src/`) wraps the graph in
a thread-safe `BridgeFabric`; a kernel (`kernel-core/` and the architecture
crates) runs a smaller fabric on bare hardware. There are no async runtimes:
concurrency is OS threads sharing locks, atomics, and one mpsc channel.

### 1.1 Inventory

| Part | State | Operations | Talks to | Hard behaviour | What makes it correct |
|---|---|---|---|---|---|
| Inner fabric (`src/fabric`, `src/node`) | nodes, signature index, edges and their reverse, contexts, Lamport clock | create, add_edge, remove_edges, mutate, fade, infer | called under the bridge's `FabricState` lock | derived copies out of step; signatures that collide | the copies of the graph agree; the index names owners |
| Persistence (`src/persist`), command line (`src/bin/intent.rs`) | one JSON file | save, load; init, add, search, aggregate | processes share the file | truncate then write, no lock, "starting fresh" | what was saved is loaded; what was kept stays |
| Semantic edits (`src/bridge/semantic.rs`, `bridge_fabric.rs`) | a mutex-guarded table: checkouts and proposals per target, `snapshot_in_progress`, `last_snapshot` | checkout, propose, finalize_proposal, TTL sweep | creates nodes in the fabric between its own critical sections, dispatches snapshots | each call is several critical sections of two locks; TTLs; a lock flag held across them | one outcome per checkout; one snapshot per round; no decision lost |
| Mechanical edits (`mechanical.rs`) | set of locked nodes | try_acquire, mutate, release | fabric lock, dispatch | fail-fast lock, panicking closures | lock released; node not lost |
| Subscriptions (`subscription.rs`) | registry, per-entry atomics, one channel, worker threads | subscribe, unsubscribe, dispatch, run, retry, shutdown | every write dispatches; panics write nodes | lock-free counters, shutdown races, panic feedback, shared ownership | exact depth, one task per match, nothing abandoned |
| P53 (`p53.rs`, `bridge_fabric.rs`) | terminated regions, nodes, fabric flag; archive files | trigger by node, region, fabric | drains subscriptions, reads the fabric, writes files | four critical sections and a poll loop; check-then-act | terminated scope takes no writes; archive complete |
| Decay (`decay.rs`) | last report | decay_tick | reads, then writes the fabric | candidates go stale between two passes | fades only what is still below threshold |
| Immune system (`src/immune`) | agents under a mutex each; per-region window, convergence and escalation records | observe, commit signal, evaluate, escalate | dispatched to on every write; writes signals; triggers P53 | nested dispatch; windows; counters; degenerate baselines | convergence needs distinct specializations; escalation needs damage |
| Replication (`src/distributed`) | per replica: fabric, vector clock, gossip state, conflict log | local change, package, receive, digest compare, resolve | messages between replicas | reordering, duplication, relays, concurrent updates | equal clocks mean equal copies; no update lost silently |
| Comms (`src/comms`) | nodes and edges on two bridges; the caller's set of replayed ids; the projection's queue | submit or fall back, replay, decide, hand off, audit, project | bridge calls, not one transaction | check-then-act on checkouts; replay after a failure; ids that come back | no message lost or repeated unseen; a collision is marked, unless the decisions overlap |
| Work (`src/work`) | intents, claims, evidence and their edges | post, claim, submit evidence, replay, split, merge, query | bridge calls | writes in two halves; twins of one fingerprint | evidence is linked or its caller is told; merges are mutual |
| Kernel snapshot (`kernel-core/src/snapshot.rs`, `kernel-uefi-common`) | blocks on the picked device, its cache | pick, persist, restore, agent probe | the storage agent uses the same blocks | crash, cache, device errors, another disk | an acknowledged snapshot is restored |
| Kernel fabric, model and loop (`kernel-core`) | nodes by content, generative model, log, screen | genesis, submit, learn, persist gate, render | one thread; the device through the shim | a model saved before its outcome is known, then reset | what was learned is kept; what is logged is shown |
| Quarantine, identity, cognitive map, bootstrap, debug, tracer | fields of a node; keys; metrics | see section 6 | | no caller, or one reader | |

`PROJECT.json` lists the same parts with the files of each, and the hazards at
their lines.

### 1.2 How the parts interact

* A write through the bridge takes the `FabricState` lock, changes the inner
  fabric, drops the lock, then dispatches the new node to subscribers (channel)
  and to cell agents (synchronously). Nothing holds the lock across a dispatch.
* A semantic edit alternates between the `FabricState` lock and the mutex of the
  semantic table. The table says who may go on; the graph holds the nodes.
* A panic in a callback is caught by the worker, which then *writes a node* and
  dispatches it: the dispatch pool feeds itself.
* The immune system observes writes and writes signals; an escalation calls P53.
* P53 enqueues a dying event to subscribers, polls their queue depths, archives
  and marks the scope terminated.
* The comms and work helpers call the bridge's methods one after another: between
  any two, other agents and P53 act on the same graph. A degraded message or piece
  of evidence is a flagged node on the operational bridge until a replay.
* The `intent` command and any host program load the same file, and save it whole.
* The kernel encodes its model into a node of its fabric and the fabric into blocks;
  at boot it decodes both. The storage agent of the model writes the same device.

## 2. Modules, and how they correspond to the code

| Module | Models | Composed with / refines |
|---|---|---|
| `SemanticEdit` | checkout, propose, finalize, TTL sweep, SnapshotLock | implements `ConsensusRound` |
| `ConsensusRound` | what semantic edits promise: rounds decided and published in one step | |
| `SubscriptionDispatch` | registry, dispatch, workers, panics, shutdown, pool lifetime | |
| `Mortality` | create, mechanical edit, the three P53 scopes, decay tick, on one graph | |
| `CellAgents` | the eight specializations: what an agent makes of one event | |
| `ImmuneResponse` | dispatch to cell-agents, aggregation, response modes, automatic P53 | the agents of `CellAgents` |
| `Replication` | vector clocks, gossip, transfers, conflicts over per-replica queues | |
| `NodeContent` | content of a node, the bytes that are signed, its saved entry | |
| `Queries` | metadata, predicates, aggregates of the command | |
| `InnerFabric` | the graph as a value and what each method makes of it; save and load | `NodeContent`, `Queries` |
| `FabricStore` | a host and runs of the command on one file | `InnerFabric` |
| `AgentCalls` | two bridges seen through their methods, agents in calls, terminations | |
| `CommsFabric`, `WorkFabric` | the helpers of `src/comms` and `src/work` | `AgentCalls` |
| `Coordination` | both, on the same bridges | `CommsFabric`, `WorkFabric` |
| `GenerativeModel`, `ModelCodec` | what the kernel's model counts, and the blob it is saved as | |
| `KernelLoop` | boot, nucleation, the sections of the loop, the persist gate, the screen | `ModelCodec` |
| `KernelFabric` | nodes and edges of the kernel, genesis from what the machine shows, snapshot codec | |
| `KernelSnapshot` | choice of the disk, persist, restore, storage agent, device | `KernelFabric` |
| `SubscriptionDispatch_proofs`, `Replication_proofs`, `ImmuneResponse_proofs`, `FabricStore_proofs`, `Coordination_proofs`, `KernelLoop_proofs`, `KernelSnapshot_proofs` | the theorems about the module each extends (section 4) | |
| `Bridge_proofs` | the theorems about the edits and the terminations of one bridge | `SemanticEdit`, `Mortality` |
| `MC*` | small instances for TLC: model values, symmetry, menus, machines and disks | |

The convention is the same everywhere. **A step is a critical section**: what the
code does under one lock, or one atomic operation, is one action, and the local
variables a call carries to its next critical section are variables of the model
(`pc` and the locals of a thread). A call that returns an error before it changed
anything is not a step. Lineage ids, nodes and texts are model values; time is
either an open choice ("this TTL has run out", "this node is below the
threshold") or, where windows are compared, a small counter. Operators under a
comment `mutant` are never used by the specification: each is a plausible wrong
version of the definition that follows it, and `PROJECT.json` says which property
it breaks.

**SemanticEdit.** The table (`coStatus`, `prStatus`, `locked`, `lastSnapshot`) is
`SemanticStateTable` behind its mutex; `coTarget`, `prCheckout`, `snapshots` are
the nodes in the graph behind the `FabricState` lock. `checkout` is
`SweepExpired`, `CreateCheckoutNode`, `TryRegisterCheckout`; `propose` is
`CreateProposalNode`, `RegisterProposal`; `finalize_proposal` is `RecordFinalize`
and, for the last outstanding checkout, `WriteSnapshot`, `ReleaseSnapshotLock`,
`DispatchSnapshot`, or `SnapshotRefused` in a High-sensitivity region. `high` is
chosen once: the sensitivity of the default namespace is fixed when the bridge is
built. `TtlElapses` may happen to any checkout at any time.

**ConsensusRound** has four steps: open a checkout, let some lapse, hand in a
proposal, and the last hand-in that closes the round and publishes the snapshot at
once. `SemanticEdit` implements it with `published` = the snapshots written plus
the one that a thread is on its way to write.

**SubscriptionDispatch.** `TakeSnapshot`, `LoadDepth`, `MarkLagged`, `SendTask` are
the dispatch loop; `Receive`, `RunCallback`, `ReportPanic`, `Settle`,
`CheckDrained`, `ClearLagged`, `Retry` a worker's loop, one atomic operation per
step. `Shutdown` closes the channel and `ShutdownReturns` once the workers are gone.
`DropBridge` drops the pool with the bridge unless an entry holds it (`HeldBy`: the
reporters' `Arc`s make a cycle); then the task that holds the last one drops it at its
end (`LastReference`, `EndTask`), on its worker, which joins itself and panics
(`DropFails`) or stays. A callback may call shutdown too, with the same two outcomes
(`StopFails`).

**Mortality.** One graph, one mechanical lock table, the P53 sets. `create` loads
`fabric_terminated` (`BeginCreate`) before it takes the lock (`CommitCreate`); the
node comes with its own id, new, in the fabric, faded or terminated (`Insert`);
`edit_mechanical` is `BeginEdit`, `TryAcquire`, `Mutate` / `NodeNotFound` /
`MutationPanics`, `Release`; `p53_trigger` is `TerminateNode` for a node and
`BeginTrigger`, `Announce`, `Collect`, `WriteArchive` or `ArchiveFails`, then
`TerminateRegion` or `TerminateFabric`, `RecordFabric`; `decay_tick` is `Scan`,
`Fade`. `CreateInternal` is a node the bridge writes for itself, which tests
neither flag.

**CellAgents, ImmuneResponse.** `Observations` is `observe()` of the eight
specializations over an exact baseline: `n`, the sum and the sum of squares stand
for Welford's mean and m2, so "sigma deviations away" is a comparison of integers,
and rates are multiples of 1/`Scale`. Before `RegisterCellAgent` an agent is its
owner's, who may show it any event (`OwnerShows`); behind the bridge it is shown
created nodes only, as the bridge does. `Create` starts the dispatch of a node to
the agents registered by then; each is asked in turn (`ObserveNode`), a deviation is
committed and evaluated in one step (`CommitSignal`, which holds the `FabricState` lock and the region's mutex), and an
escalation is acted on after the lock is dropped (`Escalate`). The nodes written are
kept (`signals`, `anomalies`), so the properties are stated of the graph an operator
reads and not of the layer's own bookkeeping. A behaviour follows one *menu*: which
agents, which events, how many writes.

**Replication.** A copy is a version, the write that gave it its text, and whether
it violates a hard constraint. `Accept`, `AlreadyHave` and `Conflict` are the
branches of `receive_node`; `Request` and `PackageNode` are a digest comparison and
its answer, with any delay between them.

**NodeContent, Queries, InnerFabric, FabricStore.** A fabric is a record of its
maps, and each `&mut self` method an operator on it (`Create`, `Mutate`, `AddEdge`,
`RemoveEdgesBetween`, `Fade`, ...): the caller's step is atomic because the borrow
is. `Save`, `FromNode` and `Restored`, `IntoNode` are the two directions of
`serial.rs`; the orders in which a `HashMap` may be walked are the choices of
`Orders` and of the permutations in `CmdSearch`. In `FabricStore` a save is
`Truncate` then `WriteFile`; `CmdInit`, `CmdAdd`, `CmdSearch` are the command up to
its save, in one step with their load, since nothing of it is visible before. What
`--where` and `aggregate` answer are operators of `Queries`.

**AgentCalls, CommsFabric, WorkFabric, Coordination.** Each bridge method a helper
calls is one step; `call[a]` holds its locals. Messages: `SubmitMessage`,
`WriteMessage`, `ReplayMessages` and its writes one by one. Decisions: proposal,
identity, edges, count of checkouts, marker, checkout. Work: intents, claims from a
hand-off, evidence written then linked, replay, the two edges of a merge, the query
in its several sections. `TerminateNode` and `TerminateRegion` come at any moment.
`returned` keeps what callers were told.

**GenerativeModel, ModelCodec, KernelLoop.** One action per numbered section of
`inference.rs`'s loop, with `PowerFails` between any two. The model is reduced to
what it counts, the lines of an answer and the renders among it; `ModelCodec` writes and reads the blob field by field, older
versions too. The outcome of a persist is a choice: ok, failed (leaving the old
snapshot or none), or cut by a crash (the old, the new or none), which is what
`KernelSnapshot` shows.

**KernelFabric, KernelSnapshot.** `Genesis` is the fabric of a first boot on the
constant `Machine`; `Exchange`, `Event`, `Learned` are what the loop adds;
`EncodeSnapshot` and `DecodeSnapshot` are the codec with every length it checks.
`PowerOn` picks a disk among those the firmware lists; `persist` goes block by block
over a cache that writes back in any order, with `Crash` between any two steps;
`Restore` or `FreshGenesis` at boot; the storage agent reads and writes back the
same blocks. Versions of the fabric are positions in the history `past`.

## 3. What the runs check

| Run | Module, configuration | Shows | States |
|---|---|---|---|
| `semantic_edit` | `MCSemanticEdit`, `SemanticEdit.cfg` | under the SnapshotLock the round is closed (`RoundIsClosed`), one live voice per checkout, `last_snapshot` is the newest (`SnapshotsAreTheRecord`), outcomes are final; in a Normal region the lock is released, decisions are dispatched and `ConsensusRound` is implemented | 115k |
| `semantic_lock_leak` | `SemanticEditLockLeak.cfg` | violated: in a High region the lock is never released | |
| `dispatch` | `MCSubscriptionDispatch`, `Dispatch.cfg` | exact depth, one task per match, bounded overshoot; tasks run; shutdown returns, unless a worker joins itself | 388k |
| `mortality` | `MCMortality`, `Mortality.cfg` | per-node locks, what is terminated comes back only by a create of its id, complete archives, one termination per node | 3.4M |
| `immune` | `MCImmuneResponse`, `ImmuneResponse.cfg` | convergence is not missed, a signal counts for one convergence and a convergence for one escalation; termination needs damage; what the built-in agents can report behind the bridge, and that a constant baseline never learns | 626k |
| `replication` | `MCReplication`, `Replication.cfg` | clocks, digests and copies agree; regressions explained | 1.7M |
| `replication_converges` | `ReplicationConverges.cfg` | violated: replicas that gossip for ever may stay different | |
| `fabric_store` | `MCFabricStore`, `FabricStore.cfg` | the copies of the graph and the two kinds of aggregate agree, and loading what was saved gives it back if its numbers are finite; the index names owners; only exposed saves lose what was kept | 174k |
| `coordination` | `MCCoordination`, `Coordination.cfg` | replays lose and repeat nothing, a decision begun after another's checkout marks the collision, decisions can be audited, a failed link is answered, merges are mutual, what a query calls unclaimed has a twin | 901k |
| `kernel_loop` | `MCKernelLoop`, `KernelLoop.cfg` | nothing learned is forgotten by the gate, observations, causal edges, renders and lines of answers account for each other; what is at risk is saved and what is logged is shown | 556k |
| `kernel_snapshot` | `MCKernelSnapshot`, `KernelSnapshot.cfg` | what is acknowledged is durable; never a mixture, never older; fabrics are sound wherever they come from, and what is encoded is decoded | 278k |
| `kernel_snapshot_crash` | `KernelSnapshotCrash.cfg` | violated: a crash within persist may leave no snapshot | |

### 3.1 Bounds, and why they are enough

* `semantic_edit`: 1 target, 3 checkouts, 2 proposals, 2 callers, without symmetry
  (it would be unsound for the liveness properties), in Normal and in High regions:
  two rounds, with one writer delayed over the other, and a proposal that supersedes
  one while another checkout is open. Targets share nothing but the mutex.
* `dispatch`: a behaviour starts from one of three pools (`SmallPools`): one worker
  and three nodes with threshold 1, the smallest with a queue past its limit; two
  workers that race; two subscriptions. A panic report is itself a node, so the
  writer and all workers dispatch at once.
* `mortality`: 2 threads, 2 nodes, 1 region (the default) and the fabric, 1 edit
  per node, 3 dying events: two concurrent triggers of one scope and a retry after
  a failure, against a creation, an edit or a tick. Any id may be created again, also
  one that was terminated, any number of times. The third dying event is explored with
  one node (`LastDyingAlone`), two of them with both.
* `immune`: the menus of `MCImmuneResponse`, explored by turns: two agents with
  outcomes at will and two writers (two or three nodes, a change of mode), two
  built-in agents that see enough nodes to converge twice, and each built-in agent
  alone with the events that drive it through warm-up, deviation and recovery.
* `replication`: 3 replicas, 1 node, 2 writes each, own counters up to 3, one
  queued message each: a relay, a late answer, conflicts of all three strategies.
  Nodes do not interact, so one is enough. `replication_converges` has 2 replicas
  with counters up to 9 and says nothing of behaviours that reach a bound.
* `fabric_store`: 2 ids, 3 contents (two of them different texts of one signature),
  2 kinds of edge, one command beside the host, 2 changes by the host on top of what
  the command added, 2 saves, a Lamport clock up to 4, three `--meta` menus (a NaN;
  a numeral beyond the largest float, which is an infinity; a key given twice and
  `kind=systemic`), two `--where` clauses, `--limit 1`. A
  collision takes two ids; a lost update takes one stale process.
* `coordination`: 2 agents, 3 calls, 1 termination, and one of seven menus of
  helpers per behaviour, one menu for each question; agents are symmetric. Nothing in `src/comms` closes
  a checkout, so an opened one stays open.
* `kernel_loop`: two lines typed (one of a known class, which may have two lines of
  answer, and `persist`), keys pressed until the second render, one action of the agent with
  a good and a bad answer, 2 observations, 1 fault, 2 power failures. A session that
  fails to save, one that restores, and one after it. The causal graph's caps of 256
  and 1024 are not reached: a model has 16 labels at most.
* `kernel_snapshot`: a machine whose genesis meets every branch of the observation
  (`PciMachine`), three inventories of disks, three fabrics, in bodies of
  three blocks, which fit the disk, and of four, which do not; a flush after every
  second block, one probed block, errors of every read, write and flush.
  `Inventories` is an assumption: whenever the largest eligible disk is listed at
  all, the boots agree on it (`OneDisk`). A boot that did not see that disk would use
  another one, and `NeverStale` would not hold.

### 3.2 Deadlock, and fairness

`CHECK_DEADLOCK FALSE` is set where the system really may stop: when every id, call
or save is used up nobody is obliged to call again. That no thread is stuck inside a
call is what the liveness properties say. `kernel_loop` is checked for deadlock: the
kernel never stops.

The safety properties assume no fairness. `SemanticEdit` assumes weak fairness of
the steps of a call that has begun (the operating system schedules its threads, and
the locks they wait for are held for one step), and that TTLs elapse; no caller
must call. `SubscriptionDispatch` assumes the same of dispatchers and workers, callbacks
included, and that a shutdown whose workers are gone returns. A thread that joins itself
is obliged to nothing, neither to panic nor to return. `Replication` assumes that replicas keep
exchanging digests and handle their messages, as its claim of convergence does.
`KernelLoop` assumes only that the kernel goes on, and that power comes back
(`[]<><<Kernel>>_vars`); its faults and power failures are bounded in number, and
nothing obliges the operator to type.

## 4. What is proved

Eight modules of theorems, each for all values of the constants that satisfy the
named assumptions of its model, which say little: that sets of threads are finite,
that names of different things differ, that bounds are natural numbers. Every proof
has the shape: an invariant in layers, each inductive together with those before it;
lemmas that say what a step does to the vocabulary of the layer; one case per action.
What follows is the argument of each; `PROJECT.json` lists the theorems.

**`Bridge_proofs`**, of `SemanticEdit` (assumes: sensitivities are Booleans, `None` is no id)

1. `StructureCorrect`: `TypeOK` and `CallsInFlight`. The second is the
   bookkeeping that makes the rest inductive: what a thread carries between two
   critical sections is still unregistered, and is its own.
2. `OneVoice`: `OneVoicePerCheckout`, inductive together with 1.
3. `SnapshotLockSafe`: `RoundIsClosed`. It is not inductive alone;
   `LockDiscipline` adds that exactly one thread is writing for each locked target
   and that the set it read is still the set of finalized proposals.
4. `FinalOutcomes`: no step undoes an outcome, as an action property, from 1 and 2.
5. `SnapshotsAlwaysGrow`, from `Growth`, which relates what is written to what a
   writer holds, and `RecordKept`: `SnapshotsAreTheRecord`, that outside a
   SnapshotLock `last_snapshot` is the newest although it is set a critical section
   after the snapshot was written.
6. `Refinement`: `Spec => ImplementsConsensusRound`, in a Normal region
   `Rounds!Spec`. Each action is a step of `ConsensusRound` or a stutter;
   `RecordFinalize` is the instant of the decision. Lemmas (`SweepView`,
   `RegisterView`, `QuietView`, ...) say what an action does to the sets the
   abstract state is read from.

**`SubscriptionDispatch_proofs`** (assumes: finitely many threads, writers are not
workers, thresholds are positive)

1. `DepthExact`: types and `QueueDepthExact` are one invariant: that a depth is a
   natural number after a worker counted down is because it was exact before. The
   proof counts the tasks in the channel (`TasksOf`) through a send and a receive.
2. `CallsDue`: `CallLayer`. A node is dispatched by one thread, which visits each
   subscription once (`SentOnce`); a task is in one place (`OneHolder`); the step of
   a worker tells how often it called (`CallsCounted`); nobody is sent the report of
   its own panic (`OwnSkipped`).
3. `DepthBounded`: `Backpressure`. The bound is not on the depth but on the depth
   and what is on its way (`Coming`): increments decided on by threads that passed
   the test, and announcements of P53, which skip it.
4. `NothingAbandoned`: a worker leaves only when the Sender is gone for good and the
   channel is empty.

**`Bridge_proofs`**, of `Mortality` (assumes: finitely many threads, the three kinds of scope differ)

The two models of the bridge are about different state and are extended side by side,
hence the names `MortalInit`, `MortalNext`, `MortalSpec`, `threadPc` of `Mortality`.

1. `MortalTypeCorrect`, with what each step of a thread knows of its locals; `LocksExact`:
   `LockedByItsEditor`, through a failed acquisition, a missing node and a panic.
2. `TerminationOutlastsCalls`: `TerminationHolds`, that a terminated node comes back by
   nothing but a create of its id, and never into a region that is gone; and that a scope
   is terminated once. Once it is gone no trigger of it begins, so
   the triggers that had begun bound the events still to be written: the number of
   ended events plus the threads that are triggering is at most the number of threads.
3. `ArchivesComplete`: `ArchivesCover`. From `Collect` on, what a trigger holds, then
   its archive, covers all nodes it owes; whoever writes a node after the collection
   finds the trigger past it and counts as late.

**`Replication_proofs`** (assumes: bounds are natural numbers)

1. `TypeCorrect`, with `AskedOfHolders`: a request is answered with the copy found
   when it is read, so that answers are typed needs that a node, once there, stays.
2. `TruthTold`: `VersionsTruthful`. Steps are quiet or an event of one replica; an
   event moves that replica's clock to what it or a message to it knew.
3. `ClocksIdentify`: `ClockIdentifiesCopy` speaks of recorded clocks. `StampsAgree`
   is what is inductive: wherever a clock is stamped on a copy (where a replica holds
   both, where it recorded it, in an answer on its way) equal clocks mean equal
   copies. An event gives its replica a clock that no stamp has, since by 2 no stamp
   counts an event that was not made.
4. `RegressExplained`: the action property, from 2 and the vocabulary of events.

**`ImmuneResponse_proofs`** (assumes: counts and windows are natural numbers, N and M
positive, the values of traces are integers)

1. `TypeCorrect`, with the baseline of each agent: n, sum and squares are those of
   samples that were folded (the spread is never negative), for all eight
   specializations.
2. `ConstantForGood`: a baseline of equal values stays constant, for any agent.
3. `NothingForgotten`: `Memory`. Every signal is in its region's window, in a receipt,
   or too old to count; what is in a window is in no receipt; each convergence that
   the ladder remembers is told by a receipt that no other overlaps. From it `NoneMissed`, whatever threads the signals came
   from, and `EachCountedOnce`.
4. `TerminationGrounded`: `Backed`. A thread that is about to escalate has grounds
   in the graph: a receipt of an escalation written while the mode was `Active`,
   over M convergences with damage among them.
5. `BuiltInsTellLittle`: `Honest`. Unless an agent of another kind is registered, no
   call and no signal carries damage, and no silence is reported.

**`FabricStore_proofs`** (assumes: the ids are 1 to n; contents are contents, and the
texts `--meta` is given are texts the parsers know; what a value displays is read back
as that value, and a count up to `MaxClock` displays as a numeral)

1. `KeptSafely`: `KeptUnlessExposed`, from `Intact`: as long as nothing was exposed (no
   stale save, none cut short, no number that is not finite)
   one process at a time writes, from a fabric no older than the file, and a fabric
   as new as the file holds all that earlier saves kept and it did not fade.
2. `IndexOwned`: `IndexNamesItsOwner`, from `Owners`: each fabric in memory is whole
   (its stored signatures are those of the contents) and its index names nodes of the
   signature asked for; and the file, whoever saved it, loads as such a fabric. A lemma
   for each method of the fabric says so of any fabric: `Create`, `Mutate`, `Fade`,
   the bulk mutation of a search, and a save followed by a load. Only the host may
   replace a node, and is then exempt (`overwritten`).
3. `FabricAlwaysAgrees`: `FabricAgrees`, from `Graphs`, which says of each fabric in
   memory and of what the file loads as that it is *mirrored* (for each node the
   reverse index counts its incoming edges), *synced* (a node's context holds as many
   edges as leave it, unless a copy brought its own) and *filled* (typed contents,
   metadata the parsers know, activation counts no higher than the clock). The four
   conjuncts are theorems of their own:
   * `EdgesAlwaysMirrored`. Removing a node filters two kinds of sequence with
     `Retain`. It is a recursive function in the model because the prover knows
     nothing of `SelectSeq`; that it keeps what passes and counts it is proved by
     induction over the prefixes.
   * `SavesRoundTrip`: each field is written as a text and parsed again, of a fabric
     whose numbers are finite (`IsReadable`); a file with any other is refused.
   * `TimestampsOrdered`: timestamps tell nodes apart and none is ahead of the clock.
   * `QueriesAlwaysAgree`: a flat count or sum is that over the groups. A sum over a
     finite set is first shown not to depend on the order in which it is taken
     (`SumFunction`), then to add up over the classes of a partition. What is finite is
     found by its text.

**`Coordination_proofs`** (assumes: finitely many agents, `MaxIds` at least 3: the
thread, the item and the intent that are there at first)

Each call of a helper goes through many sections, so the module first says what a
step *is*: `StepCases`, a call of one helper goes on or something outside the calls
happens, and `AgentGraph`, what such a step does to the two graphs. Then

1. `SoundAlways`: types, what each call holds between two sections, and that ids are
   handed out once, edges have their ends and terminated ids do not come back on the
   operational bridge (`Grounded`); `TypeCorrect` from it.
2. `ConvergenceMutual` (`MergeIsMutual`): a missing twin edge is held by a merge that
   is half done. `DecisionsAttached` (`DecisionsSound`): `Fits` says what a call and
   an answer may claim of the graph.
3. `CollisionsMarked` (`CollisionsAreMarked`): `Marks`. A checkout that is open stays
   open, so whoever counts after it counts at least one; `MarkerKept` follows the marker
   through the sections left, until it is tied to the thread or the thread is gone. `UnclaimedByTwin`: `Queried`, what the
   tables of a query in progress miss. `ChecksFailByTwin`: `Looked`.
4. `EvidenceAttached` and `ReplaysSound`: `Evident` and `Recounted` count edges and
   deliveries, by the agents that replayed, so both need finite sets laid out of a
   bag (`Pile`) and cardinalities through each step.

Where a recursive set (`Reached`, what follows from a node over edges) is met, the
proof uses induction over a *set*: a non-empty set of subsets of a finite set has a
minimal member (`MinimalSet`, from the library's well-foundedness theorems).

**`KernelSnapshot_proofs`** (assumes: a block has room for a superblock, the agent does
not probe block 0, what the firmware lists has sizes and labels, and what the machine
reads, prints and stores are numbers and sequences of numbers)

1. `SnapshotIsDurable`: `SnapshotDurable`. `Framed` says which steps have a device, a
   fabric and an image. `Written` is the argument of `persist`: while no operation
   fails, the blocks of the body written so far are *in sight* (read back through the
   cache); after the first flush they are *settled*, on the medium and in sight; after
   the second flush the superblock is too. Settled blocks survive whatever the device
   writes back, and a storage agent that writes what it reads. `FoundBehindItsName`
   finishes it: a body that lies behind its superblock, in blocks of any size, is what
   `restore` finds.
2. `RestartIsNeverStale`: `NeverStale`, with every failure of reads, writes and
   flushes. `Named`: every superblock in the cache or on any medium is that of a
   version no older than the last acknowledged, and so are the fabric in memory and
   the image. What is found is what the superblock is the checksum of
   (`FoundIsNamed`), so a torn body yields nothing, never a mixture.

3. `FabricsAlwaysSound`: `FabricsSound`, that `decode_snapshot` reads back what
   `encode_snapshot` made, for every fabric the kernel ever holds; 1 and 2 rest on it.
   The genesis and each node or edge the loop adds keep a fabric *sound*, whatever the
   machine is. The encoding is then laid out piece by piece, and the reader
   is shown to consume one node, one edge at a time (`SnapshotDecoded`). That leaves the
   fabrics that come off a disk: `Remembered` says that every version is sound and that
   a superblock anywhere names a version, so that a restore brings back nothing new.

The second theorem has one hypothesis, `OneDisk`: the boots that find a disk pick the
same. It holds of the inventories of the run, and is needed: after a boot that picks
another disk the older snapshot may come back.

**`KernelLoop_proofs`** (assumes: thresholds, surprises and bounds are natural numbers,
windows positive, the meta agent's period at least 2; numbers of any size, any number
of observations, failed persists and power failures)

1. `DecodeInvertsEncode`: for every model of the shape the loop gives it (`Models`: any
   counts, any graph and history), the blob has its header and decodes to it, each of the fourteen parts consuming what it wrote and leaving the rest. Parts
   with tables (devices, the causal graph, the registry of agents, the history) are read
   row by row, by induction over the rows.
2. Each call keeps the accounts of *one* model. `Accounts` says what the counters, the
   causal graph, the history and the event models have to do with each other; a call
   (`Recorded`, an intent, a step of the agent, an assessment, a persist, a park, a boot)
   is first shown to change these fields and no others. The causal graph is the hard one:
   the observations of its nodes and edges are sums over sequences that a call extends
   or of which it raises one count.
3. `LoopInv` says so of the model in memory and of every model that a carrier holds, in
   the fabric and in the snapshot (`CarriersSound`), by 1 a matter of one codec. Along the
   Lamport clock carriers never know less (`Ordered`), so the newest is the one to
   restore, and the living model knows no less than any (`Covers`). `RiskCovered` and
   `WritePending` tell what is at risk between the section that puts the carrier into
   the fabric and the one that learns the outcome. Images of older versions of the
   blob, and of a fabric with a driver only, are shown to give sound models too.
4. `LearningIsKept` (`LearningKept`) and `AccountsAreCausal` (`CausalAccounts`) follow.

Where the model computes along a sequence, what its recursive function yields is proved
by induction over a set of numbers: a set without a least counterexample has none
(`NatsHaveLeast`, `UpTo`), and a recursive function exists because each initial
part of it does (`Recursion`).

## 5. What is only model-checked

* Liveness under fairness (`ReleasedInNormal`, `EveryDecisionDispatched`,
  `EveryTaskRuns`, `ShutdownCompletes`, `RiskGetsSaved`, `ScreenCatchesUp`) is beyond
  the prover.
* No safety property: each invariant that a passing run checks is stated by a
  theorem of section 4, and so are the action properties and the refinement.
* What a theorem of section 4 takes as a hypothesis beyond the parameters of its module
  is one thing, `OneDisk`, of which TLC checks an instance.

They are checked on the instances of section 3. The three properties that TLC refutes
are stated as violations there.

## 6. What is not modelled, and why

`PROJECT.json` lists every part with its status.

* Real-valued arithmetic: embeddings, resonance, free energy, decay weights,
  confidence, the beliefs and matrices of the kernel's model. Where it decides
  something, the model lets it decide either way. The one exception is the
  statistics of the cell-agents, which are kept exactly, in integers.
* Keys, hashes and signatures are taken to work and hashes to be injective (an id is
  its content, a checksum is the body). High-sensitivity regions are modelled where
  they refuse a write the code relies on (`SemanticEdit`).
* Quarantine: `confirm`, `reverse` and `dissolve` have no caller, and nothing asks
  whether a node is quarantined. Cognitive map, multivariate baseline and inheritance
  have no caller on the bridge's path; `bootstrap` writes voice prints and drops the
  agents it made. The debug surface, health and tracing only read.
* In `Coordination` the event and checkout nodes the bridge writes for itself, and a
  decision on more than one node; the projection is subscribed to plain messages. In
  `KernelLoop` errors of a flush; in `KernelSnapshot` node weights, and texts as more than numbers.
* The target node of a semantic edit is taken to stay in the fabric; `Mortality` is
  where nodes go.
* `immune`: only nodes reach the agents behind the bridge, as in the code; `retune`
  and `warm_baseline` are called by tests alone.
* Hardware: reading PCI, ACPI and UEFI is a constant `Machine` and what the firmware
  lists; drawing and scan codes are left out.

## 7. Disagreements between code and documents that no run states

Each was met while modelling; the model does what the code does.

* `semantic.rs:10` says the snapshot is written when the last outstanding checkout
  "finalizes or expires". Nothing reacts to an expiry: the round stays open until
  another checkout is finalized.
* `semantic.rs:72` says a draft is dropped when its TTL elapsed before its
  finalization. `record_finalize` does not look at the TTL: an overdue draft that no
  sweep has met is finalized.
* A proposal with the lineage id of an earlier one replaces its entry
  (`semantic.rs:267`). Ids are fresh in the model.
* Snapshots are dispatched after the SnapshotLock is released
  (`bridge_fabric.rs:1479`): subscribers may see a newer one first.
* `subscription.rs:20` says matches are skipped "until the queue drains". `lagged`
  may be set after the queue drained, and then stays set until a later task drains.
* `bridge_fabric.rs:198` says `Drop` calls shutdown too. While a subscription is
  registered the panic reporter keeps the pool alive, and nothing stops it. When the
  last reference is a task's, its worker drops the pool and joins itself; so does a
  callback that calls shutdown.
* `bridge_fabric.rs:1558` says a panicking subscription is skipped so that its panic
  does not re-trigger. Two subscriptions that panic on panic reports re-trigger each
  other without end.
* `fabric_trait.rs:121` says in-flight callbacks finish after `unsubscribe`. So do
  those that a dispatcher enqueues afterwards from a registry snapshot taken before.
* `bridge_fabric.rs:1089` says the per-node lock is released "no matter what". A
  panic in the mutation leaves it held, the node out of the map and the
  `FabricState` lock poisoned.
* `bridge_fabric.rs:771` says that once `is_terminated` is true every write is
  refused. `create` alone tests it, before it takes the lock; `edit_mechanical`,
  checkouts, proposals, snapshots and immune signals do not.
* `create` (`bridge_fabric.rs:976`) takes the caller's node with its own id and never
  asks `terminated_nodes`: a replay (`degraded.rs:161`) writes a terminated node back,
  and it cannot be terminated again (`P53AlreadyTriggered`).
* `decision.rs:3` says that a decision whose target has a concurrent checkout writes a
  `ConflictDetected` message. The checkouts are counted before one is opened
  (`decision.rs:162`): two decisions that overlap may both count none, and leave no
  marker. What `Coordination` checks is of a decision begun after the checkout.
* Two triggers of one region both pass `P53AlreadyTriggered` (`bridge_fabric.rs:1672`).
* `decay.rs:25` says the dropped node is handed back in the report; the report
  carries ids only. A node edited between the two passes is dissolved.
* `aggregation.rs:36` says `AlertOnly` does not trigger P53. The mode is read in
  `evaluate` and acted on after the guard is dropped, so a switch in between is late.
* `aggregation.rs:164` says the caller MUST trigger P53. The bridge ignores the
  result; when it fails, the convergences that led to it are already consumed.
* `docs/immune-anomaly-response-runbook.md:95` says `AlertOnly` reverts to `Active`
  after 4 hours; `effective_mode` reverts only `Disabled`, to `AlertOnly`.
  Line 62 says the thresholds are fabric nodes; they are constructor arguments.
* The bridge shows agents created nodes only (`bridge_fabric.rs:340`), whatever
  their `pattern()` or region, and `AttestationObserver`, the one agent here that
  reports damage, listens to trace events: with the agents of this repository the
  bridge never escalates by itself.
* `distributed/mod.rs:153` says the branched node gets a new lineage id. It keeps
  the old one and overwrites the local copy; nothing is recorded for it.
* `package_nodes` sends the replica's whole clock with each node: a copy that is old
  but sent late compares newer than a write it never saw, and replaces it without a
  conflict.
* `storage_agent.rs:175` says the block is left unchanged. After a failed read the
  agent writes zeroes. `persist` acknowledges when its last flush failed, and a
  transient read error at boot leads to a fresh genesis that overwrites a good
  snapshot. A fabric that no longer fits the device destroys the old snapshot.
* The two counts and the clock in the superblock are written and never compared.
* `observe.rs` counts an ACPI table that repeats name and length, but its node is the
  one that was there.
* `fabric/mod.rs`: re-creating a live id leaves the index entry of the node it
  replaces; after the first of two nodes of one signature fades the other is not
  indexed. `ModifyEdge` collapses parallel edges, which `infer_and_learn` can make.
* The bytes that are signed (`node/mod.rs:450`) are not delimited: a constraint whose
  text holds `:hard,` signs like two constraints.
* `intent.rs:144`: a file that cannot be read, for whatever reason, is taken for none,
  and the next save replaces it. `--meta cost=nan` and `--meta cost=inf` make such a
  file: `serde_json` writes `null` for what is not finite and does not read it back. So
  a fabric is given back by its file, and keeps what it saved, as long as its numbers
  are finite. The writes of two commands overlap without a lock.
* A user's `--meta kind=systemic` counts as a seeded node. Grouped aggregates count a
  missing field as 0, flat ones skip it. NaN matches neither `=` nor `!=`;
  an infinity is not found by its text either, since the two are subtracted
  (`intent.rs:103`).
* `inference.rs:112`: a model blob that cannot be read also suppresses the older
  storage driver that could be. The blob is encoded before the surprise it saves is
  reset (`inference.rs:405`), so a restored model persists again after each boot; a
  failed persist is retried every cycle, each time with one more carrier node.
* `persistence_region.rs:3` says a region starts with the atomic strategy; whatever
  `select_action` returns, persist runs the same.
* A successful persist is observed as `restored ok`, so `model` shows it as one; a
  failure that is logged at the end of a cycle in which the operator typed `clear` is
  not kept.
* Replayed messages keep their id, so a replay brings back a message that P53
  terminated; its `Thread` edge is not made. A replay that fails half way loses its
  list. `handoff.rs:191` does not know the edge kinds of the work layer.
* Evidence is counted by edges, so a repeated edge counts again and the calibrated
  cadence (`visibility.rs:169`, at least ten pieces of evidence) may apply early; a
  claim is taken by the first row of its content.
* `specialization.rs:750`: an event ends the silence before it is measured, so a
  silence that an event ends is never reported. A baseline of equal values gives any
  other value the score 1e6, and never learns, since anomalies are not folded in.

## 8. What is left

1. `FabricStore` as an implementation of an abstract store (a map from ids to nodes
   that several processes load and save), as long as nothing is exposed; the proof is
   within reach of `SavesIntact`.
2. Two regions in `ImmuneResponse` with agents of both, and a decision on two nodes in
   `Coordination`, when the bounds allow.
