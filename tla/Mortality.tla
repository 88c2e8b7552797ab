------------------------------ MODULE Mortality ------------------------------
(***************************************************************************)
(* How nodes of the bridge come, change and go: creation, mechanical edits *)
(* under the per-node lock, the P53 triggers of the three scopes and the   *)
(* decay tick, called concurrently by several threads.                     *)
(*                                                                         *)
(* A call is a sequence of critical sections (of the FabricState lock, of  *)
(* the mechanical lock table) and atomic loads or stores; each is one      *)
(* action.  A node is its id, its region and the number of edits it took.  *)
(* The event nodes a P53 trigger writes are counted, not kept as nodes;    *)
(* edges and dispatch are left to other modules.                           *)
(***************************************************************************)
EXTENDS Naturals, FiniteSets

CONSTANTS
  Nodes,              \* lineage ids
  Regions,            \* namespaces
  DefaultRegion,      \* default_namespace
  Fabric,             \* the fabric scope of P53
  Threads,
  FabricScopeEnabled, \* P53Config.fabric_scope_enabled
  MaxEdits,           \* bound on the edits of one node
  MaxTriggers,        \* bound on the dying events
  Nil                 \* no thread, no region

ASSUME MortalityAssumption ==
  /\ DefaultRegion \in Regions
  /\ Fabric \notin Regions /\ Nodes \cap (Regions \cup {Fabric}) = {}
  /\ Nil \notin Nodes \cup Regions \cup Threads \cup {Fabric}
  /\ IsFiniteSet(Threads)
  /\ FabricScopeEnabled \in BOOLEAN
  /\ MaxEdits \in Nat /\ MaxTriggers \in Nat

VARIABLES
  home,        \* region of each node in the fabric, Nil when not in it
  used,        \* ids that were ever created
  internal,    \* of them, the nodes the bridge writes for itself
  mechanical,  \* ids tagged EditMode::Mechanical
  edits,       \* edits under each id
  poisoned,    \* a thread panicked inside the FabricState lock
  gone,        \* terminated_nodes, terminated_regions, fabric_terminated
  dying,       \* dying events written
  ended,       \* termination events written, per scope
  archived,    \* (node, edits) pairs in the archives written, per scope
  late,        \* history: nodes created in a scope when its archive could
               \* miss them
  lock,        \* holder of each per-node lock
  threadPc,    \* the next critical section of each thread
  arg,         \* locals of the call: node or scope,
  found        \*   collected archive, or candidates of the tick

nodeState == <<home, used, internal, mechanical, edits, poisoned, late>>
p53 == <<gone, dying, ended, archived>>
callState == <<threadPc, arg, found>>
mortalVars == <<nodeState, p53, lock, callState>>

Scopes == Regions \cup {Fabric}
Present == {n \in Nodes : home[n] # Nil}
InScope(s) == {n \in Present : s = Fabric \/ home[n] = s}
MoveOn(t, step) == threadPc' = [threadPc EXCEPT ![t] = step]
MoveWith(t, step, x) == MoveOn(t, step) /\ arg' = [arg EXCEPT ![t] = x]
Return(t) == /\ MoveWith(t, "idle", Nil)
             /\ found' = [found EXCEPT ![t] = {}]

\* Entering the FabricState lock: panics once the lock is poisoned.
Enter(t, step) == threadPc[t] = step /\ ~ poisoned

MortalInit ==
  /\ home = [n \in Nodes |-> Nil]
  /\ used = {} /\ internal = {} /\ mechanical = {}
  /\ edits = [n \in Nodes |-> 0]
  /\ poisoned = FALSE
  /\ gone = {}
  /\ dying = 0
  /\ ended = [s \in Nodes \cup Scopes |-> 0]
  /\ archived = [s \in Scopes |-> {}]
  /\ late = [s \in Scopes |-> {}]
  /\ lock = [n \in Nodes |-> Nil]
  /\ threadPc = [t \in Threads |-> "idle"]
  /\ arg = [t \in Threads |-> Nil]
  /\ found = [t \in Threads |-> {}]

(***************************************************************************)
(* create and create_in: the flag of the fabric is read outside the lock,  *)
(* the regions are tested and the node inserted inside it.  The node comes *)
(* with its own id, which may be in the fabric, or may have left it: faded, *)
(* or terminated, and then read elsewhere and replayed.                    *)
(***************************************************************************)
\* Nodes a caller writes now may miss the archive of s.
Collected(s) ==
  \/ s = Fabric /\ Fabric \in gone
  \/ \E t \in Threads : threadPc[t] \in {"write", "terminate"} /\ arg[t] = s

\* A node with the id n takes the place of whatever had that id, terminated or not.
Insert(n, r) ==
  /\ used' = used \cup {n}
  /\ home' = [home EXCEPT ![n] = r]
  /\ late' = [s \in Scopes |->
                IF s \in {r, Fabric} /\ Collected(s) THEN late[s] \cup {n} ELSE late[s] \ {n}]
  /\ UNCHANGED <<edits, poisoned>>

BeginCreate(t) ==
  /\ threadPc[t] = "idle"
  /\ Fabric \notin gone
  /\ MoveOn(t, "create")
  /\ UNCHANGED <<nodeState, p53, lock, arg, found>>

NoRegionClosed == {}               \* mutant: tested before the lock only
ClosedRegions == gone \cap Regions

CommitCreate(t, n, r) ==
  /\ Enter(t, "create")
  /\ r \notin ClosedRegions
  /\ Insert(n, r)
  /\ internal' = internal \ {n}
  /\ mechanical' \in {mechanical \ {n}, mechanical \cup {n}}
  /\ MoveOn(t, "idle")
  /\ UNCHANGED <<p53, lock, arg, found>>

CreateRefused(t, r) ==
  /\ Enter(t, "create")
  /\ r \in ClosedRegions
  /\ MoveOn(t, "idle")
  /\ UNCHANGED <<nodeState, p53, lock, arg, found>>

\* Immune signals, Checkout, Proposal and ConsensusSnapshot nodes: fresh ids,
\* written to the default region, terminated or not.
CreateInternal(t, n) ==
  /\ Enter(t, "idle")
  /\ n \notin used
  /\ Insert(n, DefaultRegion)
  /\ internal' = internal \cup {n}
  /\ UNCHANGED <<mechanical, p53, lock, callState>>

(***************************************************************************)
(* edit_mechanical: validate, try the per-node lock, mutate, release.      *)
(***************************************************************************)
BeginEdit(t, n) ==
  /\ Enter(t, "idle")
  /\ n \in Present \cap mechanical
  /\ MoveWith(t, "acquire", n)
  /\ UNCHANGED <<nodeState, p53, lock, found>>

TryAcquire(t) ==
  /\ threadPc[t] = "acquire"
  /\ IF lock[arg[t]] = Nil
     THEN /\ lock' = [lock EXCEPT ![arg[t]] = t]
          /\ MoveOn(t, "mutate")
          /\ UNCHANGED <<arg, found>>
     ELSE Return(t) /\ UNCHANGED lock
  /\ UNCHANGED <<nodeState, p53>>

\* A mutant of Mutate: the node is written back without a look if it is there.
WriteBack(t) ==
  /\ Enter(t, "mutate")
  /\ home' = [home EXCEPT ![arg[t]] = DefaultRegion]
  /\ MoveOn(t, "unlock")
  /\ UNCHANGED <<used, internal, mechanical, edits, poisoned, late, p53, lock, arg, found>>

Mutate(t) ==
  LET n == arg[t]
  IN
  /\ Enter(t, "mutate")
  /\ n \in Present
  /\ edits[n] < MaxEdits
  /\ edits' = [edits EXCEPT ![n] = @ + 1]
  /\ MoveOn(t, "unlock")
  /\ UNCHANGED <<home, used, internal, mechanical, poisoned, late, p53, lock, arg, found>>

ReturnLocked(t) == Return(t)       \* mutant: the error returns at once
ReleaseNext(t) == MoveOn(t, "unlock") /\ UNCHANGED <<arg, found>>

NodeNotFound(t) ==
  /\ Enter(t, "mutate")
  /\ arg[t] \notin Present
  /\ ReleaseNext(t)
  /\ UNCHANGED <<nodeState, p53, lock>>

\* The closure panics: mutate_node had taken the node out of the map, and
\* unwinding passes the release of the per-node lock.
MutationPanics(t) ==
  /\ Enter(t, "mutate")
  /\ arg[t] \in Present
  /\ home' = [home EXCEPT ![arg[t]] = Nil]
  /\ poisoned' = TRUE
  /\ MoveOn(t, "dead")
  /\ UNCHANGED <<used, internal, mechanical, edits, late, p53, lock, arg, found>>

Release(t) ==
  /\ threadPc[t] = "unlock"
  /\ lock' = [lock EXCEPT ![arg[t]] = Nil]
  /\ Return(t)
  /\ UNCHANGED <<nodeState, p53>>

(***************************************************************************)
(* p53_trigger.  The node scope is one critical section; the others test,  *)
(* announce and drain, collect, archive and terminate, one after another.  *)
(***************************************************************************)
TerminateNode(t, n) ==
  /\ Enter(t, "idle")
  /\ n \in Present \ gone
  /\ gone' = gone \cup {n}
  /\ ended' = [ended EXCEPT ![n] = @ + 1]
  /\ home' = [home EXCEPT ![n] = Nil]
  /\ UNCHANGED <<used, internal, mechanical, edits, poisoned, late,
                 dying, archived, lock, callState>>

AlreadyTriggered(s) == s \in gone

BeginTrigger(t, s) ==
  /\ Enter(t, "idle")
  /\ s = Fabric => FabricScopeEnabled
  /\ ~ AlreadyTriggered(s)
  /\ MoveWith(t, "announce", s)
  /\ UNCHANGED <<nodeState, p53, lock, found>>

\* The drain that follows ends with the queues or with its budget; the worker
\* threads it waits for are SubscriptionDispatch's.
Announce(t) ==
  /\ Enter(t, "announce")
  /\ dying < MaxTriggers
  /\ dying' = dying + 1
  /\ MoveOn(t, "collect")
  /\ UNCHANGED <<nodeState, gone, ended, archived, lock, arg, found>>

CopiesOf(s) == {<<n, edits[n]>> : n \in InScope(s)}

Collect(t) ==
  /\ Enter(t, "collect")
  /\ found' = [found EXCEPT ![t] = CopiesOf(arg[t])]
  /\ MoveOn(t, "write")
  /\ UNCHANGED <<nodeState, p53, lock, arg>>

WriteArchive(t) ==
  /\ threadPc[t] = "write"
  /\ archived' = [archived EXCEPT ![arg[t]] = @ \cup found[t]]
  /\ MoveOn(t, "terminate")
  /\ UNCHANGED <<nodeState, gone, dying, ended, lock, arg, found>>

GiveUp(t) == Return(t)

ArchiveFails(t) ==
  /\ threadPc[t] = "write"
  /\ GiveUp(t)
  /\ UNCHANGED <<nodeState, p53, lock>>

TerminateRegion(t) ==
  /\ Enter(t, "terminate")
  /\ arg[t] \in Regions
  /\ gone' = gone \cup {arg[t]}
  /\ ended' = [ended EXCEPT ![arg[t]] = @ + 1]
  /\ Return(t)
  /\ UNCHANGED <<nodeState, dying, archived, lock>>

TerminateFabric(t) ==
  /\ threadPc[t] = "terminate"
  /\ arg[t] = Fabric
  /\ gone' = gone \cup {Fabric}
  /\ MoveOn(t, "record")
  /\ UNCHANGED <<nodeState, dying, ended, archived, lock, arg, found>>

RecordFabric(t) ==
  /\ Enter(t, "record")
  /\ ended' = [ended EXCEPT ![Fabric] = @ + 1]
  /\ Return(t)
  /\ UNCHANGED <<nodeState, gone, dying, archived, lock>>

(***************************************************************************)
(* decay_tick: candidates under the read lock, as far as the budget goes;  *)
(* they fade under the write lock, whatever their weight is by then.  How  *)
(* much time has passed is open: any node may be below the threshold.      *)
(***************************************************************************)
Scan(t) ==
  /\ Enter(t, "idle")
  /\ \E c \in SUBSET (Present) :
       c # {} /\ found' = [found EXCEPT ![t] = c]
  /\ MoveOn(t, "fade")
  /\ UNCHANGED <<nodeState, p53, lock, arg>>

Fade(t) ==
  /\ Enter(t, "fade")
  /\ home' = [n \in Nodes |-> IF n \in found[t] THEN Nil ELSE home[n]]
  /\ Return(t)
  /\ UNCHANGED <<used, internal, mechanical, edits, poisoned, late, p53, lock>>

-----------------------------------------------------------------------------
\* The first step of each call.
Begin(t) ==
  \/ BeginCreate(t)
  \/ \E n \in Nodes : CreateInternal(t, n) \/ BeginEdit(t, n) \/ TerminateNode(t, n)
  \/ \E s \in Scopes : BeginTrigger(t, s)
  \/ Scan(t)

GoOn(t) ==
  \/ \E n \in Nodes, r \in Regions : CommitCreate(t, n, r)
  \/ \E r \in Regions : CreateRefused(t, r)
  \/ TryAcquire(t) \/ Mutate(t) \/ NodeNotFound(t) \/ MutationPanics(t) \/ Release(t)
  \/ Announce(t) \/ Collect(t) \/ WriteArchive(t) \/ ArchiveFails(t)
  \/ TerminateRegion(t) \/ TerminateFabric(t) \/ RecordFabric(t)
  \/ Fade(t)

MortalNext ==
  \E t \in Threads : Begin(t) \/ GoOn(t)

MortalSpec == MortalInit /\ [][MortalNext]_mortalVars

-----------------------------------------------------------------------------
MortalSteps == {"idle", "create", "acquire", "mutate", "unlock", "dead", "announce",
          "collect", "write", "terminate", "record", "fade"}
Copies == Nodes \X Nat
MortalTypeOK ==
  /\ home \in [Nodes -> Regions \cup {Nil}]
  /\ Present \subseteq used /\ used \subseteq Nodes
  /\ internal \subseteq used /\ mechanical \subseteq used
  /\ edits \in [Nodes -> Nat]
  /\ poisoned \in BOOLEAN
  /\ gone \subseteq Nodes \cup Scopes
  /\ dying \in Nat
  /\ ended \in [Nodes \cup Scopes -> Nat]
  /\ archived \in [Scopes -> SUBSET Copies]
  /\ late \in [Scopes -> SUBSET Nodes]
  /\ lock \in [Nodes -> Threads \cup {Nil}]
  /\ threadPc \in [Threads -> MortalSteps]
  /\ arg \in [Threads -> Nodes \cup Scopes \cup {Nil}]
  /\ found \in [Threads -> SUBSET (Copies \cup Nodes)]

\* A per-node lock is held exactly while its holder is between acquiring and
\* releasing it (or died there): none is leaked by an edit whose node is gone.
Editing(t) == threadPc[t] \in {"mutate", "unlock", "dead"}
LockedByItsEditor ==
  \A n \in Nodes, t \in Threads : lock[n] = t <=> Editing(t) /\ arg[t] = n

\* The archive of a terminated region or fabric holds every node a caller wrote
\* there, but for those written while a trigger was past collecting it, and in the
\* fabric by creations that had tested its flag before; a terminated region takes
\* no more of them.
ArchiveComplete ==
  \A s \in gone \cap Scopes : \A n \in InScope(s) \ (internal \cup late[s]) :
    \E v \in 0..edits[n] : <<n, v>> \in archived[s]

\* An id is terminated once, even when its node was created again since; a
\* region or the fabric, by no more triggers than were under way when the first
\* of them ended.
TerminatedOnce ==
  /\ \A n \in Nodes : ended[n] <= 1
  /\ \A s \in Scopes : ended[s] <= Cardinality(Threads)

\* A node that P53 terminated comes back only by a create with its old id, which
\* never asks terminated_nodes, and not into a region that is gone: no edit
\* validated before the termination, and no tick that listed the node, revives it.
RevivedByCreateOnly ==
  [][\A n \in gone \cap Nodes :
       home[n] = Nil /\ home'[n] # Nil =>
         /\ \E t \in Threads : threadPc[t] = "create" /\ threadPc'[t] = "idle"
         /\ home'[n] \notin gone]_mortalVars

\* Termination outlasts the calls under way: none of them revives a node or
\* terminates a scope again, but creates and the triggers begun before.
TerminationHolds == RevivedByCreateOnly /\ []TerminatedOnce
=============================================================================
