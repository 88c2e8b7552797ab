---------------------------- MODULE SemanticEdit ----------------------------
(***************************************************************************)
(* The semantic edit machine of the bridge: checkout, propose and          *)
(* finalize_proposal, called concurrently by several threads on the        *)
(* Semantic-mode nodes of one fabric.                                      *)
(*                                                                         *)
(* A call is a sequence of critical sections, of the FabricState lock      *)
(* (node creation) and of the SemanticStateTable mutex (the state          *)
(* machine); each critical section is one action, and pc says which one a  *)
(* caller runs next.  A call that the code refuses without changing any    *)
(* state is not a step.  Identifiers are lineage ids: a fresh one is taken *)
(* for every node created, so the two id sets bound the number of calls.   *)
(***************************************************************************)
EXTENDS Naturals, Sequences

CONSTANTS
  Targets,     \* nodes created with EditMode::Semantic
  Checkouts,   \* lineage ids of Checkout nodes
  Proposals,   \* lineage ids of Proposal nodes
  Callers,     \* threads calling the bridge
  Sensitivity, \* may the default namespace be High sensitivity, which refuses
               \* unsigned nodes with SignatureRequired: {FALSE}, {TRUE} or both
  None         \* no id

ASSUME SemanticAssumption ==
  /\ Sensitivity \subseteq BOOLEAN
  /\ None \notin Targets \cup Checkouts \cup Proposals

VARIABLES
  high,          \* the default namespace is High sensitivity
  coTarget,      \* target of each Checkout node, None before the node exists
  coStatus,      \* entry of the checkout in the table
  elapsed,       \* checkouts whose TTL has run out
  prCheckout,    \* checkout of each Proposal node, None before the node exists
  prStatus,      \* entry of the proposal in the table
  locked,        \* targets with snapshot_in_progress
  snapshots,     \* the ConsensusSnapshot nodes of each target, in creation order
  lastSnapshot,  \* last_snapshot: position in snapshots, 0 for none
  delivered,     \* snapshots dispatched to subscribers, in dispatch order
  pc,            \* the next critical section of each caller
  target,        \* locals of the call: its target,
  node,          \*   the node it created,
  batch,         \*   the finalized proposals read under the table's mutex,
  round          \*   the snapshot it created

table == <<coStatus, prStatus, locked, lastSnapshot>>
graph == <<coTarget, prCheckout, snapshots>>
locals == <<pc, target, node, batch, round>>
vars == <<high, table, graph, elapsed, delivered, locals>>

CheckoutStatus == {"Absent", "Open", "Finalized", "Expired"}
ProposalStatus == {"Absent", "Draft", "Finalized", "Superseded", "Dropped"}
Steps == {"idle", "create", "register", "draft", "snapshot", "release", "deliver"}

CheckoutsOn(t) == {c \in Checkouts : coTarget[c] = t}
OpenOn(t) == {c \in CheckoutsOn(t) : coStatus[c] = "Open"}
ProposalsOn(t) == {p \in Proposals : prCheckout[p] \in CheckoutsOn(t)}
FinalizedOn(t) == {p \in ProposalsOn(t) : prStatus[p] = "Finalized"}
DraftsOf(c) == {p \in Proposals : prCheckout[p] = c /\ prStatus[p] = "Draft"}

Goto(k, step) == pc' = [pc EXCEPT ![k] = step]

Init ==
  /\ high \in Sensitivity
  /\ coTarget = [c \in Checkouts |-> None]
  /\ coStatus = [c \in Checkouts |-> "Absent"]
  /\ elapsed = {}
  /\ prCheckout = [p \in Proposals |-> None]
  /\ prStatus = [p \in Proposals |-> "Absent"]
  /\ locked = {}
  /\ snapshots = [t \in Targets |-> <<>>]
  /\ lastSnapshot = [t \in Targets |-> 0]
  /\ delivered = [t \in Targets |-> <<>>]
  /\ pc = [k \in Callers |-> "idle"]
  /\ target = [k \in Callers |-> None]
  /\ node = [k \in Callers |-> None]
  /\ batch = [k \in Callers |-> {}]
  /\ round = [k \in Callers |-> 0]

(***************************************************************************)
(* Time: the TTL of a checkout runs from the moment its call built the     *)
(* entry, and nothing in the bridge reacts to it running out.              *)
(***************************************************************************)
TtlElapses(c) ==
  /\ coTarget[c] # None
  /\ c \notin elapsed
  /\ elapsed' = elapsed \cup {c}
  /\ UNCHANGED <<high, table, graph, delivered, locals>>

\* Open checkouts of t whose TTL has run out, and what is dropped with them.
OverdueAnyStatus(t) == CheckoutsOn(t) \cap elapsed  \* mutant: status not tested
Overdue(t) == OpenOn(t) \cap elapsed
ExpireCheckouts(gone) ==
  [c \in Checkouts |-> IF c \in gone THEN "Expired" ELSE coStatus[c]]
DropDrafts(gone) ==
  [p \in Proposals |->
     IF prCheckout[p] \in gone /\ prStatus[p] = "Draft" THEN "Dropped" ELSE prStatus[p]]

(***************************************************************************)
(* checkout(target): sweep, create the Checkout node, register it.         *)
(***************************************************************************)
SweepExpired(k, t) ==
  /\ pc[k] = "idle"
  /\ coStatus' = ExpireCheckouts(Overdue(t))
  /\ prStatus' = DropDrafts(Overdue(t))
  /\ target' = [target EXCEPT ![k] = t]
  /\ Goto(k, "create")
  /\ UNCHANGED <<locked, lastSnapshot, graph, elapsed, delivered, node, batch, round>>

FreshCheckout(c) == coTarget[c] = None

CreateCheckoutNode(k, c) ==
  /\ pc[k] = "create"
  /\ FreshCheckout(c)
  /\ coTarget' = [coTarget EXCEPT ![c] = target[k]]
  /\ node' = [node EXCEPT ![k] = c]
  /\ Goto(k, "register")
  /\ UNCHANGED <<table, prCheckout, snapshots, elapsed, delivered, target, batch, round>>

LockIgnored(k) == FALSE                              \* mutant: no lock test
LockHeld(k) == target[k] \in locked

\* Refused under the SnapshotLock: the node stays in the graph as an orphan.
TryRegisterCheckout(k) ==
  /\ pc[k] = "register"
  /\ coStatus' = IF LockHeld(k)
                 THEN coStatus
                 ELSE [coStatus EXCEPT ![node[k]] = "Open"]
  /\ Goto(k, "idle")
  /\ target' = [target EXCEPT ![k] = None]
  /\ node' = [node EXCEPT ![k] = None]
  /\ UNCHANGED <<prStatus, locked, lastSnapshot, graph, elapsed, delivered, batch, round>>

(***************************************************************************)
(* propose(checkout): create the Proposal node, register it.  The lookup   *)
(* of the checkout's target before the creation reads what never changes   *)
(* once the checkout is registered.                                        *)
(***************************************************************************)
CreateProposalNode(k, c, p) ==
  /\ pc[k] = "idle"
  /\ coStatus[c] # "Absent"
  /\ prCheckout[p] = None
  /\ prCheckout' = [prCheckout EXCEPT ![p] = c]
  /\ node' = [node EXCEPT ![k] = p]
  /\ Goto(k, "draft")
  /\ UNCHANGED <<table, coTarget, snapshots, elapsed, delivered, target, batch, round>>

NoneSuperseded(c) == {}                      \* mutant: earlier drafts survive
SupersededBy(c) == DraftsOf(c)

\* Refused when the checkout is no longer Open; its TTL is not consulted.
RegisterProposal(k) ==
  LET p == node[k]
      c == prCheckout[p]
  IN
  /\ pc[k] = "draft"
  /\ prStatus' = IF coStatus[c] # "Open"
                 THEN prStatus
                 ELSE [q \in Proposals |->
                         IF q = p THEN "Draft"
                         ELSE IF q \in SupersededBy(c) THEN "Superseded" ELSE prStatus[q]]
  /\ Goto(k, "idle")
  /\ node' = [node EXCEPT ![k] = None]
  /\ UNCHANGED <<coStatus, locked, lastSnapshot, graph, elapsed, delivered, target, batch, round>>

(***************************************************************************)
(* finalize_proposal(proposal): record it; the caller that closed the      *)
(* round writes the snapshot, releases the SnapshotLock, and dispatches.   *)
(***************************************************************************)
\* The statuses after p is finalized and the overdue checkouts of its target
\* are swept.  Its own checkout is finalized first, so it is never swept.
FinalizeCheckout(p) ==
  LET t == coTarget[prCheckout[p]]
      gone == Overdue(t) \ {prCheckout[p]}
  IN [c \in Checkouts |->
        IF c = prCheckout[p] /\ coStatus[c] = "Open" THEN "Finalized"
        ELSE IF c \in gone THEN "Expired" ELSE coStatus[c]]

FinalizeProposal(p) ==
  LET t == coTarget[prCheckout[p]]
      gone == Overdue(t) \ {prCheckout[p]}
  IN [DropDrafts(gone) EXCEPT ![p] = "Finalized"]

NeverStillOpen(t) == FALSE       \* mutant: every finalize closes the round
StillOpen(t) == \E c \in CheckoutsOn(t) : coStatus'[c] = "Open"

CollectFinalized(t) == {q \in ProposalsOn(t) : prStatus'[q] = "Finalized"}

RecordFinalize(k, p) ==
  LET t == coTarget[prCheckout[p]]
  IN
  /\ pc[k] = "idle"
  /\ prStatus[p] = "Draft"
  /\ coStatus' = FinalizeCheckout(p)
  /\ prStatus' = FinalizeProposal(p)
  /\ IF StillOpen(t)
     THEN UNCHANGED <<locked, target, batch, pc>>
     ELSE /\ locked' = locked \cup {t}
          /\ target' = [target EXCEPT ![k] = t]
          /\ batch' = [batch EXCEPT ![k] = CollectFinalized(t)]
          /\ Goto(k, "snapshot")
  /\ UNCHANGED <<lastSnapshot, graph, elapsed, delivered, node, round>>

AlwaysRefused == TRUE        \* mutant: the write fails in every region
SignatureRequired == high

\* The snapshot node is created without a signer: a High region refuses it,
\* and the `?` returns the error with the SnapshotLock still held.
WriteSnapshot(k) ==
  LET t == target[k]
  IN
  /\ pc[k] = "snapshot"
  /\ ~ SignatureRequired
  /\ snapshots' = [snapshots EXCEPT ![t] = Append(@, batch[k])]
  /\ round' = [round EXCEPT ![k] = Len(snapshots[t]) + 1]
  /\ Goto(k, "release")
  /\ UNCHANGED <<table, coTarget, prCheckout, elapsed, delivered, target, node, batch>>

SnapshotRefused(k) ==
  /\ pc[k] = "snapshot"
  /\ SignatureRequired
  /\ Goto(k, "idle")
  /\ target' = [target EXCEPT ![k] = None]
  /\ batch' = [batch EXCEPT ![k] = {}]
  /\ UNCHANGED <<table, graph, elapsed, delivered, node, round>>

ReleaseOnly(k) == lastSnapshot   \* mutant: the snapshot's id is not recorded
RecordSnapshot(k) == [lastSnapshot EXCEPT ![target[k]] = round[k]]

ReturnAtOnce(k) == Goto(k, "idle")  \* mutant: the snapshot is not dispatched
ThenDispatch(k) == Goto(k, "deliver")

ReleaseSnapshotLock(k) ==
  /\ pc[k] = "release"
  /\ locked' = locked \ {target[k]}
  /\ lastSnapshot' = RecordSnapshot(k)
  /\ ThenDispatch(k)
  /\ UNCHANGED <<coStatus, prStatus, graph, elapsed, delivered, target, node, batch, round>>

DispatchSnapshot(k) ==
  /\ pc[k] = "deliver"
  /\ delivered' = [delivered EXCEPT ![target[k]] = Append(@, round[k])]
  /\ Goto(k, "idle")
  /\ target' = [target EXCEPT ![k] = None]
  /\ batch' = [batch EXCEPT ![k] = {}]
  /\ round' = [round EXCEPT ![k] = 0]
  /\ UNCHANGED <<table, graph, elapsed, node>>

\* The steps of a call that has begun.
Continue(k) ==
  /\ UNCHANGED high
  /\ \/ \E c \in Checkouts : CreateCheckoutNode(k, c)
     \/ TryRegisterCheckout(k)
     \/ RegisterProposal(k)
     \/ WriteSnapshot(k)
     \/ SnapshotRefused(k)
     \/ ReleaseSnapshotLock(k)
     \/ DispatchSnapshot(k)

\* The first step of each call: whether a caller ever takes one is its choice.
Call(k) ==
  /\ UNCHANGED high
  /\ \/ \E t \in Targets : SweepExpired(k, t)
     \/ \E c \in Checkouts, p \in Proposals : CreateProposalNode(k, c, p)
     \/ \E p \in Proposals : RecordFinalize(k, p)

Next ==
  \/ \E k \in Callers : Call(k) \/ Continue(k)
  \/ \E c \in Checkouts : TtlElapses(c)

Spec == Init /\ [][Next]_vars

\* A thread inside a call is scheduled again, and the clock advances; no
\* caller is obliged to make a further call.
FairSpec ==
  /\ Spec
  /\ \A k \in Callers : WF_vars(Continue(k))
  /\ \A c \in Checkouts : WF_vars(TtlElapses(c))

-----------------------------------------------------------------------------
TypeOK ==
  /\ high \in Sensitivity
  /\ coTarget \in [Checkouts -> Targets \cup {None}]
  /\ coStatus \in [Checkouts -> CheckoutStatus]
  /\ elapsed \subseteq Checkouts
  /\ prCheckout \in [Proposals -> Checkouts \cup {None}]
  /\ prStatus \in [Proposals -> ProposalStatus]
  /\ locked \subseteq Targets
  /\ snapshots \in [Targets -> Seq(SUBSET Proposals)]
  /\ lastSnapshot \in [Targets -> Nat]
  /\ delivered \in [Targets -> Seq(Nat)]
  /\ pc \in [Callers -> Steps]
  /\ target \in [Callers -> Targets \cup {None}]
  /\ node \in [Callers -> Checkouts \cup Proposals \cup {None}]
  /\ batch \in [Callers -> SUBSET Proposals]
  /\ round \in [Callers -> Nat]

\* Each id in flight belongs to the one call that created its node, is not yet
\* in the table, and its node already names where it is going; table entries
\* have nodes, and a proposal's checkout was registered before it.
CallsInFlight ==
  /\ \A k \in Callers :
       /\ pc[k] \notin {"idle", "draft"} => target[k] \in Targets
       /\ pc[k] = "register" => /\ node[k] \in Checkouts
                                /\ coTarget[node[k]] = target[k]
                                /\ coStatus[node[k]] = "Absent"
       /\ pc[k] = "draft" => /\ node[k] \in Proposals
                             /\ prCheckout[node[k]] \in Checkouts
                             /\ prStatus[node[k]] = "Absent"
  /\ \A j, k \in Callers :
       pc[j] = pc[k] /\ pc[k] \in {"register", "draft"} /\ node[j] = node[k] => j = k
  /\ \A c \in Checkouts : coStatus[c] # "Absent" => coTarget[c] \in Targets
  /\ \A p \in Proposals :
       /\ prStatus[p] # "Absent" => prCheckout[p] \in Checkouts
       /\ prCheckout[p] \in Checkouts => coStatus[prCheckout[p]] # "Absent"

(***************************************************************************)
(* While a target is under the SnapshotLock its round is closed: nobody    *)
(* holds an Open checkout on it and no draft can still be finalized, so    *)
(* the set of decisions cannot move under the thread writing the snapshot. *)
(***************************************************************************)
SnapshotLockClosesRound ==
  \A t \in locked :
    /\ OpenOn(t) = {}
    /\ \A p \in ProposalsOn(t) : prStatus[p] # "Draft"

\* A thread between taking and releasing the SnapshotLock of a target is the
\* only one there, and the lock is held for it: no round is written twice.
Writing(k) == pc[k] \in {"snapshot", "release"}
OneWriterPerRound ==
  \A j, k \in Callers :
    Writing(k) => /\ target[k] \in locked
                  /\ Writing(j) /\ target[j] = target[k] => j = k

\* The finalized proposals were read in an earlier critical section than the
\* one that writes them; they are still all the finalized proposals then.
SnapshotIsCurrent ==
  \A k \in Callers : pc[k] = "snapshot" => batch[k] = FinalizedOn(target[k])

\* From the finalize that closes a round until its SnapshotLock is released, the
\* round is closed and one thread writes what was decided in it.
RoundIsClosed == SnapshotLockClosesRound /\ OneWriterPerRound /\ SnapshotIsCurrent

\* A draft lives under an Open checkout, one at a time, and a checkout ends
\* Finalized exactly when one proposal under it was finalized.
Settled(c) == {p \in Proposals : prCheckout[p] = c /\ prStatus[p] = "Finalized"}
OneVoicePerCheckout ==
  \A c \in Checkouts :
    /\ coStatus[c] # "Open" => DraftsOf(c) = {}
    /\ \A p, q \in DraftsOf(c) \cup Settled(c) : p = q
    /\ coStatus[c] = "Finalized" <=> Settled(c) # {}

\* Each snapshot of a target holds everything the earlier ones held, and
\* something more: committed decisions are never lost from the record.
SnapshotsGrow ==
  \A t \in Targets : \A i, j \in 1..Len(snapshots[t]) :
    i < j => /\ snapshots[t][i] \subseteq snapshots[t][j]
             /\ snapshots[t][i] # snapshots[t][j]

\* Outside a SnapshotLock, last_snapshot names the newest snapshot node.
LastSnapshotIsNewest ==
  \A t \in Targets \ locked : lastSnapshot[t] = Len(snapshots[t])

\* The snapshot that last_snapshot names records everything decided so far.
SnapshotsAreTheRecord == SnapshotsGrow /\ LastSnapshotIsNewest

\* A closed checkout is never reopened or closed another way, and a proposal
\* that was finalized, superseded or dropped stays so.
OutcomesAreFinal ==
  [][/\ \A c \in Checkouts :
          coStatus[c] \in {"Finalized", "Expired"} => coStatus'[c] = coStatus[c]
     /\ \A p \in Proposals :
          prStatus[p] \in {"Finalized", "Superseded", "Dropped"}
            => prStatus'[p] = prStatus[p]]_vars

\* A SnapshotLock that was taken is released (new checkouts are not refused
\* for ever).
SnapshotLockReleased == \A t \in Targets : t \in locked ~> t \notin locked

\* It is in a Normal region, where the snapshot node is not refused.
ReleasedInNormal == ~ high => SnapshotLockReleased

\* Every decision that a snapshot recorded reaches the subscribers in a
\* dispatched snapshot.
Recorded(t, p) == \E i \in DOMAIN snapshots[t] : p \in snapshots[t][i]
Observed(t, p) == \E i \in DOMAIN delivered[t] : p \in snapshots[t][delivered[t][i]]
EveryDecisionDispatched ==
  \A t \in Targets, p \in Proposals : Recorded(t, p) ~> Observed(t, p)

(***************************************************************************)
(* In a Normal region the machine keeps the promise of ConsensusRound.  A  *)
(* round is published when its last checkout closes: the snapshot the lock *)
(* holder has still to write already counts.                               *)
(***************************************************************************)
Unwritten(t) == \E k \in Callers : pc[k] = "snapshot" /\ target[k] = t
Published ==
  [t \in Targets |->
     IF Unwritten(t) THEN Append(snapshots[t], FinalizedOn(t)) ELSE snapshots[t]]

Rounds == INSTANCE ConsensusRound WITH
  outstanding <- [t \in Targets |-> OpenOn(t)],
  used <- {c \in Checkouts : coStatus[c] # "Absent"},
  decided <- [t \in Targets |-> FinalizedOn(t)],
  rounds <- Published

ImplementsConsensusRound ==
  (~ high => Rounds!Init) /\ [][~ high => Rounds!Next]_(Rounds!vars)
=============================================================================
