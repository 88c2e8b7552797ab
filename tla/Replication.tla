----------------------------- MODULE Replication -----------------------------
(***************************************************************************)
(* Replicas of a fabric that gossip: DistributedFabric with its vector     *)
(* clock, GossipState and conflict log, exchanging NeedNodes and NodeData  *)
(* messages over LocalTransport, which queues them per recipient.          *)
(*                                                                         *)
(* A copy of a node is its version, the write that gave it its text, and   *)
(* whether a hard constraint is violated.  What a CRDT merge averages or   *)
(* unites is left out: the merged node keeps the local version and text.   *)
(***************************************************************************)
EXTENDS Naturals, Sequences

CONSTANTS
  Replicas,
  Nodes,      \* lineage ids
  MaxWrites,  \* bound on the local creations and mutations of a replica
  MaxClock,   \* bound on a replica's own counter
  MaxInbox,   \* bound on the messages queued for a replica
  MayViolate  \* a mutation may violate a hard constraint

ASSUME ReplicationAssumption ==
  /\ {MaxWrites, MaxClock, MaxInbox} \subseteq Nat
  /\ MayViolate \in BOOLEAN

VARIABLES
  copy,    \* the nodes of each replica's fabric
  clock,   \* the vector clock of each replica
  known,   \* GossipState.known: version and clock recorded for each node
  log,     \* conflict_log
  inbox,   \* messages queued for each replica
  writes   \* creations and mutations made by each replica

vars == <<copy, clock, known, log, inbox, writes>>

Clocks == [Replicas -> Nat]
Copies == [version : Nat, text : Replicas \X Nat, hard : BOOLEAN]
Entries == [version : Nat, clock : Clocks]
Absent == [version |-> 0]  \* no node, no entry

Has(r, n) == copy[r][n] # Absent

(***************************************************************************)
(* Vector clocks.                                                          *)
(***************************************************************************)
Tick(c, r) == [c EXCEPT ![r] = @ + 1]
Merge(c, d) == [r \in Replicas |-> IF c[r] < d[r] THEN d[r] ELSE c[r]]
Leq(c, d) == \A r \in Replicas : c[r] <= d[r]
HappenedBefore(c, d) == Leq(c, d) /\ c # d
Concurrent(c, d) == ~ Leq(c, d) /\ ~ Leq(d, c)

Init ==
  /\ copy = [r \in Replicas |-> [n \in Nodes |-> Absent]]
  /\ clock = [r \in Replicas |-> [s \in Replicas |-> 0]]
  /\ known = [r \in Replicas |-> [n \in Nodes |-> Absent]]
  /\ log = [r \in Replicas |-> <<>>]
  /\ inbox = [r \in Replicas |-> <<>>]
  /\ writes = [r \in Replicas |-> 0]

Store(r, n, c) == copy' = [copy EXCEPT ![r][n] = c]

Record(r, n, version, c) ==
  known' = [known EXCEPT ![r][n] = [version |-> version, clock |-> c]]

(***************************************************************************)
(* Local writes: add_node, and a mutation followed by the tick and record  *)
(* that its caller makes.                                                  *)
(***************************************************************************)
Write(r, n, next) ==
  /\ writes[r] < MaxWrites
  /\ clock[r][r] < MaxClock
  /\ writes' = [writes EXCEPT ![r] = @ + 1]
  /\ clock' = [clock EXCEPT ![r] = Tick(@, r)]
  /\ Store(r, n, next)
  /\ Record(r, n, next.version, clock'[r])
  /\ UNCHANGED <<log, inbox>>

Text(r) == <<r, writes[r] + 1>>

AddNode(r, n) ==
  /\ \A s \in Replicas : ~ Has(s, n)
  /\ Write(r, n, [version |-> 0, text |-> Text(r), hard |-> FALSE])

MutateNode(r, n) ==
  /\ Has(r, n)
  /\ \E violated \in {FALSE, MayViolate} :
       Write(r, n, [version |-> copy[r][n].version + 1, text |-> Text(r), hard |-> violated])

(***************************************************************************)
(* Gossip: a replica compares another's digest and asks for a node that is *)
(* newer there; the other packages it with its whole clock.  A digest that *)
(* waited before it was compared asks for no more than a fresh one; a      *)
(* request for several nodes is as many requests in a row.                 *)
(***************************************************************************)
Send(to, box, msg) ==
  /\ Len(box[to]) < MaxInbox
  /\ inbox' = [box EXCEPT ![to] = Append(@, msg)]

Needs(r, s, n) ==
  /\ known[s][n] # Absent
  /\ \/ known[r][n] = Absent
     \/ known[s][n].version > known[r][n].version

Request(r, s, n) ==
  /\ Needs(r, s, n)
  /\ Send(s, inbox, [kind |-> "need", from |-> r, node |-> n])
  /\ UNCHANGED <<copy, clock, known, log, writes>>

Rest(r) == [inbox EXCEPT ![r] = Tail(@)]
Front(r, kind) == inbox[r] # <<>> /\ Head(inbox[r]).kind = kind

PackageNode(r) ==
  LET msg == Head(inbox[r])
  IN
  /\ Front(r, "need")
  /\ Send(msg.from, Rest(r),
          [kind |-> "node", node |-> msg.node, copy |-> copy[r][msg.node], clock |-> clock[r]])
  /\ UNCHANGED <<copy, clock, known, log, writes>>

(***************************************************************************)
(* receive_node: merge and tick the clock, then compare the clock recorded *)
(* for the local node with the clock of the transfer.                      *)
(***************************************************************************)
MergeOnly(r, c) == Merge(clock[r], c)          \* mutant: the receipt is no event
TickOnly(r, c) == Tick(clock[r], r)            \* mutant: the sender is forgotten
Join(r, c) == Tick(Merge(clock[r], c), r)

Take(r) ==
  /\ Front(r, "node")
  /\ clock[r][r] < MaxClock
  /\ clock' = [clock EXCEPT ![r] = Join(r, Head(inbox[r]).clock)]
  /\ inbox' = Rest(r)
  /\ UNCHANGED writes

\* The clock recorded for a node, or the empty clock.
LocalClock(r, n) ==
  IF known[r][n] = Absent THEN [s \in Replicas |-> 0] ELSE known[r][n].clock

\* Accepted and Updated record the clock of the transfer, not the merged one.
Accept(r) ==
  LET msg == Head(inbox[r])
  IN
  /\ Take(r)
  /\ Has(r, msg.node) => HappenedBefore(LocalClock(r, msg.node), msg.clock)
  /\ Store(r, msg.node, msg.copy)
  /\ Record(r, msg.node, msg.copy.version, msg.clock)
  /\ UNCHANGED log

AlreadyHave(r) ==
  LET msg == Head(inbox[r])
  IN
  /\ Take(r)
  /\ Has(r, msg.node)
  /\ Leq(msg.clock, LocalClock(r, msg.node))
  /\ UNCHANGED <<copy, known, log>>

Strategy(local, remote) ==
  IF local.hard \/ remote.hard THEN "BranchAndSurface"
  ELSE IF local.version = remote.version THEN "CrdtMerge"
  ELSE "LastWriterWins"

RemoteWins(local, remote) == remote             \* mutant: versions not compared
Winner(local, remote) == IF remote.version > local.version THEN remote ELSE local

\* branch_b has the lineage id of branch_a: adding it replaces the local node,
\* and nothing is recorded for it.
Conflict(r) ==
  LET msg == Head(inbox[r])
      n == msg.node
      local == copy[r][n]
      strategy == Strategy(local, msg.copy)
      winner == Winner(local, msg.copy)
  IN
  /\ Take(r)
  /\ Has(r, n)
  /\ Concurrent(LocalClock(r, n), msg.clock)
  /\ log' = [log EXCEPT ![r] = Append(@, [node |-> n, strategy |-> strategy])]
  /\ IF strategy = "BranchAndSurface"
     THEN Store(r, n, msg.copy) /\ UNCHANGED known
     ELSE Store(r, n, winner) /\ Record(r, n, winner.version, clock'[r])

-----------------------------------------------------------------------------
Gossip(r) ==
  \/ \E s \in Replicas, n \in Nodes : Request(r, s, n)
  \/ PackageNode(r) \/ Accept(r) \/ AlreadyHave(r) \/ Conflict(r)

Next ==
  \E r \in Replicas :
    \/ \E n \in Nodes : AddNode(r, n) \/ MutateNode(r, n)
    \/ Gossip(r)

Spec == Init /\ [][Next]_vars

\* Replicas keep gossiping with each other about every node.
FairSpec ==
  /\ Spec
  /\ \A r \in Replicas : WF_vars(PackageNode(r) \/ Accept(r) \/ AlreadyHave(r) \/ Conflict(r))
  /\ \A r, s \in Replicas, n \in Nodes : WF_vars(Request(r, s, n))

-----------------------------------------------------------------------------
Messages ==
  [kind : {"need"}, from : Replicas, node : Nodes]
    \cup [kind : {"node"}, node : Nodes, copy : Copies, clock : Clocks]
Resolutions ==
  [node : Nodes, strategy : {"BranchAndSurface", "CrdtMerge", "LastWriterWins"}]
TypeOK ==
  /\ copy \in [Replicas -> [Nodes -> Copies \cup {Absent}]]
  /\ clock \in [Replicas -> Clocks]
  /\ known \in [Replicas -> [Nodes -> Entries \cup {Absent}]]
  /\ log \in [Replicas -> Seq(Resolutions)]
  /\ inbox \in [Replicas -> Seq(Messages)]
  /\ writes \in [Replicas -> Nat]
  /\ \A r \in Replicas, n \in Nodes : Has(r, n) <=> known[r][n] # Absent

\* Nobody has heard of an event of r that r has not made, in a clock or in a
\* message; and a replica's clock covers what it recorded of its nodes, so that
\* its next write of one is later than the copy it replaces.
ClocksTruthful ==
  /\ \A r, s \in Replicas : clock[s][r] <= clock[r][r]
  /\ \A r, s \in Replicas : \A i \in DOMAIN inbox[s] :
       inbox[s][i].kind = "node" => inbox[s][i].clock[r] <= clock[r][r]
  /\ \A r \in Replicas, n \in Nodes : Has(r, n) => Leq(known[r][n].clock, clock[r])

Branched(r, n) ==
  \E i \in DOMAIN log[r] : log[r][i] = [node |-> n, strategy |-> "BranchAndSurface"]

\* A digest advertises the version that a request would be answered with, but
\* for nodes that a branch was surfaced on.
DigestTruthful ==
  \A r \in Replicas, n \in Nodes :
    Has(r, n) /\ ~ Branched(r, n) => known[r][n].version = copy[r][n].version

\* What a replica says of its events and of its copies is true.
VersionsTruthful == ClocksTruthful /\ DigestTruthful

\* A recorded clock identifies what was recorded: replicas that recorded the
\* same clock for a node have the same copy of it (branches apart), so that the
\* answer AlreadyHave to an equal clock is true.
ClockIdentifiesCopy ==
  \A r, s \in Replicas, n \in Nodes :
    /\ Has(r, n) /\ Has(s, n) /\ known[r][n].clock = known[s][n].clock
    /\ ~ Branched(r, n) /\ ~ Branched(s, n)
    => copy[r][n] = copy[s][n]

\* The version of a copy goes back only to a transfer whose clock is later, or
\* to a surfaced branch: resolving a conflict keeps the newest version.
RegressIsExplained ==
  [][\A r \in Replicas, n \in Nodes :
       Has(r, n) /\ copy'[r][n].version < copy[r][n].version =>
         \/ HappenedBefore(known[r][n].clock, known'[r][n].clock) /\ log'[r] = log[r]
         \/ \E i \in DOMAIN log'[r] \ DOMAIN log[r] :
              log'[r][i].strategy = "BranchAndSurface"]_vars

(***************************************************************************)
(* What the documents say, and the code does not do: replicas that         *)
(* exchange digests and the nodes they miss converge (said of fabrics      *)
(* whose bounds are not reached).                                          *)
(***************************************************************************)
SameCopies == \A r, s \in Replicas : copy[r] = copy[s]
AtBound == \E r \in Replicas : clock[r][r] = MaxClock \/ Len(inbox[r]) = MaxInbox
Converges == <>[]SameCopies \/ <>AtBound
=============================================================================
