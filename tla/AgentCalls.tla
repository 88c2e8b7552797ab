----------------------------- MODULE AgentCalls -----------------------------
(***************************************************************************)
(* What the comms and the work helpers share: two bridges (the comms one   *)
(* and the operational one, which also holds the work region), seen through *)
(* the bridge's methods, and agents that call the helpers concurrently.    *)
(*                                                                         *)
(* Each bridge method is one critical section of its FabricState lock; a   *)
(* helper is a sequence of them, with any other agent's in between.        *)
(*                                                                         *)
(* A node's fingerprint is its kind and its content (each kind renders its *)
(* own body).  Left out: the event and the checkout nodes the bridge writes *)
(* for itself, dispatch other than to the projection, signatures, wall     *)
(* clocks.                                                                 *)
(***************************************************************************)
EXTENDS Naturals, FiniteSets, Bags

CONSTANTS
  Agents,          \* threads that call the helpers
  Contents,        \* what a message, a thread or an intent says
  Immediate,       \* of them, those of Urgency::Immediate
  Menus,           \* the sets of helpers one behaviour may call
  MaxIds,          \* bound on the lineage ids
  MaxCalls,        \* bound on the calls
  MaxTerminations  \* bound on the P53 triggers

ASSUME AgentCallsAssumption ==
  /\ IsFiniteSet(Agents)
  /\ {MaxIds, MaxCalls, MaxTerminations} \subseteq Nat
  /\ MaxIds >= 3     \* a thread, an item and an intent are there

VARIABLES
  nodes,     \* of each bridge: id -> node
  edges,     \* of each bridge: the multiset of its edges
  gone,      \* of each bridge: terminated_nodes
  shut,      \* terminated_regions
  open,      \* checkouts registered, per target
  fresh,     \* the next lineage id
  inbox,     \* dispatched to the projection's subscription, not yet run
  call,      \* the call each agent is in
  returned,  \* history: what calls returned, and the panics
  calls, triggers, menu

graph == <<nodes, edges, gone, shut, open, fresh, inbox>>
bounds == <<calls, triggers, menu>>

Bridges == {"comms", "ops"}
Regions == {"comms", "ops", "work"}   \* the first two are the default regions
Ids == 1..MaxIds
Node == [kind : {"thread", "item", "message", "decision", "marker", "companion",
                 "intent", "claim", "evidence"},
         content : Contents,
         about : 0..MaxIds,    \* what it names: a target, a message, an intent
         flagged : BOOLEAN]    \* the degraded-fallback flag
Edge == [from : Ids, to : Ids, kind : {"Thread", "DerivedFrom", "Fulfills", "SplitFrom",
                                       "ConvergedWith"}]
Idle == [op |-> "idle", at |-> "idle"]

\* A conversation thread, a Semantic node to decide about and an intent are there.
Thread == 1
Item == 2
Work == 3

Kind(k, c) == [kind |-> k, content |-> c, about |-> 0, flagged |-> FALSE]
About(k, c, i) == [Kind(k, c) EXCEPT !.about = i]

Init ==
  /\ \E c \in Contents :
       nodes = [b \in Bridges |->
                  IF b = "comms"
                  THEN [i \in {Thread, Item} |-> Kind(IF i = Thread THEN "thread" ELSE "item", c)]
                  ELSE [i \in {Work} |-> Kind("intent", c)]]
  /\ edges = [b \in Bridges |-> EmptyBag]
  /\ gone = [b \in Bridges |-> {}]
  /\ shut = {}
  /\ open = [i \in Ids |-> 0]
  /\ fresh = 4
  /\ inbox = EmptyBag
  /\ call = [a \in Agents |-> Idle]
  /\ returned = {}
  /\ calls = 0 /\ triggers = 0 /\ menu \in Menus

\* What HashMap's insert does to a map.
Put(map, k, v) == [x \in DOMAIN map \cup {k} |-> IF x = k THEN v ELSE map[x]]

Fallback(n) == [n EXCEPT !.flagged = TRUE]

(***************************************************************************)
(* The bridge's methods.                                                   *)
(***************************************************************************)
In(b) == DOMAIN nodes[b]
OfKind(b, k) == {i \in In(b) : nodes[b][i].kind = k}

\* What the projection is subscribed to: plain messages.
IsMessage(n) == n.kind = "message" /\ ~ n.flagged

\* create and create_in of a node (its id made by IntentNode::new, so one that
\* is copied keeps it), when region r is open; subscribers are told afterwards.
Create(b, r, i, n) ==
  /\ r \notin shut
  /\ nodes' = [nodes EXCEPT ![b] = Put(@, i, n)]
  /\ inbox' = IF b = "comms" /\ IsMessage(n)
              THEN inbox (+) SetToBag({[id |-> i, content |-> n.content]}) ELSE inbox
  /\ fresh' = IF i = fresh THEN fresh + 1 ELSE fresh
  /\ UNCHANGED <<edges, gone, shut, open>>

CanLink(b, i, j) == i # j /\ {i, j} \subseteq In(b)

AddEdge(b, i, j, k) ==
  /\ edges' = [edges EXCEPT ![b] = @ (+) SetToBag({[from |-> i, to |-> j, kind |-> k]})]
  /\ UNCHANGED <<nodes, gone, shut, open, fresh, inbox>>

\* relate refuses once the default region is terminated; its callers ignore errors.
Relate(b, i, j, k) ==
  IF CanLink(b, i, j) /\ "comms" \notin shut THEN AddEdge(b, i, j, k) ELSE UNCHANGED graph

Linked(b, i, j, k) == BagIn([from |-> i, to |-> j, kind |-> k], edges[b])

\* find_lineage_by_fingerprint: the first match in the order of a HashMap.
Matches(b, k, c) == {i \in OfKind(b, k) : nodes[b][i].content = c}

\* mutant: edges are only followed forward
ReachedForward(b, i) == {e.to : e \in {e \in DOMAIN edges[b] : e.kind = "Thread" /\ e.from = i}}

\* traverse: the ids reachable over Thread edges, whichever way they point.
Reached(b, i) ==
  LET tied == {e \in DOMAIN edges[b] : e.kind = "Thread"}
      around(s) == s \cup {e.to : e \in {e \in tied : e.from \in s}}
                     \cup {e.from : e \in {e \in tied : e.to \in s}}
      step[n \in Nat] == IF n = 0 THEN {i} ELSE around(step[n - 1])
  IN step[Cardinality(In(b))] \ {i}

(***************************************************************************)
(* Calls, and the triggers of P53 that run beside them.                    *)
(***************************************************************************)
Starts(a, op) ==
  /\ call[a] = Idle /\ op \in menu
  /\ calls < MaxCalls /\ calls' = calls + 1
  /\ UNCHANGED <<triggers, menu>>

At(a, op, step) == call[a].op = op /\ call[a].at = step /\ UNCHANGED bounds
Set(a, c) == call' = [call EXCEPT ![a] = c]
Goto(a, step) == Set(a, [call[a] EXCEPT !.at = step])
Stay == UNCHANGED returned

Return(a, result) ==
  /\ Set(a, Idle)
  /\ returned' = returned \cup {[op |-> call[a].op, agent |-> a, result |-> result]}
Refused(a) == Return(a, [ok |-> FALSE]) /\ UNCHANGED graph

\* The call writes a fresh node; its error ends the call (the ? operator).
Writes(a, b, r, n, goes) ==
  \/ /\ fresh <= MaxIds
     /\ Create(b, r, fresh, n) /\ goes
  \/ r \in shut /\ Refused(a)

\* mutant: the edges that lead to the node stay
FadesOutgoing(b, i) ==
  /\ nodes' = [nodes EXCEPT ![b] = [j \in DOMAIN @ \ {i} |-> @[j]]]
  /\ edges' = [edges EXCEPT ![b] = [e \in {e \in DOMAIN @ : e.from # i} |-> @[e]]]

\* fade_node
Fades(b, i) ==
  /\ nodes' = [nodes EXCEPT ![b] = [j \in DOMAIN @ \ {i} |-> @[j]]]
  /\ edges' = [edges EXCEPT ![b] = [e \in {e \in DOMAIN @ : i \notin {e.from, e.to}} |-> @[e]]]

TerminateNode(b, i) ==
  /\ triggers < MaxTerminations /\ triggers' = triggers + 1
  /\ i \in In(b) \ gone[b]
  /\ Fades(b, i)
  /\ gone' = [gone EXCEPT ![b] = @ \cup {i}]
  /\ UNCHANGED <<shut, open, fresh, inbox, call, returned, calls, menu>>

TerminateRegion(r) ==
  /\ triggers < MaxTerminations /\ triggers' = triggers + 1
  /\ r \notin shut /\ shut' = shut \cup {r}
  /\ UNCHANGED <<nodes, edges, gone, open, fresh, inbox, call, returned, calls, menu>>
=============================================================================
