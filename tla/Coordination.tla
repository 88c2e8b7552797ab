---------------------------- MODULE Coordination ----------------------------
(***************************************************************************)
(* Agents that talk (CommsFabric) and work (WorkFabric) on the same two    *)
(* bridges, while nodes and regions are terminated under them.             *)
(***************************************************************************)
EXTENDS CommsFabric, WorkFabric

vars == <<graph, bounds, call, returned, commsVars, replayed>>

Start == Init /\ CommsInit /\ WorkInit

Spec ==
  /\ Start
  /\ [][ \/ CommsNext /\ UNCHANGED replayed
         \/ WorkNext /\ UNCHANGED commsVars
         \/ /\ \/ \E b \in Bridges, i \in Ids : TerminateNode(b, i)
               \/ \E r \in Regions : TerminateRegion(r)
            /\ UNCHANGED <<commsVars, replayed>> ]_vars

InFlight(op) == {a \in Agents : call[a].op = op}

TypeOK ==
  /\ \A b \in Bridges : In(b) \subseteq Ids /\ \A i \in In(b) : nodes[b][i] \in Node
  /\ \A b \in Bridges : IsABag(edges[b]) /\ BagToSet(edges[b]) \subseteq Edge
  /\ \A b \in Bridges : gone[b] \subseteq Ids
  /\ shut \subseteq Regions
  /\ fresh \in 4..(MaxIds + 1)
  /\ \A a \in Agents : known[a] \subseteq Ids /\ replayed[a] \subseteq Ids

(***************************************************************************)
(* Comms.                                                                  *)
(***************************************************************************)
\* An id the caller will skip in every later replay did reach the comms bridge:
\* no error on the way marks a message as replayed that never was.
ReplayedArrived ==
  \A a \in Agents : known[a] \subseteq In("comms") \cup gone["comms"]

\* How often a message was taken, each copy that still waits included.
Copies(x, bag) == IF BagIn(x, bag) THEN bag[x] ELSE 0
Waiting(i) ==
  Cardinality(UNION {{m} \X (1..inbox[m]) : m \in {m \in BagToSet(inbox) : m.id = i}})
Deliveries(i) == Copies(i, held) + Copies(i, delivered) + Waiting(i)

\* A caller that keeps its set and saw no error makes the projection take a
\* message at most once: a second time needs another replayer, or a replay
\* that stopped half way.
DeliveredOnce ==
  \A i \in Ids :
    Deliveries(i) > 1 =>
      \/ Cardinality({a \in Agents : i \in known[a] \/ call[a].op = "replay"}) > 1
      \/ \E r \in returned : r.op = "replay" /\ ~ r.result.ok

\* A replay loses nothing and repeats nothing.
ReplaySound == ReplayedArrived /\ DeliveredOnce

Proposed(r) == r.op = "decision" /\ "id" \in DOMAIN r.result
Opened(r) == Proposed(r) /\ r.result.checkout

\* A decision sees a collision: where an earlier one (of any agent, returned
\* before this one wrote its proposal) opened its checkout, this one returns a
\* marker, which names the node and hangs on the thread of its proposal, unless
\* something was terminated since (decision.rs:3-9).  Decisions that overlap may
\* all count before any registers, and then leave no marker.  Nothing here closes
\* a checkout: that is SemanticEdit's subject.
CollisionsAreMarked ==
  \A r, s \in returned : Opened(r) /\ Proposed(s) /\ r.result.until <= s.result.id =>
    LET m == s.result.marker
        t == s.result.thread
    IN /\ m # 0
       /\ m \in gone["comms"] \/ (m \in In("comms") /\ nodes["comms"][m] = MarkerNode(Item))
       /\ t # 0 => \/ "comms" \in shut \/ {m, t} \cap gone["comms"] # {}
                  \/ m \in Reached("comms", t)

\* What a helper returned with Ok is attached: a decision to the thread it
\* found, a companion to its message, unless one end was terminated or the
\* region was closed before the edge (whose error is ignored).
ReturnedIsAttached ==
  \A r \in returned : LET x == r.result IN "id" \in DOMAIN x =>
    /\ "thread" \in DOMAIN x /\ x.thread # 0 =>
         \/ "comms" \in shut \/ {x.id, x.thread} \cap gone["comms"] # {}
         \/ x.id \in Reached("comms", x.thread)
    /\ "companion" \in DOMAIN x =>
         \/ "comms" \in shut \/ {x.id, x.companion} \cap gone["comms"] # {}
         \/ Linked("comms", x.companion, x.id, "DerivedFrom")

\* "just-created message must have identity" (decision.rs:144, operator.rs:101)
\* panics only when the message was terminated in between.
PanicNeedsTermination ==
  \A r \in returned : "panicked" \in DOMAIN r.result => r.result.panicked \in gone["comms"]

\* An audit of a thread reports the coordination it carried: it comes back empty
\* only when each decision returned before it and on the thread was terminated.
AuditSeesDecisions ==
  \A r \in returned : r.op = "audit" /\ ~ r.result.anomaly => r.result.standing \subseteq gone["comms"]

\* What a decision's and an operator's submission return exists, is attached and
\* is found.
DecisionsSound == ReturnedIsAttached /\ PanicNeedsTermination /\ AuditSeesDecisions

\* A hand-off check over an edge that stood from its first lookup to its answer
\* fails only when something was terminated meanwhile or when another node has
\* one of the two fingerprints: the lookups take any match.
CheckFailsByTwin ==
  \A r \in returned : LET x == r.result IN
    "check" \in DOMAIN x /\ x.check = "EdgeExists" /\ ~ x.pass /\ x.kept =>
    \/ triggers > 0
    \/ Cardinality(OfKind("comms", "companion")) > 1
    \/ Cardinality(OfKind("comms", "message")) > 1

(***************************************************************************)
(* Work.                                                                   *)
(***************************************************************************)
\* Convergence is mutual: "neither is primary".  Only a merge between its two
\* edges shows one direction.
MergeIsMutual ==
  \A i, j \in Ids :
    Linked("ops", i, j, "ConvergedWith") =>
      \/ Linked("ops", j, i, "ConvergedWith")
      \/ \E a \in InFlight("merge") : call[a].from = j /\ call[a].to = i

\* No evidence is silently detached: unflagged evidence has its edge, or its
\* submission is not over, or what it was for is terminated.  Flagged evidence
\* is what a replay looks for, linked already or not.
NoSilentOrphan ==
  \A e \in OfKind("ops", "evidence") :
    \/ \E i \in In("ops") : Linked("ops", e, i, "Fulfills")
    \/ nodes["ops"][e].flagged
    \/ nodes["ops"][e].about \in gone["ops"]
    \/ \E a \in InFlight("evidence") : call[a].id = e

\* The copies of the edges that fulfill with e.
FulfillsOf(e) ==
  UNION {{x} \X (1..edges["ops"][x]) :
           x \in {x \in DOMAIN edges["ops"] : x.from = e /\ x.kind = "Fulfills"}}

\* Evidence is linked once by its submission or once by each agent that
\* replayed it, however often the agent replays.
LinkedOncePerReplayer ==
  \A e \in OfKind("ops", "evidence") :
    Cardinality(FulfillsOf(e)) <=
      IF nodes["ops"][e].flagged
      THEN Cardinality({a \in Agents : \/ e \in replayed[a]
                                       \/ call[a].op = "relink" /\ e \in call[a].done})
      ELSE 1

\* Evidence hangs on its intent, once.
EvidenceLinked == NoSilentOrphan /\ LinkedOncePerReplayer

\* An intent is reported as unclaimed although a claim on it was there before
\* the query only if an intent of the same content is scanned too: the claims
\* of both are filed together and one of them takes all.
UnclaimedHasTwin ==
  \A a \in InFlight("query") :
    \A row \in call[a].rows :
      /\ row.status \in {"Orphaned", "Unstarted"}
      /\ \E i \in ClaimsOn(call[a].intents[row.id]) : i < call[a].since
      => \E j \in DOMAIN call[a].intents \ {row.id} :
           call[a].intents[j] = call[a].intents[row.id]
=============================================================================
