----------------------------- MODULE CommsFabric -----------------------------
(***************************************************************************)
(* The comms helpers over the bridges: a message submitted or, when comms  *)
(* is degraded, kept as a flagged node of the operational bridge; the      *)
(* replay of such nodes; decision proposals with their conflict markers    *)
(* and checkouts; an operator's message with its companion; and the        *)
(* projection, which holds a message back in do-not-disturb hours.         *)
(* A decision affects one node, a message is urgent or not by its content. *)
(***************************************************************************)
EXTENDS AgentCalls

VARIABLES
  known,      \* already_replayed, as each agent keeps it
  held,       \* messages the projection holds, and
  delivered   \*   those it passed to its sink

projection == <<held, delivered>>
commsVars == <<known, held, delivered>>

AnyContent == CHOOSE c \in Contents : TRUE

\* What the helpers write: CommsMessage, OperatorIntent and ConflictDetected
\* rendered as nodes (a companion names its message, a marker its target).
MessageNode(c) == Kind("message", c)
CompanionNode(message) == About("companion", AnyContent, message)
MarkerNode(target) == About("marker", AnyContent, target)

CommsInit ==
  /\ known = [a \in Agents |-> {}]
  /\ held = EmptyBag
  /\ delivered = EmptyBag

(***************************************************************************)
(* Degraded mode.                                                          *)
(***************************************************************************)
\* submit_or_fallback asks for the region first and writes afterwards.
SubmitMessage(a, c, degraded) ==
  /\ Starts(a, "message")
  /\ Set(a, [op |-> "message", at |-> "write", content |-> c,
             fallback |-> degraded \/ "comms" \in shut])
  /\ UNCHANGED <<graph, returned, commsVars>>

WriteMessage(a) ==
  /\ At(a, "message", "write")
  /\ LET n == MessageNode(call[a].content) IN
     IF call[a].fallback
     THEN Writes(a, "ops", "ops", Fallback(n), Return(a, [ok |-> TRUE, id |-> fresh]))
     ELSE Writes(a, "comms", "comms", n, Return(a, [ok |-> TRUE, id |-> fresh]))
  /\ UNCHANGED commsVars

\* mutant: the caller's set is not looked at
EveryFallback(a) == {i \in OfKind("ops", "message") : nodes["ops"][i].flagged}

Candidates(a) == {i \in OfKind("ops", "message") : nodes["ops"][i].flagged} \ known[a]

\* replay_degraded_into_comms clones its candidates, then writes them one by one.
ReplayMessages(a) ==
  /\ Starts(a, "replay")
  /\ Set(a, [op |-> "replay", at |-> "next", done |-> {},
             todo |-> {<<i, nodes["ops"][i]>> : i \in Candidates(a)}])
  /\ UNCHANGED <<graph, returned, commsVars>>

\* An error loses the list of those already written.
ReplayStops(a, i) == UNCHANGED known

ReplayNext(a) ==
  /\ At(a, "replay", "next")
  /\ \/ \E x \in call[a].todo :
          \/ /\ Create("comms", "comms", x[1], [x[2] EXCEPT !.flagged = FALSE])
             /\ Set(a, [call[a] EXCEPT !.todo = @ \ {x}, !.done = @ \cup {x[1]}])
             /\ UNCHANGED <<returned, known>>
          \/ "comms" \in shut /\ Refused(a) /\ ReplayStops(a, x[1])
     \/ /\ call[a].todo = {}
        /\ known' = [known EXCEPT ![a] = @ \cup call[a].done]
        /\ Return(a, [ok |-> TRUE])
        /\ UNCHANGED graph
  /\ UNCHANGED projection

(***************************************************************************)
(* Messages that need their own identity once written: decision proposals  *)
(* and an operator's messages.  node_identity(..).expect panics when the   *)
(* node is gone again.                                                     *)
(***************************************************************************)
Decide(a, threaded) ==
  /\ Starts(a, "decision")
  /\ Writes(a, "comms", "comms", About("decision", AnyContent, Item),
            /\ Set(a, [op |-> "decision", at |-> "identify", id |-> fresh, seen |-> 0,
                       threaded |-> threaded, thread |-> 0, marker |-> 0])
            /\ Stay)
  /\ UNCHANGED commsVars

SubmitAsOperator(a) ==
  /\ Starts(a, "operator")
  /\ Writes(a, "comms", "comms", MessageNode(AnyContent),
            /\ Set(a, [op |-> "operator", at |-> "identify", id |-> fresh, companion |-> 0])
            /\ Stay)
  /\ UNCHANGED commsVars

HasIdentity(i) == i \in In("comms")

Identify(a) ==
  /\ \/ At(a, "decision", "identify")
     \/ At(a, "operator", "identify")
  /\ IF HasIdentity(call[a].id)
     THEN /\ Goto(a, IF call[a].op = "operator" THEN "companion"
                     ELSE IF call[a].threaded THEN "thread" ELSE "count")
          /\ Stay
     ELSE Return(a, [panicked |-> call[a].id])
  /\ UNCHANGED <<graph, commsVars>>

FindThread(a) ==
  /\ At(a, "decision", "thread")
  /\ \/ \E th \in OfKind("comms", "thread") :
          Set(a, [call[a] EXCEPT !.at = "attach", !.thread = th])
     \/ OfKind("comms", "thread") = {} /\ Goto(a, "count")
  /\ Stay /\ UNCHANGED <<graph, commsVars>>

Attach(a) ==
  /\ At(a, "decision", "attach")
  /\ Relate("comms", call[a].id, call[a].thread, "Thread")
  /\ Goto(a, "count") /\ Stay /\ UNCHANGED commsVars

\* mutant: one open checkout is not enough
ManyOpen == IF open[Item] > 1 THEN open[Item] ELSE 0

OpenCheckoutCount == open[Item]

CountCheckouts(a) ==
  /\ At(a, "decision", "count")
  /\ Set(a, [call[a] EXCEPT !.seen = OpenCheckoutCount,
                            !.at = IF OpenCheckoutCount > 0 THEN "mark" ELSE "validate"])
  /\ Stay /\ UNCHANGED <<graph, commsVars>>

MarkConflict(a) ==
  /\ At(a, "decision", "mark")
  /\ Writes(a, "comms", "comms", MarkerNode(Item),
            /\ Set(a, [call[a] EXCEPT !.marker = fresh,
                                      !.at = IF call[a].thread = 0 THEN "validate" ELSE "tie"])
            /\ Stay)
  /\ UNCHANGED commsVars

TieMarker(a) ==
  /\ At(a, "decision", "tie")
  /\ Relate("comms", call[a].marker, call[a].thread, "Thread")
  /\ Goto(a, "validate") /\ Stay /\ UNCHANGED commsVars

\* DecisionSubmission: the message, its thread, its conflict marker (0 is none)
\* and whether its checkout opened; history: the ids given out until it returned.
Submission(a, opened) ==
  [ok |-> TRUE, id |-> call[a].id, thread |-> call[a].thread, marker |-> call[a].marker,
   checkout |-> opened, until |-> fresh]

\* checkout: the target is looked up, and the checkout registered later; a
\* checkout that fails is skipped.
ValidateCheckout(a) ==
  /\ At(a, "decision", "validate")
  /\ IF Item \in In("comms") THEN Goto(a, "register") /\ Stay
     ELSE Return(a, Submission(a, FALSE))
  /\ UNCHANGED <<graph, commsVars>>

RegisterCheckout(a) ==
  /\ At(a, "decision", "register")
  /\ open' = [open EXCEPT ![Item] = @ + 1]
  /\ Return(a, Submission(a, TRUE))
  /\ UNCHANGED <<nodes, edges, gone, shut, fresh, inbox, commsVars>>

WriteCompanion(a) ==
  /\ At(a, "operator", "companion")
  /\ Writes(a, "comms", "comms", CompanionNode(call[a].id),
            Set(a, [call[a] EXCEPT !.at = "tie", !.companion = fresh]) /\ Stay)
  /\ UNCHANGED commsVars

TieCompanion(a) ==
  /\ At(a, "operator", "tie")
  /\ Relate("comms", call[a].companion, call[a].id, "DerivedFrom")
  /\ Return(a, [ok |-> TRUE, id |-> call[a].id, companion |-> call[a].companion])
  /\ UNCHANGED commsVars

(***************************************************************************)
(* A hand-off's success checks, here of the claim that an operator's        *)
(* message has its companion.  evaluate enters the fabric once for each    *)
(* fingerprint it looks up (any node that has it) and once for the answer. *)
(***************************************************************************)
Checks == {"NodeExists", "NodeCountInRegion", "ContentMatches", "EdgeExists"}

CompanionEdges == {e \in BagToSet(edges["comms"]) : e.kind = "DerivedFrom"}

Evaluate(a, check) ==
  /\ Starts(a, "check")
  /\ Set(a, [op |-> "check", at |-> IF check \in {"ContentMatches", "EdgeExists"} THEN "find"
                                    ELSE "answer",
             check |-> check, from |-> 0, to |-> 0, there |-> CompanionEdges])
  /\ UNCHANGED <<graph, returned, commsVars>>

Answer(a, pass) == Return(a, [check |-> call[a].check, pass |-> pass,
                              kept |-> call[a].there \cap CompanionEdges # {}])

FindFrom(a) ==
  /\ At(a, "check", "find")
  /\ LET found == Matches("comms", "companion", AnyContent) IN
     \/ \E i \in found :
          /\ Set(a, [call[a] EXCEPT !.from = i,
                                    !.at = IF call[a].check = "EdgeExists" THEN "to" ELSE "answer"])
          /\ Stay
     \/ found = {} /\ Answer(a, FALSE)
  /\ UNCHANGED <<graph, commsVars>>

FindTo(a) ==
  /\ At(a, "check", "to")
  /\ LET found == Matches("comms", "message", AnyContent) IN
     \/ \E i \in found : Set(a, [call[a] EXCEPT !.to = i, !.at = "answer"]) /\ Stay
     \/ found = {} /\ Answer(a, FALSE)
  /\ UNCHANGED <<graph, commsVars>>

\* mutant: the edge is looked for the wrong way round
LinkedBack(i, j) == Linked("comms", j, i, "DerivedFrom")

EdgeThere(i, j) == Linked("comms", i, j, "DerivedFrom")

AnswerCheck(a) ==
  /\ At(a, "check", "answer")
  /\ Answer(a, CASE call[a].check = "NodeExists" -> OfKind("comms", "companion") # {}
                 [] call[a].check = "NodeCountInRegion" -> In("comms") # {}
                 [] call[a].check = "ContentMatches" -> call[a].from \in In("comms")
                 [] OTHER -> EdgeThere(call[a].from, call[a].to))
  /\ UNCHANGED <<graph, commsVars>>

(***************************************************************************)
(* check_coordination_without_operator: walk the thread, then read each     *)
(* node that was reached; what it returns is an anomaly or nothing.        *)
(***************************************************************************)
\* History: the decisions that some call returned and that hang on the thread.
Standing == {r.result.id : r \in {r \in returned : r.op = "decision" /\ "id" \in DOMAIN r.result}}
              \cap {e.from : e \in {e \in BagToSet(edges["comms"]) : e.to = Thread}}

Audit(a) ==
  /\ Starts(a, "audit")
  /\ Set(a, [op |-> "audit", at |-> "read", todo |-> Reached("comms", Thread), found |-> 0,
             standing |-> Standing])
  /\ UNCHANGED <<graph, returned, commsVars>>

AuditNode(a) ==
  /\ At(a, "audit", "read")
  /\ \/ \E i \in call[a].todo :
          /\ Set(a, [call[a] EXCEPT !.todo = @ \ {i},
                                    !.found = @ + Cardinality(OfKind("comms", "decision") \cap {i})])
          /\ Stay
     \/ /\ call[a].todo = {}
        /\ Return(a, [anomaly |-> call[a].found > 0, standing |-> call[a].standing])
  /\ UNCHANGED <<graph, commsVars>>

(***************************************************************************)
(* The projection: project runs on a subscriber task, at whatever hour the *)
(* task was given; flush runs when its caller calls it.                    *)
(***************************************************************************)
Project(dnd) ==
  /\ \E m \in BagToSet(inbox) :
       /\ inbox' = inbox (-) SetToBag({m})
       /\ IF dnd /\ m.content \notin Immediate
          THEN held' = held (+) SetToBag({m.id}) /\ UNCHANGED delivered
          ELSE delivered' = delivered (+) SetToBag({m.id}) /\ UNCHANGED held
  /\ UNCHANGED <<nodes, edges, gone, shut, open, fresh, call, returned, known, bounds>>

Flush ==
  /\ held # EmptyBag
  /\ delivered' = delivered (+) held
  /\ held' = EmptyBag

FlushHeld == Flush /\ UNCHANGED <<graph, call, returned, known, bounds>>

CommsStep(a) ==
  \/ \E c \in Contents, degraded \in BOOLEAN : SubmitMessage(a, c, degraded)
  \/ WriteMessage(a) \/ ReplayMessages(a) \/ ReplayNext(a)
  \/ (\E threaded \in BOOLEAN : Decide(a, threaded)) \/ SubmitAsOperator(a) \/ Identify(a)
  \/ FindThread(a) \/ Attach(a) \/ CountCheckouts(a) \/ MarkConflict(a) \/ TieMarker(a)
  \/ ValidateCheckout(a) \/ RegisterCheckout(a)
  \/ WriteCompanion(a) \/ TieCompanion(a)
  \/ (\E check \in Checks : Evaluate(a, check))
  \/ FindFrom(a) \/ FindTo(a) \/ AnswerCheck(a)
  \/ Audit(a) \/ AuditNode(a)

CommsNext ==
  \/ \E a \in Agents : CommsStep(a)
  \/ \E dnd \in BOOLEAN : Project(dnd)
  \/ FlushHeld
=============================================================================
