----------------------------- MODULE WorkFabric -----------------------------
(***************************************************************************)
(* The work helpers over the operational bridge: intents and claims in the *)
(* work region, evidence linked to its intent or, when the region is       *)
(* degraded, flagged and linked by a later replay; splits and merges; and  *)
(* the visibility query, which reads the fabric in several sections.       *)
(* Ages, weights and cadences are left to chance where they decide.        *)
(***************************************************************************)
EXTENDS AgentCalls

CONSTANT Pressing   \* contents whose intents are of urgency Prompt or higher (Immediate among them)

VARIABLE replayed   \* already_replayed of the work replay, as each agent keeps it

WorkInit == replayed = [a \in Agents |-> {}]

\* WorkIntent and WorkClaim rendered as nodes; a claim names its intent's content.
IntentNode(c) == Kind("intent", c)
ClaimNode(c) == Kind("claim", c)

Intents == OfKind("ops", "intent")
ClaimsOn(c) == {i \in OfKind("ops", "claim") : nodes["ops"][i].content = c}

(***************************************************************************)
(* Intents, claims and the edges between intents.                          *)
(***************************************************************************)
PostIntent(a) ==
  /\ Starts(a, "intent")
  /\ \E c \in Contents :
       Writes(a, "ops", "work", IntentNode(c), UNCHANGED <<call, returned>>)
  /\ UNCHANGED replayed

\* The claimer has the intent's identity from the hand-off.
ClaimFromHandoff(a) ==
  /\ Starts(a, "claim")
  /\ \E i \in Intents :
       Set(a, [op |-> "claim", at |-> "write", content |-> nodes["ops"][i].content])
  /\ UNCHANGED <<graph, returned, replayed>>

WriteClaim(a) ==
  /\ At(a, "claim", "write")
  /\ Writes(a, "ops", "work", ClaimNode(call[a].content), Return(a, [ok |-> TRUE]))
  /\ UNCHANGED replayed

SplitIntent(a) ==
  /\ Starts(a, "split")
  /\ \E child, parent \in Intents :
       IF CanLink("ops", child, parent) THEN AddEdge("ops", child, parent, "SplitFrom")
       ELSE UNCHANGED graph
  /\ UNCHANGED <<call, returned, replayed>>

\* merge_intents adds one edge, then the other.
MergeIntents(a) ==
  /\ Starts(a, "merge")
  /\ \E i, j \in Intents :
       /\ CanLink("ops", i, j)
       /\ AddEdge("ops", i, j, "ConvergedWith")
       /\ Set(a, [op |-> "merge", at |-> "back", from |-> j, to |-> i])
  /\ UNCHANGED <<returned, replayed>>

MergeBack(a) ==
  /\ At(a, "merge", "back")
  /\ IF CanLink("ops", call[a].from, call[a].to)
     THEN /\ AddEdge("ops", call[a].from, call[a].to, "ConvergedWith")
          /\ Return(a, [ok |-> TRUE])
     ELSE Refused(a)
  /\ UNCHANGED replayed

(***************************************************************************)
(* Evidence.                                                               *)
(***************************************************************************)
SubmitEvidence(a, degraded) ==
  /\ Starts(a, "evidence")
  /\ \E i \in Intents :
       Set(a, [op |-> "evidence", at |-> "write", target |-> i, id |-> 0,
               content |-> nodes["ops"][i].content,
               fallback |-> degraded \/ "work" \in shut])
  /\ UNCHANGED <<graph, returned, replayed>>

WriteEvidence(a) ==
  /\ At(a, "evidence", "write")
  /\ LET n == About("evidence", call[a].content, call[a].target) IN
     IF call[a].fallback
     THEN Writes(a, "ops", "ops", Fallback(n), Return(a, [ok |-> TRUE]))
     ELSE Writes(a, "ops", "ops", n,
                 Set(a, [call[a] EXCEPT !.at = "link", !.id = fresh]) /\ Stay)
  /\ UNCHANGED replayed

\* An edge that cannot be added leaves the evidence written and reports an error.
LinkEvidence(a) ==
  /\ At(a, "evidence", "link")
  /\ IF CanLink("ops", call[a].id, call[a].target)
     THEN /\ AddEdge("ops", call[a].id, call[a].target, "Fulfills")
          /\ Return(a, [ok |-> TRUE])
     ELSE Refused(a)
  /\ UNCHANGED replayed

\* mutant: the caller's set is not looked at
AllFlagged(a) == {e \in OfKind("ops", "evidence") : nodes["ops"][e].flagged}

Deferred(a) == {e \in OfKind("ops", "evidence") : nodes["ops"][e].flagged} \ replayed[a]

\* Its candidates one by one: look the target up, then add the edge.
ReplayEvidence(a) ==
  /\ Starts(a, "relink")
  /\ Set(a, [op |-> "relink", at |-> "next", done |-> {}, evidence |-> 0, target |-> 0,
             todo |-> {<<e, nodes["ops"][e].content>> : e \in Deferred(a)}])
  /\ UNCHANGED <<graph, returned, replayed>>

RelinkFind(a) ==
  /\ At(a, "relink", "next")
  /\ \E x \in call[a].todo :
       LET rest == [call[a] EXCEPT !.todo = @ \ {x}]
           targets == Matches("ops", "intent", x[2])
       IN \/ \E i \in targets :
               Set(a, [rest EXCEPT !.at = "link", !.evidence = x[1], !.target = i])
          \/ targets = {} /\ Set(a, rest)
  /\ UNCHANGED <<graph, returned, replayed>>

RelinkAdd(a) ==
  /\ At(a, "relink", "link")
  /\ IF CanLink("ops", call[a].evidence, call[a].target)
     THEN /\ AddEdge("ops", call[a].evidence, call[a].target, "Fulfills")
          /\ Set(a, [call[a] EXCEPT !.at = "next", !.done = @ \cup {call[a].evidence}])
     ELSE Goto(a, "next") /\ UNCHANGED graph
  /\ UNCHANGED <<returned, replayed>>

RelinkReturns(a) ==
  /\ At(a, "relink", "next") /\ call[a].todo = {}
  /\ replayed' = [replayed EXCEPT ![a] = @ \cup call[a].done]
  /\ Return(a, [ok |-> TRUE])
  /\ UNCHANGED graph

(***************************************************************************)
(* query_visibility: one section for the intents and the claims, one for   *)
(* the edges; then each row takes the claims filed under its fingerprint.  *)
(***************************************************************************)
QueryScan(a) ==
  /\ Starts(a, "query")
  /\ Set(a, [op |-> "query", at |-> "edges", todo |-> {}, split |-> {}, evidence |-> {},
             intents |-> [i \in Intents |-> nodes["ops"][i].content],
             claims |-> [c \in Contents |-> Cardinality(ClaimsOn(c))],
             rows |-> {}, since |-> fresh])
  /\ UNCHANGED <<graph, returned, replayed>>

\* The second scan files evidence as the first files claims, by the intent's
\* content: the evidence of one of two twins counts for both.
QueryEdges(a) ==
  /\ At(a, "query", "edges")
  /\ LET incoming(k) == {i \in DOMAIN call[a].intents :
                           \E s \in In("ops") : Linked("ops", s, i, k)}
     IN Set(a, [call[a] EXCEPT
                  !.at = "rows", !.todo = DOMAIN call[a].intents,
                  !.split = incoming("SplitFrom"),
                  !.evidence = {call[a].intents[i] : i \in incoming("Fulfills")}])
  /\ UNCHANGED <<graph, returned, replayed>>

\* The first category that matches.
Classify(c, split, faint, old, claims, evidence, passes, stale) ==
  IF split THEN "Split"
  ELSE IF faint THEN "Abandoned"
  ELSE IF c \in Pressing /\ claims = 0 /\ old THEN "Orphaned"
  ELSE IF claims > 2 /\ c \notin Immediate THEN "Overloaded"
  ELSE IF passes THEN "Completed"
  ELSE IF claims = 0 /\ ~ evidence THEN "Unstarted"
  ELSE IF evidence /\ stale THEN "Stalled"
  ELSE "Active"

\* mutant: the first row takes every claim
AllTaken(claims, c) == [d \in Contents |-> 0]

Taken(claims, c) == [claims EXCEPT ![c] = 0]

\* checks_for gives the row no checks, or one for evidence in the operational
\* region (its other checks, and the sections they take, are Evaluate's).
QueryRow(a) ==
  /\ At(a, "query", "rows")
  /\ \E i \in call[a].todo, faint, old, stale, checked \in BOOLEAN :
       LET c == call[a].intents[i]
           passes == checked /\ OfKind("ops", "evidence") # {}
           status == Classify(c, i \in call[a].split, faint, old, call[a].claims[c],
                              c \in call[a].evidence, passes, stale)
       IN Set(a, [call[a] EXCEPT !.todo = @ \ {i}, !.claims = Taken(@, c),
                                 !.rows = @ \cup {[id |-> i, status |-> status]}])
  /\ UNCHANGED <<graph, returned, replayed>>

QueryReturns(a) ==
  /\ At(a, "query", "rows") /\ call[a].todo = {}
  /\ Set(a, Idle)
  /\ UNCHANGED <<graph, returned, replayed>>

WorkStep(a) ==
  \/ PostIntent(a) \/ ClaimFromHandoff(a) \/ WriteClaim(a)
  \/ SplitIntent(a) \/ MergeIntents(a) \/ MergeBack(a)
  \/ (\E degraded \in BOOLEAN : SubmitEvidence(a, degraded)) \/ WriteEvidence(a) \/ LinkEvidence(a)
  \/ ReplayEvidence(a) \/ RelinkFind(a) \/ RelinkAdd(a) \/ RelinkReturns(a)
  \/ QueryScan(a) \/ QueryEdges(a) \/ QueryRow(a) \/ QueryReturns(a)

WorkNext == \E a \in Agents : WorkStep(a)
=============================================================================
