-------------------------- MODULE GenerativeModel --------------------------
(***************************************************************************)
(* What the kernel's generative model counts, region by region, and how    *)
(* each call of the inference loop changes it.                             *)
(*                                                                         *)
(* A discrete model is reduced to its dimensions and the observations it   *)
(* has seen: beliefs and matrices are left out, and so are the windows of  *)
(* an agent.  Surprise is counted in whole units, the weights of the       *)
(* Constitution in halves.                                                 *)
(***************************************************************************)
EXTENDS Integers, Sequences, SequencesExt

CONSTANTS
  Threshold,   \* persist_threshold
  FeWindow,    \* FE_WINDOW
  SurpriseLog  \* SURPRISE_LOG

ModelParameters == Threshold \in Nat /\ {FeWindow, SurpriseLog} \subseteq Nat \ {0}
ASSUME ModelAssumption == ModelParameters

\* A surprise of more than 1.5 is a novelty.
Novel(surprise) == surprise > 1

Discrete(states, observations, actions) == [dims |-> <<states, observations, actions>>, seen |-> 0]
Observe(d) == [d EXCEPT !.seen = @ + 1]

(***************************************************************************)
(* Devices: a storage agent.  Its latencies, and the counts it shows but   *)
(* does not save, are left out.                                            *)
(***************************************************************************)
StorageAgent(label) == [label |-> label, model |-> Discrete(5, 5, 5)]

\* Only a read or a write reaches the device.
ResultsOf(action, results) == IF action \in {"read", "write"} THEN results ELSE {"ok"}

Observation(result) ==
  CASE result = "ok" -> "ok"                       \* fast or slow
    [] result \in {"timeout", "noDevice"} -> "timeout"
    [] result = "error" -> "error"

Step(agent) == [agent EXCEPT !.model = Observe(@)]

(***************************************************************************)
(* The persistence, operator and meta regions.                             *)
(***************************************************************************)
Persistence ==
  [model |-> Discrete(7, 7, 6), persists |-> 0, failedPersists |-> 0,
   restores |-> 0, failedRestores |-> 0, threshold |-> Threshold]

ObservePersistence(p, observation) ==
  [p EXCEPT !.model = Observe(@),
            !.restores = IF observation = "restoredOk" THEN @ + 1 ELSE @,
            !.failedRestores = IF observation \in {"checksumMismatch", "partialRestore", "corruptData"}
                               THEN @ + 1 ELSE @]

NotePersistOutcome(p, ok) ==
  IF ok THEN [p EXCEPT !.persists = @ + 1] ELSE [p EXCEPT !.failedPersists = @ + 1]

Operator == [model |-> Discrete(4, 12, 5), intents |-> 0, help |-> 0, unknown |-> 0]

ObserveIntent(o, class) ==
  [o EXCEPT !.model = Observe(@), !.intents = @ + 1,
            !.help = IF class = "help" THEN @ + 1 ELSE @,
            !.unknown = IF class = "unknown" THEN @ + 1 ELSE @]

\* Each event is an observation, whatever it says.
ObserveEvents(o, events) == [o EXCEPT !.model.seen = @ + Len(events)]

MetaRegion == [model |-> Discrete(4, 3, 5), assessments |-> 0, state |-> "learning"]

(***************************************************************************)
(* The history of free energy: two windows, the oldest entry goes first.   *)
(***************************************************************************)
History == [fe |-> <<>>, surprises |-> <<>>]

PushFe(h, fe) ==
  [h EXCEPT !.fe = Append(IF Len(@) = FeWindow THEN Tail(@) ELSE @, fe)]

PushSurprise(h, entry) ==
  [h EXCEPT !.surprises = Append(IF Len(@) = SurpriseLog THEN Tail(@) ELSE @, entry)]

Total(s) ==
  LET sum[n \in 0..Len(s)] == IF n = 0 THEN 0 ELSE sum[n - 1] + s[n]
  IN sum[Len(s)]
CurrentFe(h) == IF h.fe = <<>> THEN 0 ELSE Last(h.fe)

\* The mean of the later half less the mean of the earlier half, as a fraction.
DeltaFe(h) ==
  LET n == Len(h.fe)
      half == n \div 2
  IN IF n < 4 THEN [num |-> 0, den |-> 1]
     ELSE [num |-> Total(SubSeq(h.fe, half + 1, n)) * half
                   - Total(SubSeq(h.fe, 1, half)) * (n - half),
           den |-> half * (n - half)]

\* Free energy that falls, rises or stays by a twentieth, and its level.
Assess(meta, h) ==
  LET d == DeltaFe(h)
      falls == 20 * d.num < -d.den
      rises == 20 * d.num > d.den
      flat == 20 * d.num \in (1 - d.den) .. (d.den - 1)
      current == CurrentFe(h)
  IN [meta EXCEPT !.model = Observe(@), !.assessments = @ + 1,
                  !.state = IF falls THEN "learning"
                            ELSE IF current <= 1 /\ flat THEN "calibrated"
                            ELSE IF current > 3 /\ flat THEN "stuck"
                            ELSE IF rises THEN "overfitted" ELSE "learning"]

(***************************************************************************)
(* The causal graph.  The strength of an edge is a function of how often   *)
(* it was observed; its sixteen labels stay below the caps of the graph.   *)
(***************************************************************************)
CausalGraph == [nodes |-> <<>>, edges |-> <<>>, next |-> 0]

Place(s, Is(_)) == CHOOSE i \in DOMAIN s : Is(s[i])
IdOf(g, label) == g.nodes[Place(g.nodes, LAMBDA n : n.label = label)].id

Intern(g, label, region) ==
  IF \E i \in DOMAIN g.nodes : g.nodes[i].label = label
  THEN [g EXCEPT !.nodes[Place(g.nodes, LAMBDA n : n.label = label)].observations = @ + 1]
  ELSE [g EXCEPT !.nodes = Append(@, [id |-> g.next, label |-> label, region |-> region,
                                      observations |-> 1]),
                 !.next = @ + 1]

RecordOnce(g, cause, effect) ==      \* mutant: an edge that is there is not strengthened
  IF cause = effect \/ \E i \in DOMAIN g.edges : g.edges[i].cause = cause /\ g.edges[i].effect = effect
  THEN g
  ELSE [g EXCEPT !.edges = Append(@, [cause |-> cause, effect |-> effect, observations |-> 1])]
Record(g, cause, effect) ==
  LET There(e) == e.cause = cause /\ e.effect = effect
  IN IF cause = effect THEN g
     ELSE IF \E i \in DOMAIN g.edges : There(g.edges[i])
     THEN [g EXCEPT !.edges[Place(g.edges, There)].observations = @ + 1]
     ELSE [g EXCEPT !.edges = Append(@, [cause |-> cause, effect |-> effect, observations |-> 1])]

Explain(g, region, cause, effect) ==
  LET known == Intern(Intern(g, cause, region), effect, region)
  IN Record(known, IdOf(known, cause), IdOf(known, effect))

(***************************************************************************)
(* The Constitution, its counters, the preferences and the registry.       *)
(***************************************************************************)
Constitution ==
  [substrate |-> [addressed |-> 2, redirected |-> 3, rendered |-> 1, notAddressed |-> -4],
   surprisability |-> [updated |-> 1, novel |-> 2, locked |-> -2]]

Preferences == [questions |-> <<4, 3, 2, 4, -8, -6, -3, -7>>, constitution |-> Constitution]

Counts == [substrate |-> 0, surprisability |-> 0, addressed |-> 0, rendered |-> 0,
           updated |-> 0, novel |-> 0]

\* An account: a weighted sum, and how often each observation was made.
Accounted(c, sum, weight, obs) == [c EXCEPT ![sum] = @ + weight, ![obs] = @ + 1]

AccountSubstrate(m, obs) ==
  [m EXCEPT !.counts = Accounted(@, "substrate", m.preferences.constitution.substrate[obs], obs)]

AccountSurprisability(m, obs) ==
  [m EXCEPT !.counts =
     Accounted(@, "surprisability", m.preferences.constitution.surprisability[obs], obs)]

NobodySpawned == "nobody"
Agent ==
  [id |-> 0, name |-> "nucleation", cadence |-> 1, lastTick |-> 0,
   spawnedAt |-> 0, spawnedBy |-> NobodySpawned, state |-> "healthy"]

Registry == [agents |-> <<Agent>>, next |-> 1]

(***************************************************************************)
(* The model.                                                              *)
(***************************************************************************)
Nucleation ==
  [devices |-> <<>>, persistence |-> Persistence, operator |-> Operator, meta |-> MetaRegion,
   graph |-> CausalGraph, hypotheses |-> 0, preferences |-> Preferences, history |-> History,
   lamport |-> 0, boots |-> 0, total |-> 0, learned |-> 0, risk |-> 0,
   counts |-> Counts, agents |-> Registry]

NoteBoot(m) == [m EXCEPT !.boots = @ + 1]

AccountObservation(m, region, surprise) ==
  [m EXCEPT !.total = @ + 1, !.learned = @ + surprise, !.risk = @ + surprise,
            !.history = LET h == PushFe(@, surprise)
                        IN IF Novel(surprise)
                           THEN PushSurprise(h, [lamport |-> m.lamport, region |-> region,
                                                 surprise |-> surprise])
                           ELSE h]

EverLearned(m) == m.learned > m.persistence.threshold   \* mutant: the wrong sum is compared
ShouldPersist(m) == m.risk > m.persistence.threshold

Saved(m) == [m EXCEPT !.risk = 0]

\* What submit_event teaches the operator region, shown or not.
Heard(m, events) == [m EXCEPT !.operator = ObserveEvents(@, events)]
=============================================================================
