----------------------------- MODULE CellAgents -----------------------------
(***************************************************************************)
(* The cell-agents: what each specialization makes of one event, as a      *)
(* function of the agent's state, the event and the clock.                 *)
(*                                                                         *)
(* A baseline is kept exactly: n samples, their sum and the sum of their   *)
(* squares stand for WelfordTracker's n, mean and m2, so a deviation of    *)
(* sigma standard deviations is a comparison of integers.  Rates are in    *)
(* units of 1 / Scale.  retune() changes no state and nothing calls it     *)
(* outside the tests; warm_baseline is a hook of the tests.  Both are left *)
(* out, as are counters that only retune() reports, keys and wording.      *)
(***************************************************************************)
EXTENDS Naturals, Integers

CONSTANTS
  Warmup,            \* samples before a baseline judges (ConsensusObserver: one more)
  StreakRequired,    \* ConsensusObserver: deviating snapshots in a row
  WindowSize,        \* sampling window of the three rate observers
  ExpectedInterval,  \* SilenceObserver
  Scale              \* units of a rate; a multiple of the lengths a window has

ASSUME AgentAssumption ==
  /\ {Warmup, StreakRequired, WindowSize, ExpectedInterval, Scale} \subseteq Nat \ {0}

BuiltIn ==
  {"RateObserver", "RelationObserver", "WorkObserver", "AttestationObserver",
   "DecayObserver", "ConsensusObserver", "SilenceObserver", "OpacityObserver"}

(***************************************************************************)
(* Events.  A node is plain, a work node, or a message with more           *)
(* references than the threshold that the operator has not observed.       *)
(***************************************************************************)
NodeEvent(content) == [type |-> "node", content |-> content]
TraceEvent(kind, value) == [type |-> "trace", kind |-> kind, value |-> value]
TickEvent == [type |-> "tick"]

IsTrace(e, kind) == e.type = "trace" /\ e.kind = kind
IsNode(e, content) == e.type = "node" /\ e.content = content

NewAgent(kind, now) ==
  [kind |-> kind, n |-> 0, sum |-> 0, squares |-> 0, \* the baseline
   count |-> 0,        \* in the window
   since |-> now,      \* start of the window; SilenceObserver: last_activity
   streak |-> 0, alarmed |-> FALSE]

Result(agent, outcome) == [agent |-> agent, outcome |-> outcome]
Quiet(agent) == Result(agent, "Quiet")

(***************************************************************************)
(* WelfordTracker.                                                         *)
(***************************************************************************)
Fold(a, x) == [a EXCEPT !.n = @ + 1, !.sum = @ + x, !.squares = @ + x * x]

Spread(a) == a.n * a.squares - a.sum * a.sum      \* n^2 times the variance
Constant(a) == Spread(a) = 0

\* |z| >= sigma; a constant baseline gives the sentinel Z_DEGENERATE_BASELINE.
Deviates(a, x, sigma) ==
  LET distance == a.n * x - a.sum
  IN /\ a.n > 0
     /\ IF Constant(a) THEN distance # 0 ELSE distance * distance >= sigma * sigma * Spread(a)

Sigma(kind) ==
  CASE kind = "RateObserver" -> 5
    [] kind = "WorkObserver" -> 4
    [] kind = "ConsensusObserver" -> 2
    [] OTHER -> 3
WarmupOf(kind) == IF kind = "ConsensusObserver" THEN Warmup + 1 ELSE Warmup
Warm(a) == a.n >= WarmupOf(a.kind)

FoldAnyway(a, x) ==  \* mutant: what was flagged becomes normal
  IF Warm(a) /\ Deviates(a, x, Sigma(a.kind)) THEN Result(Fold(a, x), "Anomaly") ELSE Quiet(Fold(a, x))

\* A sample is flagged, or becomes part of the baseline; never both.
Judge(a, x) ==
  IF Warm(a) /\ Deviates(a, x, Sigma(a.kind)) THEN Result(a, "Anomaly") ELSE Quiet(Fold(a, x))

(***************************************************************************)
(* observe() of each specialization.                                       *)
(***************************************************************************)
\* Whatever the event, it may end the window: the rate is then judged.
ObserveWindow(a, counts, now) ==
  LET counted == IF counts THEN [a EXCEPT !.count = @ + 1] ELSE a
      elapsed == now - a.since
  IN IF elapsed < WindowSize THEN Quiet(counted)
     ELSE Judge([a EXCEPT !.count = 0, !.since = now], (Scale * counted.count) \div elapsed)

ObserveRate(a, e, now) == ObserveWindow(a, e.type = "node", now)
ObserveWork(a, e, now) == ObserveWindow(a, IsNode(e, "work"), now)
ObserveRelation(a, e, now) == ObserveWindow(a, IsTrace(e, "EdgeAdded"), now)

ObserveDecay(a, e) ==
  IF IsTrace(e, "RegionDecayThresholdCrossed") THEN Judge(a, e.value) ELSE Quiet(a)

\* A deviation counts toward the streak and is not folded, flagged or not.
JudgeSnapshot(a, x) ==
  IF Warm(a) /\ Deviates(a, x, Sigma(a.kind))
  THEN IF a.streak + 1 >= StreakRequired
       THEN Result([a EXCEPT !.streak = 0], "Anomaly")
       ELSE Quiet([a EXCEPT !.streak = @ + 1])
  ELSE Quiet(Fold([a EXCEPT !.streak = 0], x))

ObserveConsensus(a, e) ==
  IF IsTrace(e, "ConsensusSnapshotEmitted") THEN JudgeSnapshot(a, e.value) ELSE Quiet(a)

ObserveAttestation(a, e) ==
  IF IsTrace(e, "AttestationFailed") \/ IsTrace(e, "ContentFingerprintFailed")
  THEN Result(a, "Damage")
  ELSE Quiet(a)

ReportsOnActivity(a, e, now) ==  \* mutant: any event is compared with the interval
  IF now - a.since >= 3 * ExpectedInterval /\ ~ a.alarmed
  THEN Result([a EXCEPT !.alarmed = TRUE], "Anomaly")
  ELSE Quiet(IF e.type = "tick" THEN a ELSE [a EXCEPT !.since = now, !.alarmed = FALSE])

\* Activity ends the silence without a word; only a Tick can report it, once.
ObserveSilence(a, e, now) ==
  IF e.type # "tick" THEN Quiet([a EXCEPT !.since = now, !.alarmed = FALSE])
  ELSE IF now - a.since >= 3 * ExpectedInterval /\ ~ a.alarmed
       THEN Result([a EXCEPT !.alarmed = TRUE], "Anomaly")
       ELSE Quiet(a)

ObserveOpacity(a, e) ==
  IF IsNode(e, "opaque") THEN Result(a, "Anomaly") ELSE Quiet(a)

Observe(a, e, now) ==
  CASE a.kind = "RateObserver" -> ObserveRate(a, e, now)
    [] a.kind = "WorkObserver" -> ObserveWork(a, e, now)
    [] a.kind = "RelationObserver" -> ObserveRelation(a, e, now)
    [] a.kind = "DecayObserver" -> ObserveDecay(a, e)
    [] a.kind = "ConsensusObserver" -> ObserveConsensus(a, e)
    [] a.kind = "AttestationObserver" -> ObserveAttestation(a, e)
    [] a.kind = "SilenceObserver" -> ObserveSilence(a, e, now)
    [] a.kind = "OpacityObserver" -> ObserveOpacity(a, e)

\* What observe() may come to: a built-in agent's own result; any outcome of
\* an implementation of the CellAgent trait that is not one of these
\* (BaselineHealthy is written to the fabric and counts as little as Quiet).
Outcomes == {"Quiet", "Anomaly", "Damage"}
Observations(a, e, now) ==
  IF a.kind \in BuiltIn THEN {Observe(a, e, now)} ELSE {Result(a, o) : o \in Outcomes}
=============================================================================
