------------------------ MODULE ImmuneResponse_proofs ------------------------
(***************************************************************************)
(* Theorems of ImmuneResponse, for any threads, regions, populations of    *)
(* agents (of this repository or not) and thresholds.                      *)
(***************************************************************************)
EXTENDS ImmuneResponse, FiniteSetTheorems, FunctionTheorems, SequenceTheorems, TLAPS

-----------------------------------------------------------------------------
(***************************************************************************)
(* The baseline of an agent.  The sum of squares is never less than what   *)
(* the mean accounts for, and a sample equal to the mean of a constant     *)
(* baseline leaves it constant.                                            *)
(***************************************************************************)
LEMMA SquareNonNegative ==
  ASSUME NEW y \in Int
  PROVE  y * y >= 0
<1>1. CASE y >= 0
  BY <1>1
<1>2. CASE y < 0
  BY <1>2
<1>3. QED
  BY <1>1, <1>2

LEMMA FactorNonNegative ==
  ASSUME NEW n \in Nat, n > 0, NEW e \in Int, n * e >= 0
  PROVE  e >= 0
<1> SUFFICES ASSUME e < 0
             PROVE  FALSE
  OBVIOUS
<1>1. n * e < 0
  OBVIOUS
<1>2. QED
  BY <1>1

LEMMA FactorZero ==
  ASSUME NEW n \in Nat, n > 0, NEW e \in Int, n * e = 0
  PROVE  e = 0
OBVIOUS

LEMMA SpreadStays ==
  ASSUME NEW n \in Nat, NEW s \in Int, NEW q \in Int, NEW x \in Int,
         n = 0 => s = 0 /\ q = 0,
         n * q - s * s >= 0
  PROVE  (n + 1) * (q + x * x) - (s + x) * (s + x) >= 0
<1>1. CASE n = 0
  BY <1>1
<1>2. CASE n > 0
  <2> DEFINE e == q + n * (x * x) - 2 * (x * s)
             y == s - n * x
  <2>1. e \in Int /\ y \in Int
    OBVIOUS
  <2>2. n * e = (n * q - s * s) + y * y
    OBVIOUS
  <2>3. y * y >= 0
    BY <2>1, SquareNonNegative
  <2>4. n * e >= 0
    <3> DEFINE d == n * q - s * s
               z == y * y
    <3>1. d \in Int /\ d >= 0 /\ z \in Int /\ z >= 0 /\ n * e = d + z
      BY <2>1, <2>2, <2>3
    <3>2. n * e \in Int
      BY <2>1
    <3> HIDE DEF d, z, e
    <3>3. QED
      BY <3>1, <3>2
  <2>5. e >= 0
    <3> HIDE DEF e
    <3>1. QED
      BY <1>2, <2>1, <2>4, FactorNonNegative
  <2>6. (n + 1) * (q + x * x) - (s + x) * (s + x) = (n * q - s * s) + e
    OBVIOUS
  <2> DEFINE d == n * q - s * s
             f == (n + 1) * (q + x * x) - (s + x) * (s + x)
  <2>7. d \in Int /\ d >= 0 /\ f = d + e
    BY <2>6
  <2> HIDE DEF d, e, f
  <2>8. f >= 0
    BY <2>1, <2>5, <2>7
  <2>9. QED
    BY <2>8 DEF f
<1>3. QED
  BY <1>1, <1>2

LEMMA ConstantStays ==
  ASSUME NEW n \in Nat, n > 0, NEW s \in Int, NEW q \in Int, NEW x \in Int,
         n * q - s * s = 0, n * x - s = 0
  PROVE  /\ (n + 1) * (q + x * x) - (s + x) * (s + x) = 0
         /\ (s + x) * n = s * (n + 1)
<1>1. s = n * x
  OBVIOUS
<1> DEFINE e == q - n * (x * x)
<1>2. e \in Int /\ n * e = n * q - s * s
  BY <1>1
<1>3. n * e = 0
  BY <1>2
<1>4. e = 0
  <2> HIDE DEF e
  <2>1. QED
    BY <1>2, <1>3, FactorZero
<1>5. q = n * (x * x)
  BY <1>4
<1>6. (n + 1) * (n * (x * x) + x * x) - (n * x + x) * (n * x + x) = 0
  OBVIOUS
<1>7. (n * x + x) * n = (n * x) * (n + 1)
  OBVIOUS
<1>8. QED
  BY <1>1, <1>5, <1>6, <1>7

AgentRecords ==
  [kind : Specializations, n : Nat, sum : Int, squares : Int,
   count : Nat, since : Nat, streak : Nat, alarmed : BOOLEAN]

\* The baseline is one of samples that were folded.
Sound(a) == (a.n = 0 => a.sum = 0 /\ a.squares = 0) /\ Spread(a) >= 0

\* The baseline of b is constant and has the mean of a.
Kept(a, b) == Constant(b) /\ b.sum * a.n = a.sum * b.n

AgentOK(a, time) == a \in AgentRecords /\ Sound(a) /\ a.since <= time

\* What one event may make of an agent.
Follows(a, b, time) ==
  /\ AgentOK(b, time)
  /\ b.kind = a.kind
  /\ Warm(a) /\ Constant(a) => Kept(a, b)

SameBaseline(a, b) ==
  a.kind = b.kind /\ a.n = b.n /\ a.sum = b.sum /\ a.squares = b.squares

LEMMA WarmHasSamples ==
  ASSUME NEW a \in AgentRecords, Warm(a)
  PROVE  a.n > 0
BY AgentAssumption DEF Warm, WarmupOf, AgentRecords

LEMMA SameFollows ==
  ASSUME NEW a \in AgentRecords, NEW b \in AgentRecords, NEW c, NEW time \in Nat,
         SameBaseline(a, b), Follows(b, c, time)
  PROVE  Follows(a, c, time)
BY DEF SameBaseline, Follows, Warm, WarmupOf, Constant, Spread, Kept

\* A change outside the baseline.
LEMMA SideFollows ==
  ASSUME NEW a \in AgentRecords, NEW time \in Nat, Sound(a),
         NEW b \in AgentRecords, SameBaseline(a, b), b.since <= time
  PROVE  Follows(a, b, time)
<1>1. Sound(b) /\ (Constant(a) => Constant(b))
  BY DEF SameBaseline, Sound, Spread, Constant
<1>2. b.sum * a.n = a.sum * b.n
  BY DEF SameBaseline
<1>3. QED
  BY <1>1, <1>2 DEF Follows, AgentOK, Kept, SameBaseline

LEMMA FoldFollows ==
  ASSUME NEW time \in Nat, NEW a, AgentOK(a, time), NEW x \in Int,
         NEW sigma \in Int, ~ (Warm(a) /\ Deviates(a, x, sigma))
  PROVE  Follows(a, Fold(a, x), time)
<1>1. /\ a \in AgentRecords /\ a.since <= time
      /\ a.n \in Nat /\ a.sum \in Int /\ a.squares \in Int
      /\ a.n = 0 => a.sum = 0 /\ a.squares = 0
      /\ a.n * a.squares - a.sum * a.sum >= 0
  BY DEF AgentOK, Sound, Spread, AgentRecords
<1> DEFINE b == Fold(a, x)
<1>2. /\ b \in AgentRecords /\ b.kind = a.kind /\ b.since = a.since
      /\ b.n = a.n + 1 /\ b.sum = a.sum + x /\ b.squares = a.squares + x * x
  <2>1. a.n + 1 \in Nat /\ a.sum + x \in Int /\ x * x \in Int /\ a.squares + x * x \in Int
    BY <1>1
  <2> DEFINE y == x * x
  <2>2. b = [a EXCEPT !.n = @ + 1, !.sum = @ + x, !.squares = @ + y]
    BY DEF Fold
  <2>3. y \in Int /\ a.squares + y \in Int
    BY <2>1
  <2> HIDE DEF y
  <2>4. /\ b \in AgentRecords /\ b.kind = a.kind /\ b.since = a.since
        /\ b.n = a.n + 1 /\ b.sum = a.sum + x /\ b.squares = a.squares + y
    BY <1>1, <2>1, <2>2, <2>3 DEF AgentRecords
  <2>5. QED
    BY <2>4 DEF y
<1>3. Spread(b) >= 0
  <2>1. (a.n + 1) * (a.squares + x * x) - (a.sum + x) * (a.sum + x) >= 0
    BY <1>1, SpreadStays
  <2>2. QED
    BY <1>2, <2>1 DEF Spread
<1>4. AgentOK(b, time)
  <2>1. b.n # 0
    BY <1>1, <1>2
  <2>2. QED
    BY <1>1, <1>2, <1>3, <2>1 DEF AgentOK, Sound
<1>5. ASSUME Warm(a), Constant(a)
      PROVE  Kept(a, b)
  <2>1. a.n > 0
    BY <1>1, <1>5, WarmHasSamples
  <2>2. a.n * a.squares - a.sum * a.sum = 0
    BY <1>5 DEF Constant, Spread
  <2>3. a.n * x - a.sum = 0
    <3>1. ~ (a.n > 0 /\ a.n * x - a.sum # 0)
      BY <1>5 DEF Deviates
    <3>2. QED
      BY <2>1, <3>1
  <2>4. /\ (a.n + 1) * (a.squares + x * x) - (a.sum + x) * (a.sum + x) = 0
        /\ (a.sum + x) * a.n = a.sum * (a.n + 1)
    <3> DEFINE n == a.n
               s == a.sum
               q == a.squares
    <3>1. /\ n \in Nat /\ n > 0 /\ s \in Int /\ q \in Int
          /\ n * q - s * s = 0 /\ n * x - s = 0
      BY <1>1, <2>1, <2>2, <2>3
    <3> HIDE DEF n, s, q
    <3>2. /\ (n + 1) * (q + x * x) - (s + x) * (s + x) = 0
          /\ (s + x) * n = s * (n + 1)
      BY <3>1, ConstantStays
    <3>3. QED
      BY <3>2 DEF n, s, q
  <2>5. QED
    BY <1>2, <2>4 DEF Kept, Constant, Spread
<1>6. QED
  BY <1>2, <1>4, <1>5 DEF Follows

LEMMA JudgeFollows ==
  ASSUME NEW time \in Nat, NEW a, AgentOK(a, time), NEW x \in Int
  PROVE  /\ Follows(a, Judge(a, x).agent, time)
         /\ Judge(a, x).outcome \in {"Quiet", "Anomaly"}
<1>1. Sigma(a.kind) \in Int
  BY DEF Sigma
<1>2. CASE Warm(a) /\ Deviates(a, x, Sigma(a.kind))
  <2>1. Judge(a, x).agent = a /\ Judge(a, x).outcome = "Anomaly"
    BY <1>2 DEF Judge, Result
  <2>2. Follows(a, a, time)
    BY SideFollows DEF AgentOK, SameBaseline
  <2>3. QED
    BY <2>1, <2>2
<1>3. CASE ~ (Warm(a) /\ Deviates(a, x, Sigma(a.kind)))
  <2>1. Judge(a, x).agent = Fold(a, x) /\ Judge(a, x).outcome = "Quiet"
    BY <1>3 DEF Judge, Quiet, Result
  <2>2. Follows(a, Fold(a, x), time)
    BY <1>1, <1>3, FoldFollows
  <2>3. QED
    BY <2>1, <2>2
<1>4. QED
  BY <1>2, <1>3

-----------------------------------------------------------------------------
(***************************************************************************)
(* observe() of each specialization.                                       *)
(***************************************************************************)
EventOK(e) == e.type = "trace" => e.value \in Int

\* A result that is quiet, or an anomaly.
Mild(a, out, time) == Follows(a, out.agent, time) /\ out.outcome \in {"Quiet", "Anomaly"}

LEMMA QuietIsMild ==
  ASSUME NEW time \in Nat, NEW a, AgentOK(a, time), NEW b \in AgentRecords,
         SameBaseline(a, b), b.since <= time
  PROVE  Mild(a, Quiet(b), time) /\ Mild(a, Result(b, "Anomaly"), time)
BY SideFollows DEF AgentOK, Mild, Quiet, Result

LEMMA WindowIsMild ==
  ASSUME NEW time \in Nat, NEW a, AgentOK(a, time), NEW counts \in BOOLEAN
  PROVE  Mild(a, ObserveWindow(a, counts, time), time)
<1> DEFINE counted == IF counts THEN [a EXCEPT !.count = @ + 1] ELSE a
           elapsed == time - a.since
           reset == [a EXCEPT !.count = 0, !.since = time]
           rate == (Scale * counted.count) \div elapsed
<1>1. counted \in AgentRecords /\ SameBaseline(a, counted) /\ counted.since <= time
  BY DEF AgentOK, AgentRecords, SameBaseline
<1>2. /\ reset \in AgentRecords /\ SameBaseline(a, reset) /\ reset.since = time
      /\ reset.n = a.n /\ reset.sum = a.sum /\ reset.squares = a.squares
  BY DEF AgentOK, AgentRecords, SameBaseline
<1>3. AgentOK(reset, time)
  BY <1>2 DEF AgentOK, Sound, Spread
<1>4. CASE elapsed < WindowSize
  BY <1>1, <1>4, QuietIsMild DEF ObserveWindow
<1>5. CASE ~ (elapsed < WindowSize)
  <2>1. rate \in Int
    <3>1. Scale * counted.count \in Int
      BY <1>1, AgentAssumption DEF AgentRecords
    <3>2. elapsed \in Int /\ elapsed > 0
      BY <1>5, AgentAssumption DEF AgentOK, AgentRecords
    <3> HIDE DEF elapsed, counted
    <3>3. QED
      BY <3>1, <3>2
  <2>2. ObserveWindow(a, counts, time) = Judge(reset, rate)
    BY <1>5 DEF ObserveWindow
  <2> HIDE DEF reset, rate
  <2>3. /\ Follows(reset, Judge(reset, rate).agent, time)
        /\ Judge(reset, rate).outcome \in {"Quiet", "Anomaly"}
    BY <1>3, <2>1, JudgeFollows
  <2>4. Follows(a, Judge(reset, rate).agent, time)
    BY <1>2, <2>3, SameFollows DEF AgentOK
  <2>5. QED
    BY <2>2, <2>3, <2>4 DEF Mild
<1>6. QED
  BY <1>4, <1>5

LEMMA SnapshotIsMild ==
  ASSUME NEW time \in Nat, NEW a, AgentOK(a, time), NEW x \in Int
  PROVE  Mild(a, JudgeSnapshot(a, x), time)
<1> DEFINE reset == [a EXCEPT !.streak = 0]
           longer == [a EXCEPT !.streak = @ + 1]
<1>1. /\ reset \in AgentRecords /\ SameBaseline(a, reset) /\ reset.since = a.since
      /\ longer \in AgentRecords /\ SameBaseline(a, longer) /\ longer.since = a.since
  BY DEF AgentOK, AgentRecords, SameBaseline
<1>2. Sigma(a.kind) \in Int
  BY DEF Sigma
<1>3. CASE Warm(a) /\ Deviates(a, x, Sigma(a.kind))
  <2>1. Mild(a, Result(reset, "Anomaly"), time) /\ Mild(a, Quiet(longer), time)
    BY <1>1, QuietIsMild DEF AgentOK
  <2>2. QED
    BY <1>3, <2>1 DEF JudgeSnapshot
<1>4. CASE ~ (Warm(a) /\ Deviates(a, x, Sigma(a.kind)))
  <2>1. JudgeSnapshot(a, x) = Quiet(Fold(reset, x))
    BY <1>4 DEF JudgeSnapshot
  <2>2. AgentOK(reset, time)
    BY <1>1 DEF AgentOK, SameBaseline, Sound, Spread
  <2>3. ~ (Warm(reset) /\ Deviates(reset, x, Sigma(a.kind)))
    BY <1>1, <1>4 DEF SameBaseline, Warm, WarmupOf, Deviates, Constant, Spread
  <2> HIDE DEF reset
  <2>4. Follows(reset, Fold(reset, x), time)
    BY <1>2, <2>2, <2>3, FoldFollows
  <2>5. Follows(a, Fold(reset, x), time)
    BY <1>1, <2>4, SameFollows DEF AgentOK
  <2>6. QED
    BY <2>1, <2>5 DEF Mild, Quiet, Result
<1>5. QED
  BY <1>3, <1>4

LEMMA SilenceIsMild ==
  ASSUME NEW time \in Nat, NEW a, AgentOK(a, time), NEW e
  PROVE  Mild(a, ObserveSilence(a, e, time), time)
<1> DEFINE heard == [a EXCEPT !.since = time, !.alarmed = FALSE]
           alarm == [a EXCEPT !.alarmed = TRUE]
<1>1. /\ heard \in AgentRecords /\ SameBaseline(a, heard) /\ heard.since = time
      /\ alarm \in AgentRecords /\ SameBaseline(a, alarm) /\ alarm.since = a.since
      /\ a \in AgentRecords /\ SameBaseline(a, a) /\ a.since <= time
  BY DEF AgentOK, AgentRecords, SameBaseline
<1>2. Mild(a, Quiet(heard), time) /\ Mild(a, Result(alarm, "Anomaly"), time) /\ Mild(a, Quiet(a), time)
  <2> HIDE DEF heard, alarm
  <2>1. time <= time
    OBVIOUS
  <2>2. Mild(a, Quiet(heard), time)
    BY <1>1, <2>1, QuietIsMild
  <2>3. Mild(a, Result(alarm, "Anomaly"), time)
    BY <1>1, QuietIsMild
  <2>4. Mild(a, Quiet(a), time)
    BY <1>1, QuietIsMild
  <2>5. QED
    BY <2>2, <2>3, <2>4
<1>3. QED
  BY <1>2 DEF ObserveSilence

\* What observe() of a built-in agent returns: the agent changed as above, and
\* damage from the attestation observer alone, on events of the trace.
LEMMA BuiltInObserves ==
  ASSUME NEW time \in Nat, NEW a, AgentOK(a, time), NEW e, EventOK(e), a.kind \in BuiltIn
  PROVE  /\ Follows(a, Observe(a, e, time).agent, time)
         /\ Observe(a, e, time).outcome \in Outcomes
         /\ e.type = "node" => Observe(a, e, time).outcome # "Damage"
         /\ a.kind = "SilenceObserver" /\ e.type = "node" =>
              Observe(a, e, time).outcome = "Quiet"
<1> DEFINE out == Observe(a, e, time)
<1>1. /\ a \in AgentRecords /\ SameBaseline(a, a) /\ a.since <= time
      /\ Mild(a, Quiet(a), time) /\ Mild(a, Result(a, "Anomaly"), time)
  BY QuietIsMild DEF AgentOK, SameBaseline
<1>2. CASE a.kind \in {"RateObserver", "WorkObserver", "RelationObserver"}
  <2>1. \E counts \in BOOLEAN : out = ObserveWindow(a, counts, time)
    BY <1>2 DEF Observe, ObserveRate, ObserveWork, ObserveRelation, IsNode, IsTrace
  <2>2. Mild(a, out, time)
    BY <2>1, WindowIsMild
  <2>3. QED
    BY <1>2, <2>2 DEF Mild, Outcomes
<1>3. CASE a.kind = "DecayObserver"
  <2>1. out = ObserveDecay(a, e)
    BY <1>3 DEF Observe
  <2>2. IsTrace(e, "RegionDecayThresholdCrossed") => Mild(a, Judge(a, e.value), time)
    BY JudgeFollows DEF EventOK, IsTrace, Mild
  <2>3. Mild(a, out, time)
    BY <1>1, <2>1, <2>2 DEF ObserveDecay
  <2>4. QED
    BY <1>3, <2>3 DEF Mild, Outcomes
<1>4. CASE a.kind = "ConsensusObserver"
  <2>1. out = ObserveConsensus(a, e)
    BY <1>4 DEF Observe
  <2>2. IsTrace(e, "ConsensusSnapshotEmitted") => Mild(a, JudgeSnapshot(a, e.value), time)
    BY SnapshotIsMild DEF EventOK, IsTrace
  <2>3. Mild(a, out, time)
    BY <1>1, <2>1, <2>2 DEF ObserveConsensus
  <2>4. QED
    BY <1>4, <2>3 DEF Mild, Outcomes
<1>5. CASE a.kind = "AttestationObserver"
  <2>1. out = ObserveAttestation(a, e)
    BY <1>5 DEF Observe
  <2>2. /\ out.agent = a /\ out.outcome \in Outcomes
        /\ e.type = "node" => out.outcome # "Damage"
    BY <2>1 DEF ObserveAttestation, IsTrace, Quiet, Result, Outcomes
  <2>3. QED
    BY <1>1, <1>5, <2>2 DEF Mild, Quiet, Result
<1>6. CASE a.kind = "SilenceObserver"
  <2>1. out = ObserveSilence(a, e, time)
    BY <1>6 DEF Observe
  <2>2. Mild(a, out, time)
    BY <2>1, SilenceIsMild
  <2>3. e.type = "node" => out.outcome = "Quiet"
    BY <2>1 DEF ObserveSilence, Quiet, Result
  <2>4. QED
    BY <2>2, <2>3 DEF Mild, Outcomes
<1>7. CASE a.kind = "OpacityObserver"
  <2>1. out = ObserveOpacity(a, e)
    BY <1>7 DEF Observe
  <2>2. Mild(a, out, time)
    BY <1>1, <2>1 DEF ObserveOpacity
  <2>3. QED
    BY <1>7, <2>2 DEF Mild, Outcomes
<1>8. QED
  BY <1>2, <1>3, <1>4, <1>5, <1>6, <1>7 DEF BuiltIn

LEMMA AgentObserves ==
  ASSUME NEW time \in Nat, NEW a, AgentOK(a, time), NEW e, EventOK(e),
         NEW out \in Observations(a, e, time)
  PROVE  /\ Follows(a, out.agent, time) /\ out.outcome \in Outcomes
         /\ e.type = "node" /\ out.outcome = "Damage" => a.kind \notin BuiltIn
         /\ e.type = "node" /\ out.outcome # "Quiet" => a.kind # "SilenceObserver"
<1>1. CASE a.kind \in BuiltIn
  BY <1>1, BuiltInObserves DEF Observations
<1>2. CASE a.kind \notin BuiltIn
  <2>1. out.agent = a /\ out.outcome \in Outcomes
    BY <1>2 DEF Observations, Result
  <2>2. Follows(a, a, time)
    BY SideFollows DEF AgentOK, SameBaseline
  <2>3. QED
    BY <1>2, <2>1, <2>2 DEF BuiltIn
<1>3. QED
  BY <1>1, <1>2

-----------------------------------------------------------------------------
(***************************************************************************)
(* First layer: types.                                                     *)
(***************************************************************************)
SignalTypes ==
  [region : Regions, specialization : Specializations, damage : BOOLEAN, at : Nat, mode : Modes]
BusyCalls ==
  [pc : {"observe", "commit", "escalate"}, cell : Nat \ {0}, upto : Nat,
   content : menu.contents, damage : BOOLEAN]

\* The agents are those of the menu, each with a baseline of folded samples.
AgentsOK ==
  /\ DOMAIN agents = DOMAIN Cells
  /\ \A i \in DOMAIN Cells : AgentOK(agents[i], now) /\ agents[i].kind = Cells[i].specialization

WindowsOK ==
  /\ observations \in [Regions -> SUBSET Nat]
  /\ converged \in [Regions -> SUBSET [at : Nat, sources : SUBSET Nat]]

\* A dispatch serves agents that were registered when it started.
CallsOK ==
  \A t \in Threads : call[t] # Idle => call[t].cell <= call[t].upto /\ call[t].upto <= registered

Typed == TypeOK /\ AgentsOK /\ WindowsOK

LEMMA CellsTyped ==
  ASSUME menu \in Menus
  PROVE  /\ Cells \in Seq([region : Regions, specialization : Specializations])
         /\ Len(Cells) \in Nat /\ DOMAIN Cells = 1..Len(Cells)
         /\ \A i \in DOMAIN Cells : Cells[i].region \in Regions
                                    /\ Cells[i].specialization \in Specializations
<1> DEFINE R == [region : Regions, specialization : Specializations]
<1>1. Cells \in Seq(R)
  BY ImmuneAssumption DEF Cells
<1>2. Len(Cells) \in Nat /\ DOMAIN Cells = 1..Len(Cells) /\ Cells \in [1..Len(Cells) -> R]
  <2> HIDE DEF R
  <2>1. QED
    BY <1>1
<1>3. QED
  BY <1>1, <1>2

LEMMA CallBusy ==
  ASSUME Typed, NEW t \in Threads, call[t].pc # "idle"
  PROVE  /\ call[t] \in BusyCalls /\ call[t] # Idle
         /\ call[t].cell <= call[t].upto /\ call[t].upto <= registered
         /\ call[t].cell \in DOMAIN Cells
         /\ StateOf(t) \in Regions /\ Cell(t).specialization \in Specializations
<1>1. call[t] # Idle
  BY DEF Idle
<1>2. call[t] \in BusyCalls
  BY <1>1 DEF Typed, TypeOK, Calls, BusyCalls
<1>3. call[t].cell <= call[t].upto /\ call[t].upto <= registered
  BY <1>1 DEF Typed, TypeOK
<1>4. call[t].cell \in DOMAIN Cells
  BY <1>2, <1>3, CellsTyped DEF Typed, TypeOK, BusyCalls
<1>5. QED
  BY <1>1, <1>2, <1>3, <1>4, CellsTyped DEF Typed, TypeOK, StateOf, Cell

LEMMA NextCellTyped ==
  ASSUME Typed, NEW t \in Threads, call[t].pc # "idle"
  PROVE  /\ NextCell(t) \in BusyCalls \cup {Idle}
         /\ NextCell(t) # Idle => /\ NextCell(t).pc = "observe" /\ ~ NextCell(t).damage
                                  /\ NextCell(t).cell <= NextCell(t).upto
                                  /\ NextCell(t).upto <= registered
<1>1. CASE call[t].cell < call[t].upto
  <2>1. /\ NextCell(t) \in BusyCalls
        /\ NextCell(t).pc = "observe" /\ ~ NextCell(t).damage
        /\ NextCell(t).cell = call[t].cell + 1 /\ NextCell(t).upto = call[t].upto
    <3> DEFINE c == call[t]
               C == menu.contents
    <3>1. /\ c \in [pc : {"observe", "commit", "escalate"}, cell : Nat \ {0}, upto : Nat,
                   content : C, damage : BOOLEAN]
          /\ NextCell(t) = [c EXCEPT !.pc = "observe", !.cell = @ + 1, !.damage = FALSE]
      BY <1>1, CallBusy DEF NextCell, BusyCalls
    <3> HIDE DEF c, C
    <3>2. c.cell + 1 \in Nat \ {0} /\ FALSE \in BOOLEAN
      BY <3>1
    <3>3. /\ NextCell(t) \in [pc : {"observe", "commit", "escalate"}, cell : Nat \ {0}, upto : Nat,
                              content : C, damage : BOOLEAN]
          /\ NextCell(t).pc = "observe" /\ ~ NextCell(t).damage
          /\ NextCell(t).cell = c.cell + 1 /\ NextCell(t).upto = c.upto
      BY <3>1, <3>2
    <3>4. QED
      BY <3>3 DEF c, C, BusyCalls
  <2>2. call[t].cell \in Nat /\ call[t].upto \in Nat
    BY CallBusy DEF BusyCalls
  <2>3. QED
    BY <1>1, <2>1, <2>2, CallBusy
<1>2. CASE ~ (call[t].cell < call[t].upto)
  BY <1>2 DEF NextCell
<1>3. QED
  BY <1>1, <1>2

\* A call's next step keeps the calls typed.
LEMMA GotoTyped ==
  ASSUME Typed, NEW t \in Threads, NEW step \in BusyCalls \cup {Idle}, Goto(t, step),
         step # Idle => step.cell <= step.upto /\ step.upto <= registered,
         menu' = menu, registered' = registered
  PROVE  call' \in [Threads -> Calls'] /\ CallsOK'
<1>1. Calls' = BusyCalls \cup {Idle}
  BY DEF Calls, BusyCalls, Idle
<1>2. call \in [Threads -> BusyCalls \cup {Idle}] /\ CallsOK
  BY <1>1 DEF Typed, TypeOK, Calls, BusyCalls, CallsOK
<1>3. call' = [call EXCEPT ![t] = step]
  BY DEF Goto
<1>4. call' \in [Threads -> BusyCalls \cup {Idle}]
  BY <1>2, <1>3
<1>5. ASSUME NEW u \in Threads, call'[u] # Idle
      PROVE  call'[u].cell <= call'[u].upto /\ call'[u].upto <= registered
  BY <1>2, <1>3, <1>5 DEF CallsOK
<1>6. QED
  BY <1>1, <1>4, <1>5 DEF CallsOK, Idle

LEMMA SeqWider ==
  ASSUME NEW S, NEW T, S \subseteq T, NEW s \in Seq(S)
  PROVE  s \in Seq(T)
<1>1. s \in [1..Len(s) -> S] /\ Len(s) \in Nat
  OBVIOUS
<1>2. s \in [1..Len(s) -> T]
  BY <1>1
<1>3. QED
  BY <1>1, <1>2, SeqDef

LEMMA EffectiveModeTyped ==
  ASSUME Typed, NEW r \in Regions
  PROVE  EffectiveMode(r) \in Modes
BY DEF Typed, TypeOK, EffectiveMode, Modes

AnomalyTypes == [region : Regions, sources : SUBSET DOMAIN signals, at : Nat, mode : Modes]

\* The signal that a commit writes, and the signals that its evaluation counts:
\* itself and those of the window.
LEMMA CommitCounts ==
  ASSUME Typed, NEW t \in Threads, CommitSignal(t), NEW r, r = StateOf(t),
         NEW new, new = Len(signals) + 1
  PROVE  /\ r \in Regions /\ Signal(t) \in SignalTypes
         /\ signals' \in Seq(SignalTypes) /\ Len(signals) \in Nat /\ Len(signals') = new
         /\ DOMAIN signals = 1..Len(signals) /\ DOMAIN signals' = 1..new
         /\ \A i \in DOMAIN signals : signals'[i] = signals[i]
         /\ signals'[new] = Signal(t) /\ Signal(t).region = r /\ Signal(t).at = now
         /\ new \in Counted(t) /\ Counted(t) \subseteq observations[r] \cup {new}
         /\ \A i \in observations[r] : i \in Counted(t) <=> signals[i].at + ConvergenceWindow >= now
         /\ \A i \in Counted(t) : i \in 1..new /\ signals'[i].region = r
<1>0. /\ call[t].pc = "commit" /\ now \in Nat
      /\ signals \in Seq(SignalTypes) /\ observations[r] \subseteq SignalsOf(r)
  BY CallBusy DEF CommitSignal, Typed, TypeOK, SignalTypes
<1>1. /\ r \in Regions /\ Cell(t).specialization \in Specializations
      /\ call[t] \in BusyCalls /\ EffectiveMode(r) \in Modes
  BY <1>0, CallBusy, EffectiveModeTyped
<1>2. Signal(t) \in SignalTypes /\ Signal(t).region = r /\ Signal(t).at = now
  BY <1>0, <1>1 DEF Signal, SignalTypes, BusyCalls, StateOf
<1>3. /\ signals' \in Seq(SignalTypes) /\ Len(signals) \in Nat /\ Len(signals') = new
      /\ DOMAIN signals = 1..Len(signals) /\ DOMAIN signals' = 1..new
      /\ \A i \in DOMAIN signals : signals'[i] = signals[i]
      /\ signals'[new] = Signal(t)
  <2>1. signals' = Append(signals, Signal(t))
    BY DEF CommitSignal
  <2> HIDE DEF SignalTypes
  <2>2. QED
    BY <1>0, <1>2, <2>1, AppendProperties
<1>4. \A i \in observations[r] : i \in 1..Len(signals) /\ signals[i].region = r
  BY <1>0, <1>3 DEF SignalsOf
<1>5. new \in Counted(t) /\ Counted(t) \subseteq observations[r] \cup {new}
  <2>1. signals'[new].at + ConvergenceWindow >= now
    BY <1>0, <1>2, <1>3, ImmuneAssumption
  <2>2. QED
    BY <2>1 DEF Counted, Recent
<1>6. \A i \in observations[r] : i \in Counted(t) <=> signals[i].at + ConvergenceWindow >= now
  BY <1>3, <1>4 DEF Counted, Recent
<1>7. \A i \in Counted(t) : i \in 1..new /\ signals'[i].region = r
  BY <1>2, <1>3, <1>4, <1>5
<1>8. QED
  BY <1>1, <1>2, <1>3, <1>5, <1>6, <1>7

\* What an evaluation sums up when it escalates: the convergences of the window
\* and the new one, all of the region.
LEMMA LadderShape ==
  ASSUME Typed, NEW t \in Threads, CommitSignal(t), NEW r, r = StateOf(t),
         NEW new, new = Len(signals) + 1
  PROVE  /\ Counted(t) \subseteq SourcesOf(Ladder(t))
         /\ [at |-> now, sources |-> Counted(t)] \in Ladder(t)
         /\ \A c \in Ladder(t) : /\ c \in converged[r] \/ c = [at |-> now, sources |-> Counted(t)]
                                 /\ c.at + EscalationWindow >= now
                                 /\ c.at \in 0..now
                                 /\ c.sources \subseteq 1..new
                                 /\ \A i \in c.sources : signals'[i].region = r
         /\ \A c \in converged[r] : c.sources \subseteq DOMAIN signals
                                    /\ \A i \in c.sources : signals[i].region = r
<1> DEFINE fresh == [at |-> now, sources |-> Counted(t)]
<1>1. now \in Nat /\ fresh.at = now /\ fresh.sources = Counted(t)
  BY DEF Typed, TypeOK
<1>2. fresh \in Ladder(t)
  BY <1>1, ImmuneAssumption DEF Ladder
<1>3. \A c \in converged[r] : /\ c.at \in 0..now /\ c.sources \subseteq DOMAIN signals
                              /\ \A i \in c.sources : signals[i].region = r
  BY SMTT(30), CommitCounts DEF Typed, TypeOK, SignalsOf
<1>4. \A c \in Ladder(t) : (c \in converged[r] \/ c = fresh) /\ c.at + EscalationWindow >= now
  BY DEF Ladder
<1> HIDE DEF fresh
<1>5. \A c \in converged[r] : c.sources \subseteq 1..new /\ \A i \in c.sources : signals'[i].region = r
  BY <1>3, CommitCounts
<1>6. fresh.sources \subseteq 1..new /\ \A i \in fresh.sources : signals'[i].region = r
  BY <1>1, CommitCounts
<1>7. Counted(t) \subseteq SourcesOf(Ladder(t))
  BY <1>1, <1>2 DEF SourcesOf
<1>8. \A c \in Ladder(t) : /\ c.at \in 0..now
                           /\ c.sources \subseteq 1..new
                           /\ \A i \in c.sources : signals'[i].region = r
  BY <1>1, <1>3, <1>4, <1>5, <1>6
<1>9. QED
  BY <1>2, <1>3, <1>4, <1>7, <1>8 DEF fresh

\* The three outcomes of an evaluation.
Holds(t, r) ==
  /\ EffectiveMode(r) = "Disabled" \/ ~ Converges(Counted(t))
  /\ observations' = [observations EXCEPT ![r] = Counted(t)]
  /\ Goto(t, NextCell(t))
  /\ UNCHANGED <<anomalies, converged>>
Rises(t, r) ==
  /\ EffectiveMode(r) # "Disabled" /\ Converges(Counted(t)) /\ ~ Escalates(Ladder(t))
  /\ ClearObservations(r)
  /\ WriteAnomaly(t, Counted(t))
  /\ converged' = [converged EXCEPT ![r] = Ladder(t)]
  /\ Goto(t, NextCell(t))
Tops(t, r) ==
  /\ EffectiveMode(r) # "Disabled" /\ Converges(Counted(t)) /\ Escalates(Ladder(t))
  /\ ClearObservations(r)
  /\ WriteAnomaly(t, SourcesOf(Ladder(t)))
  /\ converged' = [converged EXCEPT ![r] = {}]
  /\ \/ EffectiveMode(r) = "Active" /\ Goto(t, [call[t] EXCEPT !.pc = "escalate"])
     \/ Goto(t, NextCell(t))

LEMMA CommitOutcomes ==
  ASSUME NEW t \in Threads, CommitSignal(t), NEW r, r = StateOf(t)
  PROVE  Holds(t, r) \/ Rises(t, r) \/ Tops(t, r)
BY DEF CommitSignal, Holds, Rises, Tops

LEMMA WriteShape ==
  ASSUME Typed, NEW t \in Threads, CommitSignal(t), NEW r, r = StateOf(t),
         NEW S, S \subseteq DOMAIN signals', WriteAnomaly(t, S),
         NEW k, k = Len(anomalies) + 1
  PROVE  /\ anomalies' \in Seq(AnomalyTypes')
         /\ Len(anomalies) \in Nat /\ Len(anomalies') = k
         /\ DOMAIN anomalies = 1..Len(anomalies) /\ DOMAIN anomalies' = 1..k
         /\ \A j \in DOMAIN anomalies : anomalies'[j] = anomalies[j]
         /\ anomalies'[k] = [region |-> r, sources |-> S, at |-> now, mode |-> EffectiveMode(r)]
<1> DEFINE written == [region |-> r, sources |-> S, at |-> now, mode |-> EffectiveMode(r)]
<1>1. r \in Regions /\ EffectiveMode(r) \in Modes /\ now \in Nat
  BY CommitCounts, EffectiveModeTyped DEF Typed, TypeOK
<1>2. written \in AnomalyTypes'
  BY <1>1 DEF AnomalyTypes
<1>3. AnomalyTypes \subseteq AnomalyTypes'
  <2>1. DOMAIN signals \subseteq DOMAIN signals'
    BY CommitCounts
  <2>2. QED
    BY <2>1 DEF AnomalyTypes
<1>4. anomalies \in Seq(AnomalyTypes')
  <2>1. anomalies \in Seq(AnomalyTypes)
    BY DEF Typed, TypeOK, AnomalyTypes
  <2>2. QED
    BY <1>3, <2>1, SeqWider
<1>5. anomalies' = Append(anomalies, written)
  BY DEF WriteAnomaly
<1> HIDE DEF written
<1> DEFINE T == AnomalyTypes'
<1>6. anomalies \in Seq(T) /\ written \in T
  BY <1>2, <1>4
<1> HIDE DEF T
<1>7. /\ anomalies' \in Seq(T)
      /\ Len(anomalies) \in Nat /\ Len(anomalies') = k
      /\ DOMAIN anomalies = 1..Len(anomalies) /\ DOMAIN anomalies' = 1..k
      /\ \A j \in DOMAIN anomalies : anomalies'[j] = anomalies[j]
      /\ anomalies'[k] = written
  BY <1>5, <1>6, AppendProperties
<1>8. QED
  BY <1>7 DEF T, written

LEMMA CommitTyped ==
  ASSUME Typed, NEW t \in Threads, CommitSignal(t)
  PROVE  Typed'
<1> DEFINE r == StateOf(t)
           new == Len(signals) + 1
           later(x) == {i \in DOMAIN signals' : signals'[i].region = x}
<1>1. /\ r \in Regions /\ call[t].pc = "commit" /\ now \in Nat
      /\ UNCHANGED <<population, now, registered, switch, terminated, creates>>
  BY CommitCounts DEF CommitSignal, Typed, TypeOK
<1>2. /\ signals' \in Seq(SignalTypes) /\ DOMAIN signals = 1..Len(signals) /\ DOMAIN signals' = 1..new
      /\ Len(signals) \in Nat
      /\ \A i \in DOMAIN signals : signals'[i] = signals[i]
  BY CommitCounts
<1>3. \A x \in Regions : SignalsOf(x) \subseteq later(x)
  BY <1>2 DEF SignalsOf
<1>4. \A x \in Regions : SignalsOf(x)' = later(x)
  BY DEF SignalsOf
<1>5. Counted(t) \subseteq later(r)
  <2>1. \A i \in Counted(t) : i \in 1..new /\ signals'[i].region = r
    BY CommitCounts
  <2>2. QED
    BY <1>2, <2>1
<1>6. \A c \in Ladder(t) : c.at \in 0..now /\ c.sources \subseteq later(r)
  <2>1. \A c \in Ladder(t) : /\ c.at \in 0..now /\ c.sources \subseteq 1..new
                             /\ \A i \in c.sources : signals'[i].region = r
    BY ZenonT(60), LadderShape
  <2>2. QED
    BY <1>2, <2>1
<1>7. \A c \in Ladder(t) : c \in [at : Nat, sources : SUBSET Nat]
  <2>1. converged[r] \subseteq [at : Nat, sources : SUBSET Nat]
    BY <1>1 DEF Typed, WindowsOK
  <2>2. Counted(t) \subseteq Nat
    BY <1>2, <1>5 DEF SignalsOf
  <2>3. [at |-> now, sources |-> Counted(t)] \in [at : Nat, sources : SUBSET Nat]
    BY <1>1, <2>2
  <2>4. QED
    BY <2>1, <2>3, LadderShape
<1>8. SourcesOf(Ladder(t)) \subseteq DOMAIN signals' /\ Counted(t) \subseteq DOMAIN signals'
  BY <1>5, <1>6 DEF SourcesOf, SignalsOf
<1>9. \A S : S \subseteq DOMAIN signals' /\ WriteAnomaly(t, S) => anomalies' \in Seq(AnomalyTypes')
  BY WriteShape
<1>10. anomalies' \in Seq(AnomalyTypes')
  <2>1. CASE Holds(t, r)
    <3>1. anomalies \in Seq(AnomalyTypes) /\ anomalies' = anomalies
      BY <2>1 DEF Typed, TypeOK, AnomalyTypes, Holds
    <3>2. AnomalyTypes \subseteq AnomalyTypes'
      BY <1>2 DEF AnomalyTypes
    <3>3. QED
      BY <3>1, <3>2, SeqWider
  <2>2. CASE Rises(t, r)
    BY <1>8, <1>9, <2>2 DEF Rises
  <2>3. CASE Tops(t, r)
    BY <1>8, <1>9, <2>3 DEF Tops
  <2>4. QED
    BY <2>1, <2>2, <2>3, CommitOutcomes
<1>11. /\ \A x \in Regions : observations'[x] \subseteq later(x)
       /\ observations' \in [Regions -> SUBSET Nat]
  <2>1. observations' = [observations EXCEPT ![r] = Counted(t)] \/ observations' = [observations EXCEPT ![r] = {}]
    BY CommitOutcomes DEF Holds, Rises, Tops, ClearObservations
  <2>2. /\ \A x \in Regions : observations[x] \subseteq SignalsOf(x)
        /\ observations \in [Regions -> SUBSET Nat]
    BY DEF Typed, TypeOK, WindowsOK
  <2>3. Counted(t) \subseteq Nat
    BY <1>2, <1>5 DEF SignalsOf
  <2>4. QED
    BY <1>1, <1>3, <1>5, <2>1, <2>2, <2>3
<1>12. /\ \A x \in Regions : \A c \in converged'[x] : c.at \in 0..now /\ c.sources \subseteq later(x)
       /\ converged' \in [Regions -> SUBSET [at : Nat, sources : SUBSET Nat]]
  <2>1. \/ converged' = converged
        \/ converged' = [converged EXCEPT ![r] = Ladder(t)]
        \/ converged' = [converged EXCEPT ![r] = {}]
    BY CommitOutcomes DEF Holds, Rises, Tops
  <2>2. /\ \A x \in Regions : \A c \in converged[x] : c.at \in 0..now /\ c.sources \subseteq SignalsOf(x)
        /\ converged \in [Regions -> SUBSET [at : Nat, sources : SUBSET Nat]]
    BY DEF Typed, TypeOK, WindowsOK
  <2> DEFINE T == [at : Nat, sources : SUBSET Nat]
  <2>3. converged \in [Regions -> SUBSET T] /\ Ladder(t) \subseteq T
    BY <1>7, <2>2
  <2> HIDE DEF T
  <2>4. converged' \in [Regions -> SUBSET T]
    BY <2>1, <2>3
  <2>5. \A x \in Regions : converged'[x] \subseteq converged[x] \/ (x = r /\ converged'[x] = Ladder(t))
    BY <1>1, <2>1, <2>3
  <2>6. \A x \in Regions : \A c \in converged'[x] : c.at \in 0..now /\ c.sources \subseteq later(x)
    BY <1>3, <1>6, <2>2, <2>5
  <2>7. QED
    BY <2>4, <2>6 DEF T
<1>13. call' \in [Threads -> Calls'] /\ CallsOK'
  <2>1. menu' = menu /\ registered' = registered
    BY <1>1 DEF population
  <2>2. CASE Goto(t, NextCell(t))
    BY <1>1, <2>1, <2>2, NextCellTyped, GotoTyped
  <2>3. CASE Goto(t, [call[t] EXCEPT !.pc = "escalate"])
    <3> DEFINE step == [call[t] EXCEPT !.pc = "escalate"]
    <3>1. step \in BusyCalls /\ step.cell <= step.upto /\ step.upto <= registered
      BY <1>1, CallBusy DEF BusyCalls
    <3> HIDE DEF step
    <3>2. Goto(t, step)
      BY <2>3 DEF step
    <3>3. QED
      BY <2>1, <3>1, <3>2, GotoTyped
  <2>4. QED
    BY <2>2, <2>3, CommitOutcomes DEF Holds, Rises, Tops
<1>14. AgentsOK' /\ \A i \in DOMAIN agents : agents'[i].since \in 0..now' /\ Spread(agents'[i]) >= 0
  BY <1>1 DEF population, Typed, AgentsOK, TypeOK, Cells
<1>15. TypeOK'
  BY SMTT(30), <1>1, <1>2, <1>4, <1>10, <1>11, <1>12, <1>13, <1>14
  DEF population, switch, Typed, TypeOK, SignalTypes, AnomalyTypes, CallsOK, Cells
<1>16. QED
  BY <1>11, <1>12, <1>14, <1>15 DEF Typed, WindowsOK

LEMMA ShowTyped ==
  ASSUME Typed, NEW i \in DOMAIN Cells, NEW e, EventOK(e),
         NEW seen \in Observations(agents[i], e, now),
         agents' = [agents EXCEPT ![i] = seen.agent], menu' = menu, now' = now
  PROVE  /\ AgentsOK' /\ DOMAIN agents' = DOMAIN agents
         /\ Follows(agents[i], agents'[i], now) /\ seen.outcome \in Outcomes
         /\ \A j \in DOMAIN agents : j # i => agents'[j] = agents[j]
         /\ e.type = "node" /\ seen.outcome = "Damage" => Cells[i].specialization \notin BuiltIn
         /\ e.type = "node" /\ seen.outcome # "Quiet" => Cells[i].specialization # "SilenceObserver"
<1>1. /\ now \in Nat /\ DOMAIN agents = DOMAIN Cells
      /\ \A j \in DOMAIN Cells : AgentOK(agents[j], now) /\ agents[j].kind = Cells[j].specialization
  BY DEF Typed, TypeOK, AgentsOK
<1>2. /\ Follows(agents[i], seen.agent, now) /\ seen.outcome \in Outcomes
      /\ e.type = "node" /\ seen.outcome = "Damage" => agents[i].kind \notin BuiltIn
      /\ e.type = "node" /\ seen.outcome # "Quiet" => agents[i].kind # "SilenceObserver"
  BY <1>1, AgentObserves
<1>3. /\ DOMAIN agents' = DOMAIN agents /\ agents'[i] = seen.agent
      /\ \A j \in DOMAIN agents : j # i => agents'[j] = agents[j]
  BY <1>1
<1>4. Cells' = Cells
  BY DEF Cells
<1>5. AgentOK(seen.agent, now) /\ seen.agent.kind = Cells[i].specialization
  BY <1>1, <1>2 DEF Follows
<1>6. AgentsOK'
  BY <1>1, <1>3, <1>4, <1>5 DEF AgentsOK
<1>7. QED
  BY <1>1, <1>2, <1>3, <1>6

\* What the rest of the type invariant asks of the agents.
LEMMA AgentsSpread ==
  ASSUME AgentsOK, NEW i \in DOMAIN agents, now \in Nat
  PROVE  agents[i].since \in 0..now /\ Spread(agents[i]) >= 0
BY DEF AgentsOK, AgentOK, AgentRecords, Sound

LEMMA TypedStep ==
  ASSUME Typed, [Next]_vars
  PROVE  Typed'
<1> USE ImmuneAssumption
<1>0. now \in Nat /\ menu \in Menus /\ AgentsOK
  BY DEF Typed, TypeOK
<1>1. CASE Tick
  <2>1. /\ now' = now + 1
        /\ UNCHANGED <<menu, agents, registered, signals, anomalies, observations, converged,
                       mode, disabledAt, modeChanges, terminated, call, creates>>
    BY <1>1 DEF Tick, population, aggregation, switch
  <2>2. AgentsOK'
    BY <1>0, <2>1 DEF AgentsOK, AgentOK, AgentRecords, Cells
  <2>3. \A i \in DOMAIN agents : agents'[i].since \in 0..now' /\ Spread(agents'[i]) >= 0
    BY <1>0, <2>1, AgentsSpread
  <2>4. \A r \in Regions : \A c \in converged'[r] : c.at \in 0..now'
    BY SMTT(30), <1>0, <2>1 DEF Typed, TypeOK
  <2>5. TypeOK'
    BY SMTT(30), <1>0, <2>1, <2>3, <2>4 DEF Typed, TypeOK, Calls, SignalsOf, Cells
  <2>6. WindowsOK'
    BY <2>1 DEF Typed, WindowsOK
  <2>7. QED
    BY <2>2, <2>5, <2>6 DEF Typed
<1>2. CASE RegisterCellAgent
  <2>1. /\ registered < Len(Cells) /\ registered' = registered + 1
        /\ UNCHANGED <<menu, agents, now, signals, anomalies, observations, converged,
                       mode, disabledAt, modeChanges, terminated, call, creates>>
    BY <1>2 DEF RegisterCellAgent, population, aggregation, switch
  <2>2. registered' \in 0..Len(Cells)
    BY <1>0, <2>1, CellsTyped DEF Typed, TypeOK
  <2>3. \A t \in Threads : call[t] # Idle => call[t].upto <= registered'
    <3>1. \A t \in Threads : call[t] # Idle => call[t].upto \in Nat /\ call[t].upto <= registered
      BY DEF Typed, TypeOK, Calls
    <3>2. QED
      BY <1>0, <2>1, <3>1, CellsTyped DEF Typed, TypeOK
  <2>4. TypeOK'
    BY <1>0, <2>1, <2>2, <2>3 DEF Typed, TypeOK, Calls, SignalsOf, Cells, Spread
  <2>5. QED
    BY <2>1, <2>4 DEF Typed, WindowsOK, AgentsOK, Cells
<1>3. ASSUME NEW i \in DOMAIN Cells, NEW e \in menu.events, OwnerShows(i, e)
      PROVE  Typed'
  <2>1. EventOK(e)
    BY <1>0 DEF EventOK
  <2>2. PICK seen \in Observations(agents[i], e, now) : agents' = [agents EXCEPT ![i] = seen.agent]
    BY <1>3 DEF OwnerShows
  <2>3. UNCHANGED <<menu, now, registered, signals, anomalies, observations, converged,
                    mode, disabledAt, modeChanges, terminated, call, creates>>
    BY <1>3 DEF OwnerShows, aggregation, switch
  <2>4. AgentsOK'
    BY <2>1, <2>2, <2>3, ShowTyped
  <2>5. \A j \in DOMAIN agents' : agents'[j].since \in 0..now' /\ Spread(agents'[j]) >= 0
    BY <1>0, <2>3, <2>4, AgentsSpread DEF AgentsOK, AgentOK, AgentRecords, Sound
  <2>6. TypeOK'
    BY <2>3, <2>5 DEF Typed, TypeOK, Calls, SignalsOf, Cells
  <2>7. QED
    BY <2>3, <2>4, <2>6 DEF Typed, WindowsOK
<1>4. ASSUME NEW r \in Regions, OperatorTriggers(r) \/ \E m \in Modes : SetResponseMode(r, m)
      PROVE  Typed'
  <2>1. /\ UNCHANGED <<menu, agents, now, registered, signals, anomalies, observations, converged,
                       call, creates>>
        /\ mode' \in [Regions -> Modes] /\ disabledAt' \in [Regions -> Nat] /\ modeChanges' \in Nat
        /\ terminated' \in [Regions -> {"no", "operator", "immune"}]
    <3>1. /\ mode \in [Regions -> Modes] /\ disabledAt \in [Regions -> Nat] /\ modeChanges \in Nat
          /\ terminated \in [Regions -> {"no", "operator", "immune"}]
      BY DEF Typed, TypeOK
    <3>2. CASE OperatorTriggers(r)
      BY <3>1, <3>2 DEF OperatorTriggers, population, aggregation, switch
    <3>3. CASE \E m \in Modes : SetResponseMode(r, m)
      BY <1>0, <3>1, <3>3 DEF SetResponseMode, population, aggregation
    <3>4. QED
      BY <1>4, <3>2, <3>3
  <2>2. TypeOK'
    BY <2>1 DEF Typed, TypeOK, Calls, SignalsOf, Cells, Spread
  <2>3. QED
    BY <2>1, <2>2 DEF Typed, WindowsOK, AgentsOK, Cells
<1>5. ASSUME NEW t \in Threads, ObserveNode(t)
      PROVE  Typed'
  <2> DEFINE i == call[t].cell
             e == NodeEvent(call[t].content)
  <2>1. PICK seen \in Observations(agents[i], e, now) :
          /\ agents' = [agents EXCEPT ![i] = seen.agent]
          /\ Goto(t, IF seen.outcome = "Quiet" THEN NextCell(t)
                     ELSE [call[t] EXCEPT !.pc = "commit", !.damage = (seen.outcome = "Damage")])
    BY <1>5 DEF ObserveNode
  <2>2. /\ call[t].pc = "observe"
        /\ UNCHANGED <<menu, now, registered, signals, anomalies, observations, converged,
                       mode, disabledAt, modeChanges, terminated, creates>>
    BY <1>5 DEF ObserveNode, aggregation, switch
  <2>3. i \in DOMAIN Cells /\ EventOK(e)
    BY <2>2, CallBusy DEF EventOK, NodeEvent
  <2>4. AgentsOK'
    BY <2>1, <2>2, <2>3, ShowTyped
  <2>5. \A j \in DOMAIN agents' : agents'[j].since \in 0..now' /\ Spread(agents'[j]) >= 0
    BY <1>0, <2>2, <2>4, AgentsSpread DEF AgentsOK, AgentOK, AgentRecords, Sound
  <2>6. call' \in [Threads -> Calls'] /\ CallsOK'
    <3>1. CASE seen.outcome = "Quiet"
      BY <2>1, <2>2, <3>1, NextCellTyped, GotoTyped
    <3>2. CASE seen.outcome # "Quiet"
      <4> DEFINE step == [call[t] EXCEPT !.pc = "commit", !.damage = (seen.outcome = "Damage")]
      <4>1. Goto(t, step)
        BY <2>1, <3>2
      <4>2. step \in BusyCalls /\ step.cell <= step.upto /\ step.upto <= registered
        BY <2>2, CallBusy DEF BusyCalls
      <4> HIDE DEF step
      <4>3. QED
        BY <2>2, <4>1, <4>2, GotoTyped
    <3>3. QED
      BY <3>1, <3>2
  <2>7. TypeOK'
    BY <2>2, <2>5, <2>6 DEF Typed, TypeOK, SignalsOf, Cells, CallsOK
  <2>8. QED
    BY <2>2, <2>4, <2>7 DEF Typed, WindowsOK
<1>6. ASSUME NEW t \in Threads, CommitSignal(t)
      PROVE  Typed'
  BY <1>6, CommitTyped
<1>7. ASSUME NEW t \in Threads, Escalate(t)
      PROVE  Typed'
  <2>1. /\ call[t].pc = "escalate" /\ Goto(t, NextCell(t))
        /\ UNCHANGED <<menu, agents, now, registered, signals, anomalies, observations, converged,
                       mode, disabledAt, modeChanges, creates>>
    BY <1>7 DEF Escalate, population, aggregation, switch
  <2>2. terminated' \in [Regions -> {"no", "operator", "immune"}]
    BY <1>7 DEF Escalate, Typed, TypeOK
  <2>3. call' \in [Threads -> Calls'] /\ CallsOK'
    BY <2>1, NextCellTyped, GotoTyped
  <2>4. TypeOK'
    BY <2>1, <2>2, <2>3 DEF Typed, TypeOK, SignalsOf, Cells, Spread, CallsOK
  <2>5. QED
    BY <2>1, <2>4 DEF Typed, WindowsOK, AgentsOK, Cells
<1>8. ASSUME NEW t \in Threads, NEW r \in Regions, NEW content \in menu.contents,
             Create(t, r, content)
      PROVE  Typed'
  <2> DEFINE step == [pc |-> "observe", cell |-> 1, upto |-> registered,
                      content |-> content, damage |-> FALSE]
  <2>1. /\ registered > 0 /\ Goto(t, step) /\ creates' = creates + 1
        /\ UNCHANGED <<menu, agents, now, registered, signals, anomalies, observations, converged,
                       mode, disabledAt, modeChanges, terminated>>
    BY <1>8 DEF Create, population, aggregation, switch
  <2>2. registered \in Nat
    BY <1>0, CellsTyped DEF Typed, TypeOK
  <2>3. step \in BusyCalls /\ step.cell <= step.upto /\ step.upto <= registered
    BY <2>1, <2>2 DEF BusyCalls
  <2> HIDE DEF step
  <2>4. call' \in [Threads -> Calls'] /\ CallsOK'
    BY <2>1, <2>3, GotoTyped
  <2>5. TypeOK'
    BY SMTT(30), <2>1, <2>4 DEF Typed, TypeOK, SignalsOf, Cells, Spread, CallsOK
  <2>6. QED
    BY <2>1, <2>5 DEF Typed, WindowsOK, AgentsOK, Cells
<1>9. CASE UNCHANGED vars
  BY ZenonT(60), <1>9 DEF vars, population, aggregation, switch, Typed, TypeOK, WindowsOK, AgentsOK, Cells,
              Calls, SignalsOf, Spread
<1>10. QED
  BY <1>1, <1>2, <1>3, <1>4, <1>5, <1>6, <1>7, <1>8, <1>9 DEF Next, Dispatch

\* Every variable keeps its type, every baseline is one of samples that were
\* folded (its spread is never negative), and a dispatch serves only agents that
\* were registered before it.
THEOREM TypeCorrect == Spec => [](TypeOK /\ AgentsOK /\ WindowsOK)
<1>1. Init => Typed
  <2> SUFFICES ASSUME Init
               PROVE  Typed
    OBVIOUS
  <2>1. menu \in Menus /\ now = 0 /\ registered = 0 /\ signals = <<>> /\ anomalies = <<>>
    BY DEF Init
  <2>2. Len(Cells) \in Nat /\ \A i \in DOMAIN Cells : Cells[i].specialization \in Specializations
    BY <2>1, CellsTyped
  <2>3. \A i \in DOMAIN Cells : /\ agents[i] = NewAgent(Cells[i].specialization, 0)
                                /\ agents[i] \in AgentRecords /\ Sound(agents[i]) /\ agents[i].since = 0
                                /\ agents[i].kind = Cells[i].specialization /\ Spread(agents[i]) = 0
    BY <2>2 DEF Init, NewAgent, AgentRecords, Sound, Spread
  <2>4. AgentsOK /\ DOMAIN agents = DOMAIN Cells
    BY <2>1, <2>3 DEF Init, AgentsOK, AgentOK
  <2>5. WindowsOK
    BY DEF Init, WindowsOK
  <2>6. \A i \in DOMAIN agents : agents[i].since \in 0..now /\ Spread(agents[i]) >= 0
    BY <2>1, <2>3, <2>4
  <2>7. signals \in Seq(SignalTypes) /\ anomalies \in Seq(AnomalyTypes)
    BY <2>1
  <2>8. /\ mode \in [Regions -> Modes] /\ disabledAt \in [Regions -> Nat]
        /\ terminated \in [Regions -> {"no", "operator", "immune"}]
        /\ creates \in Nat /\ modeChanges \in Nat
    BY DEF Init, Modes
  <2>9. call \in [Threads -> Calls] /\ \A t \in Threads : call[t] = Idle
    BY DEF Init, Calls
  <2>10. \A r \in Regions : observations[r] = {} /\ converged[r] = {}
    BY DEF Init
  <2>11. TypeOK
    BY <2>1, <2>2, <2>6, <2>7, <2>8, <2>9, <2>10 DEF TypeOK, SignalTypes, AnomalyTypes
  <2>12. QED
    BY <2>4, <2>5, <2>11 DEF Typed
<1>2. Typed /\ [Next]_vars => Typed'
  BY TypedStep
<1>3. QED
  BY <1>1, <1>2, PTL DEF Spec, Typed

LEMMA AlwaysTyped == Spec => []Typed
BY TypeCorrect, PTL DEF Typed

\* A baseline that is warm and constant stays constant at the same mean, whatever
\* an agent is shown: what differs is flagged and never becomes part of it, so an
\* agent that once learned a constant cannot be taught another value.
THEOREM ConstantForGood == Spec => ConstantBaselineStays
<1> DEFINE Stays == \A i \in DOMAIN agents : Warm(agents[i]) /\ Constant(agents[i]) =>
                      Constant(agents'[i]) /\ agents'[i].sum * agents[i].n = agents[i].sum * agents'[i].n
<1>1. ASSUME Typed, Next
      PROVE  Stays \/ UNCHANGED vars
  <2>0. menu \in Menus /\ DOMAIN agents = DOMAIN Cells
    BY <1>1 DEF Typed, TypeOK, AgentsOK
  <2>1. CASE agents' = agents
    <3>1. \A i \in DOMAIN agents : agents[i].n \in Nat /\ agents[i].sum \in Int
      BY <1>1 DEF Typed, AgentsOK, AgentOK, AgentRecords
    <3>2. QED
      BY <2>1, <3>1 DEF Constant, Spread
  <2>2. ASSUME NEW i \in DOMAIN Cells, NEW e, EventOK(e), NEW seen \in Observations(agents[i], e, now),
               agents' = [agents EXCEPT ![i] = seen.agent], menu' = menu, now' = now
        PROVE  Stays
    <3>1. /\ Follows(agents[i], agents'[i], now)
          /\ \A j \in DOMAIN agents : j # i => agents'[j] = agents[j]
      BY <1>1, <2>2, ShowTyped
    <3>2. \A j \in DOMAIN agents : agents[j].n \in Nat /\ agents[j].sum \in Int
      BY <1>1 DEF Typed, AgentsOK, AgentOK, AgentRecords
    <3>3. ASSUME NEW j \in DOMAIN agents, Warm(agents[j]), Constant(agents[j])
          PROVE  Constant(agents'[j]) /\ agents'[j].sum * agents[j].n = agents[j].sum * agents'[j].n
      <4>1. CASE j = i
        BY <3>1, <3>3, <4>1 DEF Follows, Kept
      <4>2. CASE j # i
        BY <3>1, <3>2, <3>3, <4>2
      <4>3. QED
        BY <4>1, <4>2
    <3>4. QED
      BY <3>3
  <2>3. CASE \E i \in DOMAIN Cells, e \in menu.events : OwnerShows(i, e)
    BY <2>0, <2>2, <2>3, ImmuneAssumption DEF OwnerShows, EventOK
  <2>4. CASE \E t \in Threads : ObserveNode(t)
    <3>1. PICK t \in Threads : ObserveNode(t)
      BY <2>4
    <3>2. call[t].cell \in DOMAIN Cells
      BY <1>1, <3>1, CallBusy DEF ObserveNode
    <3>3. EventOK(NodeEvent(call[t].content))
      BY DEF EventOK, NodeEvent
    <3>4. QED
      BY <2>2, <3>1, <3>2, <3>3 DEF ObserveNode
  <2>5. CASE /\ ~ \E i \in DOMAIN Cells, e \in menu.events : OwnerShows(i, e)
             /\ ~ \E t \in Threads : ObserveNode(t)
    <3>1. agents' = agents
      BY <1>1, <2>5
      DEF Next, Dispatch, Tick, RegisterCellAgent, OperatorTriggers, SetResponseMode, CommitSignal,
          Escalate, Create, population
    <3>2. QED
      BY <2>1, <3>1
  <2>6. QED
    BY <2>3, <2>4, <2>5
<1>2. Typed /\ [Next]_vars => [Stays]_vars
  BY <1>1
<1>3. QED
  BY <1>2, AlwaysTyped, PTL DEF Spec, ConstantBaselineStays

-----------------------------------------------------------------------------
(***************************************************************************)
(* Second layer: what becomes of a signal.  It is in the window of its     *)
(* region, or in one receipt, or it is too old to count; and what the      *)
(* escalation window holds are receipts that no other receipt overlaps.    *)
(***************************************************************************)
Receipt(i) == \E j \in DOMAIN anomalies : i \in anomalies[j].sources

Remembered ==
  \A i \in DOMAIN signals :
    \/ Receipt(i)
    \/ i \in observations[signals[i].region]
    \/ signals[i].at + ConvergenceWindow < now

\* A signal of the window has not counted for any convergence yet.
Fresh == \A r \in Regions, j \in DOMAIN anomalies : observations[r] \cap anomalies[j].sources = {}

SourcesOK ==
  \A j \in DOMAIN anomalies :
    anomalies[j].sources # {} /\ \A i \in anomalies[j].sources : signals[i].region = anomalies[j].region

\* Receipt j is what was written when c converged, and no other sums it up.
Tells(j, r, c) ==
  /\ anomalies[j].region = r /\ anomalies[j].at = c.at /\ anomalies[j].sources = c.sources
  /\ \A k \in DOMAIN anomalies : k # j => anomalies[k].sources \cap c.sources = {}

AllTold == \A r \in Regions : \A c \in converged[r] : \E j \in DOMAIN anomalies : Tells(j, r, c)

Memory == Remembered /\ Fresh /\ SourcesOK /\ AllTold

\* Only a commit touches the signals, the receipts and the windows.
LEMMA StepShape ==
  ASSUME Typed, [Next]_vars
  PROVE  /\ menu' = menu /\ menu \in Menus
         /\ now \in Nat /\ now' \in Nat /\ now' >= now
         /\ \/ UNCHANGED <<signals, anomalies, observations, converged>>
            \/ \E t \in Threads : CommitSignal(t) /\ now' = now
<1>1. menu \in Menus /\ now \in Nat
  BY DEF Typed, TypeOK
<1> DEFINE Still == UNCHANGED <<signals, anomalies, observations, converged>>
<1>2. CASE Tick
  BY <1>1, <1>2 DEF Tick, population, aggregation
<1>3. CASE RegisterCellAgent
  BY <1>1, <1>3 DEF RegisterCellAgent, population, aggregation
<1>4. ASSUME NEW i \in DOMAIN Cells, NEW e \in menu.events, OwnerShows(i, e)
      PROVE  menu' = menu /\ now' = now /\ Still
  BY <1>4 DEF OwnerShows, aggregation
<1>5. ASSUME NEW r \in Regions, OperatorTriggers(r) \/ \E m \in Modes : SetResponseMode(r, m)
      PROVE  menu' = menu /\ now' = now /\ Still
  BY <1>5 DEF OperatorTriggers, SetResponseMode, population, aggregation
<1>6. ASSUME NEW t \in Threads, ObserveNode(t) \/ Escalate(t)
      PROVE  menu' = menu /\ now' = now /\ Still
  BY <1>6 DEF ObserveNode, Escalate, population, aggregation
<1>7. ASSUME NEW t \in Threads, CommitSignal(t)
      PROVE  menu' = menu /\ now' = now
  BY <1>7 DEF CommitSignal, population
<1>8. ASSUME NEW t \in Threads, NEW r \in Regions, NEW content \in menu.contents, Create(t, r, content)
      PROVE  menu' = menu /\ now' = now /\ Still
  BY <1>8 DEF Create, population, aggregation
<1>9. CASE UNCHANGED vars
  BY <1>1, <1>9 DEF vars, population, aggregation
<1> HIDE DEF Still
<1>10. \/ menu' = menu /\ now' = now /\ (Still \/ \E t \in Threads : CommitSignal(t))
       \/ Tick \/ RegisterCellAgent \/ UNCHANGED vars
  BY <1>4, <1>5, <1>6, <1>7, <1>8 DEF Next, Dispatch
<1>11. QED
  BY <1>1, <1>2, <1>3, <1>9, <1>10 DEF Still

LEMMA TypedSequences ==
  ASSUME Typed
  PROVE  /\ Len(signals) \in Nat /\ DOMAIN signals = 1..Len(signals)
         /\ Len(anomalies) \in Nat /\ DOMAIN anomalies = 1..Len(anomalies)
         /\ \A i \in DOMAIN signals : /\ signals[i] \in SignalTypes /\ signals[i].at \in Nat
                                      /\ signals[i].region \in Regions
         /\ \A j \in DOMAIN anomalies : /\ anomalies[j] \in AnomalyTypes /\ anomalies[j].at \in Nat
                                        /\ anomalies[j].region \in Regions
                                        /\ anomalies[j].sources \subseteq DOMAIN signals
         /\ \A r \in Regions : /\ observations[r] \subseteq DOMAIN signals
                               /\ \A i \in observations[r] : signals[i].region = r
<1>1. signals \in Seq(SignalTypes) /\ anomalies \in Seq(AnomalyTypes)
  BY DEF Typed, TypeOK, SignalTypes, AnomalyTypes
<1>2. /\ Len(signals) \in Nat /\ DOMAIN signals = 1..Len(signals)
      /\ Len(anomalies) \in Nat /\ DOMAIN anomalies = 1..Len(anomalies)
      /\ \A i \in DOMAIN signals : signals[i] \in SignalTypes
      /\ \A j \in DOMAIN anomalies : anomalies[j] \in AnomalyTypes
  <2> DEFINE S == SignalTypes
             A == AnomalyTypes
  <2>1. signals \in Seq(S) /\ anomalies \in Seq(A)
    BY <1>1
  <2> HIDE DEF S, A
  <2>2. QED
    BY <2>1 DEF S, A
<1>3. /\ \A x \in SignalTypes : x.at \in Nat /\ x.region \in Regions
      /\ \A x \in AnomalyTypes : /\ x.at \in Nat /\ x.region \in Regions
                                 /\ x.sources \subseteq DOMAIN signals
  BY DEF SignalTypes, AnomalyTypes
<1>4. \A r \in Regions : /\ observations[r] \subseteq DOMAIN signals
                         /\ \A i \in observations[r] : signals[i].region = r
  BY DEF Typed, TypeOK, SignalsOf
<1>5. QED
  BY <1>2, <1>3, <1>4

LEMMA NamedIsReceipt ==
  ASSUME Typed
  PROVE  \A i : i \in Named(Len(anomalies)) <=> Receipt(i)
BY TypedSequences DEF Named, Receipt

\* One more receipt, k, for region r with sources S.
Appended(k, r, S) ==
  /\ DOMAIN anomalies = 1..(k - 1) /\ DOMAIN anomalies' = 1..k
  /\ \A j \in DOMAIN anomalies : anomalies'[j] = anomalies[j]
  /\ anomalies'[k] = [region |-> r, sources |-> S, at |-> now, mode |-> EffectiveMode(r)]

\* A commit either holds its signal in the window, or writes a receipt.
LEMMA CommitEffect ==
  ASSUME Typed, NEW t \in Threads, CommitSignal(t), NEW r, r = StateOf(t),
         NEW new, new = Len(signals) + 1, NEW k, k = Len(anomalies) + 1
  PROVE  /\ \/ Holds(t, r)
            \/ \E S : /\ Counted(t) \subseteq S /\ S \subseteq 1..new
                      /\ \A i \in S : signals'[i].region = r
                      /\ Appended(k, r, S)
                      /\ observations' = [observations EXCEPT ![r] = {}]
                      /\ \/ Rises(t, r) /\ S = Counted(t)
                         \/ Tops(t, r) /\ S = SourcesOf(Ladder(t))
         /\ k \in Nat /\ k \notin DOMAIN anomalies
<1>1. DOMAIN signals' = 1..new /\ \A i \in Counted(t) : i \in 1..new /\ signals'[i].region = r
  BY CommitCounts
<1>2. /\ Counted(t) \subseteq SourcesOf(Ladder(t))
      /\ \A i \in SourcesOf(Ladder(t)) : i \in 1..new /\ signals'[i].region = r
  <2>1. /\ Counted(t) \subseteq SourcesOf(Ladder(t))
        /\ \A c \in Ladder(t) : c.sources \subseteq 1..new /\ \A i \in c.sources : signals'[i].region = r
    BY ZenonT(60), LadderShape
  <2>2. QED
    BY <2>1 DEF SourcesOf
<1>3. ASSUME NEW S, S \subseteq 1..new, WriteAnomaly(t, S)
      PROVE  Appended(k, r, S)
  <2>1. /\ Len(anomalies) \in Nat
        /\ DOMAIN anomalies = 1..Len(anomalies) /\ DOMAIN anomalies' = 1..k
        /\ \A j \in DOMAIN anomalies : anomalies'[j] = anomalies[j]
        /\ anomalies'[k] = [region |-> r, sources |-> S, at |-> now, mode |-> EffectiveMode(r)]
    <3>1. S \subseteq DOMAIN signals'
      BY <1>1, <1>3
    <3>2. QED
      BY ZenonT(60), <1>3, <3>1, WriteShape
  <2>2. DOMAIN anomalies = 1..(k - 1)
    BY <2>1
  <2>3. QED
    BY <2>1, <2>2 DEF Appended
<1>4. k \in Nat /\ k \notin DOMAIN anomalies
  BY TypedSequences
<1>5. CASE Rises(t, r)
  <2>1. /\ WriteAnomaly(t, Counted(t)) /\ Counted(t) \subseteq 1..new
        /\ observations' = [observations EXCEPT ![r] = {}]
    BY <1>1, <1>5 DEF Rises, ClearObservations
  <2>2. Appended(k, r, Counted(t))
    BY <1>3, <2>1
  <2>3. QED
    BY <1>1, <1>4, <1>5, <2>1, <2>2
<1>6. CASE Tops(t, r)
  <2>1. /\ WriteAnomaly(t, SourcesOf(Ladder(t))) /\ SourcesOf(Ladder(t)) \subseteq 1..new
        /\ observations' = [observations EXCEPT ![r] = {}]
    BY <1>2, <1>6 DEF Tops, ClearObservations
  <2>2. Appended(k, r, SourcesOf(Ladder(t)))
    BY <1>3, <2>1
  <2>3. \A i \in SourcesOf(Ladder(t)) : signals'[i].region = r
    BY <1>2
  <2>4. PICK S : S = SourcesOf(Ladder(t))
    OBVIOUS
  <2>5. Counted(t) \subseteq S /\ S \subseteq 1..new
    BY <1>2, <2>4
  <2>6. QED
    BY <1>4, <1>6, <2>1, <2>2, <2>3, <2>4, <2>5
<1>7. QED
  BY <1>4, <1>5, <1>6, CommitOutcomes

LEMMA RememberedStep ==
  ASSUME Typed, Typed', Remembered, [Next]_vars
  PROVE  Remembered'
<1>1. CASE UNCHANGED <<signals, anomalies, observations, converged>>
  <2>1. now' >= now /\ now \in Nat /\ now' \in Nat
    BY StepShape
  <2>2. QED
    BY SMTT(30), <1>1, <2>1, TypedSequences, ImmuneAssumption DEF Remembered, Receipt
<1>2. ASSUME NEW t \in Threads, CommitSignal(t), now' = now
      PROVE  Remembered'
  <2>1. PICK r, new, k : r = StateOf(t) /\ new = Len(signals) + 1 /\ k = Len(anomalies) + 1
    OBVIOUS
  <2>2. /\ r \in Regions /\ DOMAIN signals = 1..Len(signals) /\ DOMAIN signals' = 1..new
        /\ Len(signals) \in Nat
        /\ \A i \in DOMAIN signals : signals'[i] = signals[i]
        /\ signals'[new].region = r /\ new \in Counted(t)
        /\ \A i \in observations[r] : i \in Counted(t) <=> signals[i].at + ConvergenceWindow >= now
    BY <1>2, <2>1, CommitCounts
  <2>3. /\ now \in Nat /\ \A i \in DOMAIN signals : signals[i].at \in Nat /\ signals[i].region \in Regions
    BY TypedSequences DEF Typed, TypeOK
  <2>4. observations \in [Regions -> SUBSET Nat]
    BY DEF Typed, WindowsOK
  <2>5. ASSUME NEW i \in DOMAIN signals'
        PROVE  Receipt(i)' \/ i \in observations'[signals'[i].region]
               \/ signals'[i].at + ConvergenceWindow < now
    <3>1. i = new \/ i \in DOMAIN signals
      BY <2>1, <2>2
    <3>2. CASE Holds(t, r)
      <4>1. observations' = [observations EXCEPT ![r] = Counted(t)] /\ anomalies' = anomalies
        BY <3>2 DEF Holds
      <4>2. CASE i = new
        BY <2>2, <2>4, <4>1, <4>2
      <4>3. CASE i \in DOMAIN signals /\ signals[i].region = r
        <5>1. Receipt(i) => Receipt(i)'
          BY <4>1 DEF Receipt
        <5>2. observations'[r] = Counted(t)
          BY <2>2, <2>4, <4>1
        <5>3. i \in observations[r] => i \in Counted(t) \/ signals[i].at + ConvergenceWindow < now
          BY <2>2, <2>3, <4>3, ImmuneAssumption
        <5>4. QED
          BY <2>2, <4>3, <5>1, <5>2, <5>3 DEF Remembered
      <4>4. CASE i \in DOMAIN signals /\ signals[i].region # r
        <5>1. Receipt(i) => Receipt(i)'
          BY <4>1 DEF Receipt
        <5>2. observations'[signals[i].region] = observations[signals[i].region]
          BY <2>3, <2>4, <4>1, <4>4
        <5>3. QED
          BY <2>2, <4>4, <5>1, <5>2 DEF Remembered
      <4>5. QED
        BY <3>1, <4>2, <4>3, <4>4
    <3>3. ASSUME NEW S, Counted(t) \subseteq S, Appended(k, r, S),
                 observations' = [observations EXCEPT ![r] = {}]
          PROVE  Receipt(i)' \/ i \in observations'[signals'[i].region]
                 \/ signals'[i].at + ConvergenceWindow < now
      <4>1. /\ \A j \in S : Receipt(j)'
            /\ Receipt(i) => Receipt(i)'
        <5>1. k \in DOMAIN anomalies' /\ anomalies'[k].sources = S
          BY <2>1, <3>3, TypedSequences DEF Appended
        <5>2. \A j \in DOMAIN anomalies : j \in DOMAIN anomalies' /\ anomalies'[j] = anomalies[j]
          BY <2>1, <3>3, TypedSequences DEF Appended
        <5>3. QED
          BY <5>1, <5>2 DEF Receipt
      <4>2. CASE i = new
        BY <2>2, <3>3, <4>1, <4>2
      <4>3. CASE i \in DOMAIN signals /\ signals[i].region = r
        <5>1. i \in observations[r] => i \in Counted(t) \/ signals[i].at + ConvergenceWindow < now
          BY <2>2, <2>3, <4>3, ImmuneAssumption
        <5>2. QED
          BY <2>2, <3>3, <4>1, <4>3, <5>1 DEF Remembered
      <4>4. CASE i \in DOMAIN signals /\ signals[i].region # r
        <5>1. observations'[signals[i].region] = observations[signals[i].region]
          BY <2>3, <2>4, <3>3, <4>4
        <5>2. QED
          BY <2>2, <4>1, <4>4, <5>1 DEF Remembered
      <4>5. QED
        BY <3>1, <4>2, <4>3, <4>4
    <3>4. QED
      BY <1>2, <2>1, <3>2, <3>3, CommitEffect
  <2>6. QED
    BY <1>2, <2>5 DEF Remembered
<1>3. QED
  BY <1>1, <1>2, StepShape

\* What an evaluation counts, no receipt names.
LEMMA CountedUnnamed ==
  ASSUME Typed, Fresh, NEW t \in Threads, CommitSignal(t)
  PROVE  \A j \in DOMAIN anomalies, i \in Counted(t) : i \notin anomalies[j].sources
<1>1. PICK r, new : r = StateOf(t) /\ new = Len(signals) + 1
  OBVIOUS
<1>2. /\ r \in Regions /\ DOMAIN signals = 1..Len(signals) /\ Len(signals) \in Nat
      /\ Counted(t) \subseteq observations[r] \cup {new}
  BY <1>1, CommitCounts
<1>3. \A j \in DOMAIN anomalies : anomalies[j].sources \subseteq DOMAIN signals
  BY TypedSequences
<1>4. QED
  BY <1>1, <1>2, <1>3 DEF Fresh

LEMMA FreshStep ==
  ASSUME Typed, Fresh, [Next]_vars
  PROVE  Fresh'
<1>1. CASE UNCHANGED <<signals, anomalies, observations, converged>>
  BY <1>1 DEF Fresh
<1>2. ASSUME NEW t \in Threads, CommitSignal(t)
      PROVE  Fresh'
  <2>1. PICK r, new, k : r = StateOf(t) /\ new = Len(signals) + 1 /\ k = Len(anomalies) + 1
    OBVIOUS
  <2>2. /\ r \in Regions /\ DOMAIN signals = 1..Len(signals) /\ Len(signals) \in Nat
        /\ \A i \in DOMAIN signals : signals'[i] = signals[i]
    BY <1>2, <2>1, CommitCounts
  <2>3. /\ \A j \in DOMAIN anomalies, i \in Counted(t) : i \notin anomalies[j].sources
        /\ observations \in [Regions -> SUBSET Nat]
    BY <1>2, CountedUnnamed DEF Typed, WindowsOK
  <2>4. CASE Holds(t, r)
    BY <2>2, <2>3, <2>4 DEF Holds, Fresh
  <2>5. ASSUME NEW S, \A i \in S : signals'[i].region = r, Appended(k, r, S),
               observations' = [observations EXCEPT ![r] = {}]
        PROVE  Fresh'
    <3>1. \A x \in Regions : \A i \in observations'[x] : i \in observations[x] /\ x # r
      BY <2>2, <2>3, <2>5
    <3>2. \A x \in Regions : \A i \in observations[x] : i \in DOMAIN signals /\ signals[i].region = x
      BY TypedSequences
    <3>3. \A x \in Regions : \A i \in observations'[x] : i \notin S
      BY <2>2, <2>5, <3>1, <3>2
    <3>4. \A j \in DOMAIN anomalies' : \/ j \in DOMAIN anomalies /\ anomalies'[j] = anomalies[j]
                                       \/ anomalies'[j].sources = S
      <4>1. \A j \in 1..k : j \in 1..(k - 1) \/ j = k
        BY <2>1, TypedSequences
      <4>2. QED
        BY <2>5, <4>1 DEF Appended
    <3>5. QED
      BY <3>1, <3>3, <3>4 DEF Fresh
  <2>6. QED
    BY <1>2, <2>1, <2>4, <2>5, CommitEffect
<1>3. QED
  BY <1>1, <1>2, StepShape

LEMMA SourcesStep ==
  ASSUME Typed, SourcesOK, [Next]_vars
  PROVE  SourcesOK'
<1>1. CASE UNCHANGED <<signals, anomalies, observations, converged>>
  BY <1>1 DEF SourcesOK
<1>2. ASSUME NEW t \in Threads, CommitSignal(t)
      PROVE  SourcesOK'
  <2>1. PICK r, new, k : r = StateOf(t) /\ new = Len(signals) + 1 /\ k = Len(anomalies) + 1
    OBVIOUS
  <2>2. /\ \A i \in DOMAIN signals : signals'[i] = signals[i]
        /\ new \in Counted(t)
    BY <1>2, <2>1, CommitCounts
  <2>3. \A j \in DOMAIN anomalies : anomalies[j].sources \subseteq DOMAIN signals
    BY TypedSequences
  <2>4. \A j \in DOMAIN anomalies :
          /\ anomalies[j].sources # {}
          /\ \A i \in anomalies[j].sources : signals'[i].region = anomalies[j].region
    BY <2>2, <2>3 DEF SourcesOK
  <2>5. CASE Holds(t, r)
    BY <2>4, <2>5 DEF Holds, SourcesOK
  <2>6. ASSUME NEW S, Counted(t) \subseteq S, \A i \in S : signals'[i].region = r, Appended(k, r, S)
        PROVE  SourcesOK'
    <3>1. \A j \in 1..k : j \in 1..(k - 1) \/ j = k
      BY <2>1, TypedSequences
    <3>2. QED
      BY <2>2, <2>4, <2>6, <3>1 DEF Appended, SourcesOK
  <2>7. QED
    BY <1>2, <2>1, <2>5, <2>6, CommitEffect
<1>3. QED
  BY <1>1, <1>2, StepShape

\* A convergence stays told while no receipt with its sources is added.
LEMMA TellsStays ==
  ASSUME NEW k, NEW r, NEW S, Appended(k, r, S), k \in Nat, k \notin DOMAIN anomalies,
         NEW x, NEW c, NEW j \in DOMAIN anomalies, Tells(j, x, c), S \cap c.sources = {}
  PROVE  j \in DOMAIN anomalies' /\ Tells(j, x, c)'
BY DEF Appended, Tells

LEMMA ToldStep ==
  ASSUME Typed, Fresh, SourcesOK, AllTold, [Next]_vars
  PROVE  AllTold'
<1>1. CASE UNCHANGED <<signals, anomalies, observations, converged>>
  BY <1>1 DEF AllTold, Tells
<1>2. ASSUME NEW t \in Threads, CommitSignal(t)
      PROVE  AllTold'
  <2>1. PICK r, new, k : r = StateOf(t) /\ new = Len(signals) + 1 /\ k = Len(anomalies) + 1
    OBVIOUS
  <2>2. /\ r \in Regions /\ \A i \in DOMAIN signals : signals'[i] = signals[i]
    BY <1>2, <2>1, CommitCounts
  <2>3. /\ \A j \in DOMAIN anomalies, i \in Counted(t) : i \notin anomalies[j].sources
        /\ converged \in [Regions -> SUBSET [at : Nat, sources : SUBSET Nat]]
        /\ k \in Nat /\ k \notin DOMAIN anomalies
    BY <1>2, <2>1, CountedUnnamed, CommitEffect DEF Typed, WindowsOK
  <2>4. CASE Holds(t, r)
    BY <2>4 DEF Holds, AllTold, Tells
  <2>5. CASE Rises(t, r) /\ Appended(k, r, Counted(t))
    <3>1. converged' = [converged EXCEPT ![r] = Ladder(t)]
      BY <2>5 DEF Rises
    <3>2. PICK C : C = Counted(t)
      OBVIOUS
    <3>3. /\ \A c \in Ladder(t) : c \in converged[r] \/ c = [at |-> now, sources |-> C]
          /\ \A x \in Regions : x # r => converged'[x] = converged[x]
          /\ converged'[r] = Ladder(t)
      <4>1. converged'[r] = Ladder(t) /\ \A x \in Regions : x # r => converged'[x] = converged[x]
        BY <2>2, <2>3, <3>1
      <4>2. QED
        BY <1>2, <2>1, <3>2, <4>1, LadderShape
    <3>4. ASSUME NEW x \in Regions, NEW c \in converged[x]
          PROVE  \E j \in DOMAIN anomalies' : Tells(j, x, c)'
      <4>1. PICK j \in DOMAIN anomalies : Tells(j, x, c)
        BY <3>4 DEF AllTold
      <4>2. C \cap c.sources = {}
        BY <2>3, <3>2, <4>1 DEF Tells
      <4>3. Appended(k, r, C)
        BY <2>5, <3>2
      <4>4. QED
        BY <2>3, <4>1, <4>2, <4>3, TellsStays
    <3>5. PICK c : c = [at |-> now, sources |-> C]
      OBVIOUS
    <3>6. k \in DOMAIN anomalies' /\ Tells(k, r, c)'
      <4>1. /\ k \in DOMAIN anomalies' /\ anomalies'[k].region = r /\ anomalies'[k].at = c.at
            /\ anomalies'[k].sources = c.sources /\ c.sources = C
        <5>1. k \in 1..k /\ c.at = now /\ c.sources = C
          BY <2>1, <3>5, TypedSequences
        <5>2. QED
          BY <2>5, <3>2, <5>1 DEF Appended
      <4>2. \A j \in DOMAIN anomalies' : j # k =>
              j \in DOMAIN anomalies /\ anomalies'[j] = anomalies[j]
        BY <2>3, <2>5 DEF Appended
      <4>3. \A j \in DOMAIN anomalies' : j # k => anomalies'[j].sources \cap C = {}
        BY <2>3, <3>2, <4>2
      <4>4. QED
        BY <4>1, <4>3 DEF Tells
    <3>7. ASSUME NEW x \in Regions, NEW d \in converged'[x]
          PROVE  \E j \in DOMAIN anomalies' : Tells(j, x, d)'
      <4>1. d \in converged[x] \/ (x = r /\ d = c)
        BY <3>3, <3>5, <3>7
      <4>2. QED
        BY <3>4, <3>6, <4>1
    <3>8. QED
      BY <3>7 DEF AllTold
  <2>6. ASSUME NEW S, \A i \in S : signals'[i].region = r, Appended(k, r, S), Tops(t, r)
        PROVE  AllTold'
    <3>1. /\ converged'[r] = {}
          /\ \A x \in Regions : x # r => converged'[x] = converged[x]
      BY <2>2, <2>3, <2>6 DEF Tops
    <3>2. ASSUME NEW x \in Regions, NEW c \in converged'[x]
          PROVE  \E j \in DOMAIN anomalies' : Tells(j, x, c)'
      <4>1. x # r /\ c \in converged[x]
        BY <3>1, <3>2
      <4>2. PICK j \in DOMAIN anomalies : Tells(j, x, c)
        BY <4>1 DEF AllTold
      <4>3. \A i \in c.sources : i \in DOMAIN signals /\ signals[i].region = x
        BY <4>2, TypedSequences DEF Tells, SourcesOK
      <4>4. S \cap c.sources = {}
        BY <2>2, <2>6, <4>1, <4>3
      <4>5. QED
        BY <2>3, <2>6, <4>2, <4>4, TellsStays
    <3>3. QED
      BY <3>2 DEF AllTold
  <2>7. QED
    BY <1>2, <2>1, <2>4, <2>5, <2>6, CommitEffect
<1>3. QED
  BY <1>1, <1>2, StepShape

\* Whatever is signalled, evaluated and summed up, a signal of a region is in the
\* window, in a receipt, or too old; a signal of the window is in no receipt; and
\* each convergence of the escalation window is told by one receipt, whose
\* signals no other receipt names.
THEOREM NothingForgotten == Spec => []Memory
<1>1. Init => Memory
  BY DEF Init, Memory, Remembered, Fresh, SourcesOK, AllTold
<1>2. Typed /\ Typed' /\ Memory /\ [Next]_vars => Memory'
  BY RememberedStep, FreshStep, SourcesStep, ToldStep DEF Memory
<1>3. QED
  BY <1>1, <1>2, AlwaysTyped, PTL DEF Spec

-----------------------------------------------------------------------------
(***************************************************************************)
(* Third layer: no convergence is missed.                                  *)
(***************************************************************************)
\* The specializations of finitely many signals are finitely many, and fewer
\* signals have no more of them.
LEMMA SpecializationsFinite ==
  ASSUME NEW n \in Nat, NEW S, S \subseteq 1..n, NEW s
  PROVE  IsFiniteSet({s[i].specialization : i \in S})
<1> DEFINE Im == {s[i].specialization : i \in S}
           g == [i \in S |-> s[i].specialization]
<1>1. IsFiniteSet(S)
  <2>1. IsFiniteSet(1..n)
    BY FS_Interval
  <2>2. QED
    BY <2>1, FS_Subset
<1>2. g \in Surjection(S, Im)
  BY DEF Surjection
<1>3. QED
  BY <1>1, <1>2, FS_Surjection

LEMMA FewerSpecializations ==
  ASSUME NEW n \in Nat, NEW s, NEW S, S \subseteq 1..n, NEW T, T \subseteq S, NEW m \in Nat,
         ~ Cardinality({s[i].specialization : i \in S}) >= m
  PROVE  Cardinality({s[i].specialization : i \in T}) < m
<1>1. PICK A, B : A = {s[i].specialization : i \in S} /\ B = {s[i].specialization : i \in T}
  OBVIOUS
<1>2. IsFiniteSet(A) /\ B \subseteq A
  <2>1. IsFiniteSet({s[i].specialization : i \in S})
    BY SpecializationsFinite
  <2>2. QED
    BY <1>1, <2>1
<1>3. Cardinality(A) \in Nat /\ Cardinality(B) \in Nat /\ Cardinality(B) <= Cardinality(A)
  BY <1>2, FS_Subset, FS_CardinalityType
<1>4. ~ Cardinality(A) >= m
  BY <1>1
<1>5. Cardinality(B) < m
  BY <1>3, <1>4
<1>6. QED
  BY <1>1, <1>5

\* The signals that evaluation i should have counted: those of the window before
\* it that no receipt names now.
Overlooked(i) ==
  {j \in 1..i : /\ signals[j].region = signals[i].region
                /\ signals[j].at + ConvergenceWindow >= signals[i].at
                /\ j \notin Named(Len(anomalies))}

LEMMA MissedStep ==
  ASSUME Typed, Typed', Memory, NoConvergenceMissed, [Next]_vars
  PROVE  NoConvergenceMissed'
<1>0. /\ Len(signals) \in Nat /\ DOMAIN signals = 1..Len(signals)
      /\ \A i : i \in Named(Len(anomalies)) <=> Receipt(i)
      /\ ConvergenceN \in Nat /\ ConvergenceN > 0
  BY TypedSequences, NamedIsReceipt, ImmuneAssumption
<1>1. CASE UNCHANGED <<signals, anomalies, observations, converged>>
  BY <1>1 DEF NoConvergenceMissed, SpecializationsOf, Named
<1>2. ASSUME NEW t \in Threads, CommitSignal(t)
      PROVE  NoConvergenceMissed'
  <2>1. PICK r, new, k : r = StateOf(t) /\ new = Len(signals) + 1 /\ k = Len(anomalies) + 1
    OBVIOUS
  <2>2. /\ r \in Regions /\ DOMAIN signals' = 1..new
        /\ \A i \in DOMAIN signals : signals'[i] = signals[i]
        /\ signals'[new].region = r /\ signals'[new].at = now /\ signals'[new] = Signal(t)
        /\ new \in Counted(t) /\ Counted(t) \subseteq 1..new
        /\ \A i \in observations[r] : i \in Counted(t) <=> signals[i].at + ConvergenceWindow >= now
    BY <1>2, <2>1, CommitCounts
  <2>3. \A i : i \in Named(Len(anomalies))' <=> Receipt(i)'
    <3>1. DOMAIN anomalies' = 1..Len(anomalies')
      BY DEF Typed, TypeOK
    <3>2. QED
      BY <3>1 DEF Named, Receipt
  <2>4. \A i : Receipt(i) => Receipt(i)'
    <3>1. CASE anomalies' = anomalies
      BY <3>1 DEF Receipt
    <3>2. ASSUME NEW S, Appended(k, r, S)
          PROVE  \A i : Receipt(i) => Receipt(i)'
      <4>1. \A j \in DOMAIN anomalies : j \in DOMAIN anomalies' /\ anomalies'[j] = anomalies[j]
        BY <2>1, <3>2, TypedSequences DEF Appended
      <4>2. QED
        BY <4>1 DEF Receipt
    <3>3. QED
      BY <1>2, <2>1, <3>1, <3>2, CommitEffect DEF Holds
  <2>5. ASSUME NEW i \in DOMAIN signals, signals'[i].mode # "Disabled"
        PROVE  Cardinality({signals'[j].specialization : j \in Overlooked(i)'}) < ConvergenceN
    <3>1. \A j \in 1..i : j \in DOMAIN signals /\ signals'[j] = signals[j]
      BY <1>0, <2>2
    <3>2. Overlooked(i)' \subseteq Overlooked(i) /\ Overlooked(i) \subseteq 1..Len(signals)
      BY <1>0, <2>2, <2>3, <2>4, <3>1 DEF Overlooked
    <3>3. ~ Cardinality(SpecializationsOf(Overlooked(i))) >= ConvergenceN
      <4>1. PICK S : S = SpecializationsOf(Overlooked(i))
        OBVIOUS
      <4>2. signals[i].mode # "Disabled"
        BY <2>2, <2>5
      <4>3. Cardinality(S) < ConvergenceN
        BY <4>1, <4>2 DEF NoConvergenceMissed, Overlooked
      <4>4. IsFiniteSet(S)
        BY SMTT(30), <1>0, <3>2, <4>1, SpecializationsFinite DEF SpecializationsOf
      <4>5. Cardinality(S) \in Nat
        BY <4>4, FS_CardinalityType
      <4>6. ~ Cardinality(S) >= ConvergenceN
        BY <1>0, <4>3, <4>5
      <4>7. QED
        BY <4>1, <4>6
    <3>4. Cardinality({signals[j].specialization : j \in Overlooked(i)'}) < ConvergenceN
      <4>1. Overlooked(i)' \subseteq Overlooked(i)
        BY <3>2
      <4>2. QED
        BY <1>0, <3>2, <3>3, <4>1, FewerSpecializations DEF SpecializationsOf
    <3>5. {signals[j].specialization : j \in Overlooked(i)'} =
            {signals'[j].specialization : j \in Overlooked(i)'}
      BY <1>0, <2>2, <3>2
    <3>6. QED
      BY <3>4, <3>5
  <2>6. ASSUME signals'[new].mode # "Disabled"
        PROVE  Cardinality({signals'[j].specialization : j \in Overlooked(new)'}) < ConvergenceN
    <3>1. EffectiveMode(r) # "Disabled"
      BY <2>1, <2>2, <2>6 DEF Signal
    <3>2. ASSUME NEW j \in Overlooked(new)', j # new
          PROVE  j \in Counted(t) /\ ~ Receipt(j)
      <4>1. /\ j \in DOMAIN signals /\ signals[j].region = r
            /\ signals[j].at + ConvergenceWindow >= now /\ ~ Receipt(j)'
        BY <1>0, <2>1, <2>2, <2>3, <3>2 DEF Overlooked
      <4>2. ~ Receipt(j)
        BY <2>4, <4>1
      <4>3. signals[j].at \in Nat /\ now \in Nat
        BY <4>1, TypedSequences DEF Typed, TypeOK
      <4>4. j \in observations[r]
        <5>1. ~ signals[j].at + ConvergenceWindow < now
          BY <4>1, <4>3, ImmuneAssumption
        <5>2. QED
          BY <4>1, <4>2, <5>1 DEF Memory, Remembered
      <4>5. QED
        BY <2>2, <4>1, <4>2, <4>4
    <3>3. Overlooked(new)' \subseteq Counted(t)
      BY <2>2, <3>2
    <3>4. CASE Holds(t, r)
      <4>1. ~ Cardinality({signals'[i].specialization : i \in Counted(t)}) >= ConvergenceN
        BY <3>1, <3>4 DEF Holds, Converges
      <4>2. new \in Nat
        BY <1>0, <2>1
      <4>3. QED
        BY <1>0, <2>2, <3>3, <4>1, <4>2, FewerSpecializations
    <3>5. ASSUME NEW S, Counted(t) \subseteq S, Appended(k, r, S)
          PROVE  Cardinality({signals'[j].specialization : j \in Overlooked(new)'}) < ConvergenceN
      <4>1. k \in DOMAIN anomalies' /\ anomalies'[k].sources = S
        BY <2>1, <3>5, TypedSequences DEF Appended
      <4>2. \A j \in Counted(t) : Receipt(j)'
        BY <3>5, <4>1 DEF Receipt
      <4>3. Overlooked(new)' = {}
        BY <2>3, <3>3, <4>2 DEF Overlooked
      <4>4. {signals'[j].specialization : j \in Overlooked(new)'} = {}
        BY <4>3
      <4>5. QED
        BY <1>0, <4>4, FS_EmptySet
    <3>6. QED
      BY <1>2, <2>1, <3>4, <3>5, CommitEffect
  <2>7. ASSUME NEW i \in DOMAIN signals', signals'[i].mode # "Disabled"
        PROVE  Cardinality({signals'[j].specialization : j \in Overlooked(i)'}) < ConvergenceN
    <3>1. i \in DOMAIN signals \/ i = new
      BY <1>0, <2>1, <2>2
    <3>2. QED
      BY <2>5, <2>6, <2>7, <3>1
  <2>8. QED
    BY <2>7 DEF NoConvergenceMissed, SpecializationsOf, Overlooked
<1>3. QED
  BY <1>1, <1>2, StepShape

\* No convergence is missed: while a region is not disabled, the signals of the
\* window that no receipt names are of fewer specializations than converge,
\* whatever threads committed them and whenever the clock ticked between.
THEOREM NoneMissed == Spec => []NoConvergenceMissed
<1>1. Init => NoConvergenceMissed
  BY DEF Init, NoConvergenceMissed
<1>2. Typed /\ Typed' /\ Memory /\ NoConvergenceMissed /\ [Next]_vars => NoConvergenceMissed'
  BY MissedStep
<1>3. QED
  BY <1>1, <1>2, AlwaysTyped, NothingForgotten, PTL DEF Spec

-----------------------------------------------------------------------------
(***************************************************************************)
(* Fourth layer: a signal counts once, and an escalation has its rungs.    *)
(***************************************************************************)
LEMMA RungsStay ==
  ASSUME Typed, NEW k, NEW r, NEW S, Appended(k, r, S), k = Len(anomalies) + 1
  PROVE  \A j \in DOMAIN anomalies : Rungs(j)' = Rungs(j) /\ j \in DOMAIN anomalies'
<1>1. DOMAIN anomalies = 1..Len(anomalies) /\ Len(anomalies) \in Nat
  BY TypedSequences
<1>2. \A j \in DOMAIN anomalies : \A i \in 1..(j - 1) : i \in DOMAIN anomalies
  BY <1>1
<1>3. /\ \A j \in DOMAIN anomalies : anomalies'[j] = anomalies[j]
      /\ DOMAIN anomalies' = 1..k
  BY DEF Appended
<1>4. ASSUME NEW j \in DOMAIN anomalies
      PROVE  Rungs(j)' = Rungs(j)
  BY <1>2, <1>3 DEF Rungs
<1>5. QED
  BY <1>1, <1>3, <1>4

\* The rungs of the receipt that a commit writes.
LEMMA NewRungs ==
  ASSUME Typed, NEW k, NEW r, NEW S, Appended(k, r, S), k = Len(anomalies) + 1
  PROVE  Rungs(k)' = {j \in DOMAIN anomalies : anomalies[j].region = r /\ anomalies[j].sources \subseteq S}
<1>1. k \in Nat /\ k \in 1..k /\ k \notin DOMAIN anomalies
  BY TypedSequences
<1>2. /\ DOMAIN anomalies = 1..(k - 1) /\ anomalies'[k].region = r /\ anomalies'[k].sources = S
      /\ \A j \in DOMAIN anomalies : anomalies'[j] = anomalies[j]
  BY DEF Appended
<1>3. QED
  BY <1>1, <1>2 DEF Rungs

\* A receipt that shares a signal with an escalation is a convergence of the
\* window, as that convergence was told.
LEMMA OverlapIsRung ==
  ASSUME Typed, Memory, NEW t \in Threads, CommitSignal(t), NEW r, r = StateOf(t)
  PROVE  \A j \in DOMAIN anomalies :
           anomalies[j].sources \cap SourcesOf(Ladder(t)) # {} =>
             \E c \in Ladder(t) : c \in converged[r] /\ Tells(j, r, c) /\ c.sources \subseteq SourcesOf(Ladder(t))
<1>0. PICK new : new = Len(signals) + 1
  OBVIOUS
<1>1. SUFFICES ASSUME NEW j \in DOMAIN anomalies, NEW i \in anomalies[j].sources, i \in SourcesOf(Ladder(t))
               PROVE  \E c \in Ladder(t) : c \in converged[r] /\ Tells(j, r, c)
                                           /\ c.sources \subseteq SourcesOf(Ladder(t))
  OBVIOUS
<1>2. PICK c \in Ladder(t) : i \in c.sources
  BY <1>1 DEF SourcesOf
<1>3. r \in Regions
  BY <1>0, CommitCounts
<1>4. c \in converged[r]
  <2>1. c \in converged[r] \/ c = [at |-> now, sources |-> Counted(t)]
    BY <1>0, LadderShape
  <2>2. i \notin Counted(t)
    BY <1>1, CountedUnnamed DEF Memory
  <2>3. QED
    BY <1>2, <2>1, <2>2
<1>5. PICK m \in DOMAIN anomalies : Tells(m, r, c)
  BY <1>3, <1>4 DEF Memory, AllTold
<1>6. m = j
  BY <1>1, <1>2, <1>5 DEF Tells
<1>7. c.sources \subseteq SourcesOf(Ladder(t))
  BY DEF SourcesOf
<1>8. QED
  BY <1>4, <1>5, <1>6, <1>7

\* A receipt told of a convergence of the window has no rungs.
LEMMA ToldHasNoRungs ==
  ASSUME Typed, Memory, NEW j \in DOMAIN anomalies, NEW r, NEW c, Tells(j, r, c)
  PROVE  Rungs(j) = {}
<1>1. \A i \in 1..(j - 1) : i \in DOMAIN anomalies /\ i # j
  BY TypedSequences
<1>2. \A i \in DOMAIN anomalies : anomalies[i].sources # {}
  BY DEF Memory, SourcesOK
<1>3. QED
  BY <1>1, <1>2 DEF Rungs, Tells

LEMMA CountedOnceStep ==
  ASSUME Typed, Memory, CountedOnce, [Next]_vars
  PROVE  CountedOnce'
<1>1. CASE UNCHANGED <<signals, anomalies, observations, converged>>
  BY <1>1 DEF CountedOnce, Rungs
<1>2. ASSUME NEW t \in Threads, CommitSignal(t)
      PROVE  CountedOnce'
  <2>1. PICK r, new, k : r = StateOf(t) /\ new = Len(signals) + 1 /\ k = Len(anomalies) + 1
    OBVIOUS
  <2>2. CASE Holds(t, r)
    BY <2>2 DEF Holds, CountedOnce, Rungs
  <2>3. ASSUME NEW S, Appended(k, r, S),
               \A j \in DOMAIN anomalies : anomalies[j].sources \cap S # {} => j \in Rungs(k)',
               \A j \in Rungs(k)' : Rungs(j) = {}
        PROVE  CountedOnce'
    <3>1. \A j \in DOMAIN anomalies : Rungs(j)' = Rungs(j) /\ anomalies'[j] = anomalies[j]
      BY <2>1, <2>3, RungsStay DEF Appended
    <3>2. /\ k \in Nat /\ DOMAIN anomalies' = 1..k /\ DOMAIN anomalies = 1..(k - 1)
          /\ anomalies'[k].sources = S
      BY <2>1, <2>3, TypedSequences DEF Appended
    <3>3. Rungs(k)' \subseteq DOMAIN anomalies
      BY <2>1, <2>3, NewRungs
    <3>4. ASSUME NEW m \in DOMAIN anomalies'
          PROVE  /\ \A j \in 1..(m - 1) :
                      anomalies'[j].sources \cap anomalies'[m].sources # {} => j \in Rungs(m)'
                 /\ \A j \in Rungs(m)' : Rungs(j)' = {}
      <4>1. CASE m = k
        BY <2>3, <3>1, <3>2, <3>3, <4>1
      <4>2. CASE m \in DOMAIN anomalies
        <5>1. \A j \in 1..(m - 1) : j \in DOMAIN anomalies
          BY <3>2, <4>2
        <5>2. Rungs(m) \subseteq 1..(m - 1)
          BY DEF Rungs
        <5>3. QED
          BY <3>1, <4>2, <5>1, <5>2 DEF CountedOnce
      <4>3. QED
        BY <3>2, <3>4, <4>1, <4>2
    <3>5. QED
      BY <3>4 DEF CountedOnce
  <2>4. CASE Appended(k, r, Counted(t))
    <3>1. \A j \in DOMAIN anomalies : anomalies[j].sources \cap Counted(t) = {}
      BY <1>2, CountedUnnamed DEF Memory
    <3>2. Rungs(k)' = {}
      <4>1. \A j \in DOMAIN anomalies : anomalies[j].sources # {}
        BY DEF Memory, SourcesOK
      <4>2. Rungs(k)' = {j \in DOMAIN anomalies : anomalies[j].region = r /\ anomalies[j].sources \subseteq Counted(t)}
        BY <2>1, <2>4, NewRungs
      <4>3. QED
        BY <3>1, <4>1, <4>2
    <3>3. QED
      BY <2>3, <2>4, <3>1, <3>2
  <2>5. CASE Appended(k, r, SourcesOf(Ladder(t)))
    <3> PICK S : S = SourcesOf(Ladder(t))
      OBVIOUS
    <3>1. Rungs(k)' = {j \in DOMAIN anomalies : anomalies[j].region = r /\ anomalies[j].sources \subseteq S}
      BY <2>1, <2>5, NewRungs
    <3>2. \A j \in DOMAIN anomalies : anomalies[j].sources \cap S # {} =>
            \E c \in Ladder(t) : Tells(j, r, c) /\ c.sources \subseteq S
      BY <1>2, <2>1, OverlapIsRung
    <3>3. \A j \in DOMAIN anomalies : anomalies[j].sources \cap S # {} => j \in Rungs(k)'
      BY <3>1, <3>2 DEF Tells
    <3>4. ASSUME NEW j \in Rungs(k)'
          PROVE  Rungs(j) = {}
      <4>1. j \in DOMAIN anomalies /\ anomalies[j].sources \cap S # {}
        BY <3>1 DEF Memory, SourcesOK
      <4>2. QED
        BY <3>2, <4>1, ToldHasNoRungs
    <3>5. QED
      BY <2>3, <2>5, <3>3, <3>4
  <2>6. QED
    BY <1>2, <2>1, <2>2, <2>4, <2>5, CommitEffect
<1>3. QED
  BY <1>1, <1>2, StepShape

\* A signal counts for one convergence, and a convergence for one escalation:
\* receipts overlap only where one sums up the other, and what is summed up sums
\* up nothing itself.
THEOREM EachCountedOnce == Spec => []CountedOnce
<1>1. Init => CountedOnce
  BY DEF Init, CountedOnce
<1>2. Typed /\ Memory /\ CountedOnce /\ [Next]_vars => CountedOnce'
  BY CountedOnceStep
<1>3. QED
  BY <1>1, <1>2, AlwaysTyped, NothingForgotten, PTL DEF Spec

-----------------------------------------------------------------------------
(***************************************************************************)
(* Fifth layer: what a termination rests on.                               *)
(***************************************************************************)
Grounds(r) ==
  \E k \in DOMAIN anomalies : anomalies[k].region = r /\ anomalies[k].mode = "Active" /\ Escalation(k)

\* A call about to trigger P53 has grounds for it.
Backed == \A t \in Threads : call[t].pc = "escalate" => Grounds(StateOf(t))

\* There are no more convergences in a ladder than receipts that tell them, and
\* the new one.
LEMMA LadderHeight ==
  ASSUME NEW n \in Nat, NEW R, R \subseteq 1..n, NEW L, NEW a, NEW f,
         \A c \in L : c = a \/ \E j \in R : c = f[j]
  PROVE  Cardinality(L) \in Nat /\ Cardinality(R) \in Nat /\ Cardinality(L) <= Cardinality(R) + 1
<1> DEFINE Im == {f[j] : j \in R}
           g == [j \in R |-> f[j]]
<1>1. IsFiniteSet(R)
  <2>1. IsFiniteSet(1..n)
    BY FS_Interval
  <2>2. QED
    BY <2>1, FS_Subset
<1>2. g \in Surjection(R, Im)
  BY DEF Surjection
<1>3. IsFiniteSet(Im) /\ Cardinality(Im) <= Cardinality(R)
  BY <1>1, <1>2, FS_Surjection
<1>4. L \subseteq Im \cup {a}
  OBVIOUS
<1> HIDE DEF Im
<1>5. IsFiniteSet(Im \cup {a}) /\ Cardinality(Im \cup {a}) <= Cardinality(Im) + 1
  <2>1. CASE a \in Im
    <3>1. Im \cup {a} = Im
      BY <2>1
    <3>2. Cardinality(Im) \in Nat
      BY <1>3, FS_CardinalityType
    <3>3. QED
      BY <1>3, <3>1, <3>2
  <2>2. CASE a \notin Im
    <3>1. IsFiniteSet(Im \cup {a}) /\ Cardinality(Im \cup {a}) = Cardinality(Im) + 1
      BY <1>3, <2>2, FS_AddElement
    <3>2. QED
      BY <1>3, <3>1, FS_CardinalityType
  <2>3. QED
    BY <2>1, <2>2
<1>6. IsFiniteSet(L) /\ Cardinality(L) <= Cardinality(Im \cup {a})
  BY <1>4, <1>5, FS_Subset
<1>7. /\ Cardinality(L) \in Nat /\ Cardinality(R) \in Nat /\ Cardinality(Im) \in Nat
      /\ Cardinality(Im \cup {a}) \in Nat
  BY <1>1, <1>3, <1>5, <1>6, FS_CardinalityType
<1>8. QED
  BY <1>3, <1>5, <1>6, <1>7

\* The receipt of an escalation: its rungs and the new convergence are the M
\* convergences of the window, with damage among them.
LEMMA TopIsEscalation ==
  ASSUME Typed, Memory, NEW t \in Threads, CommitSignal(t), NEW r, r = StateOf(t), Tops(t, r),
         NEW k, k = Len(anomalies) + 1, NEW S, S = SourcesOf(Ladder(t)), Appended(k, r, S)
  PROVE  k \in DOMAIN anomalies' /\ anomalies'[k].region = r /\ Escalation(k)'
         /\ anomalies'[k].mode = EffectiveMode(r)
<1>0. PICK new : new = Len(signals) + 1
  OBVIOUS
<1> DEFINE R == {j \in DOMAIN anomalies : anomalies[j].region = r /\ anomalies[j].sources \subseteq S}
           L == Ladder(t)
           f == [j \in R |-> [at |-> anomalies[j].at, sources |-> anomalies[j].sources]]
<1>1. Rungs(k)' = R
  BY NewRungs
<1>2. /\ k \in Nat /\ k \in DOMAIN anomalies' /\ anomalies'[k].region = r
      /\ anomalies'[k].sources = S /\ anomalies'[k].at = now
      /\ anomalies'[k].mode = EffectiveMode(r)
      /\ \A j \in R : anomalies'[j] = anomalies[j]
      /\ DOMAIN anomalies = 1..Len(anomalies) /\ Len(anomalies) \in Nat
  BY TypedSequences DEF Appended
<1>3. \A j \in R : \E c \in L : Tells(j, r, c)
  BY OverlapIsRung DEF Memory, SourcesOK
<1>4. \A j \in R : anomalies'[j].at + EscalationWindow >= anomalies'[k].at
  <2>1. \A c \in L : c.at + EscalationWindow >= now
    BY <1>0, LadderShape
  <2>2. QED
    BY <1>2, <1>3, <2>1 DEF Tells
<1>5. \E i \in anomalies'[k].sources : signals'[i].damage
  BY <1>2 DEF Tops, Escalates
<1>6. \A c \in L : c = [at |-> now, sources |-> Counted(t)] \/ \E j \in R : c = f[j]
  <2>1. SUFFICES ASSUME NEW c \in L, c # [at |-> now, sources |-> Counted(t)]
                 PROVE  \E j \in R : c = f[j]
    OBVIOUS
  <2>2. c \in converged[r] /\ r \in Regions
    BY <1>0, <2>1, LadderShape, CommitCounts
  <2>3. c \in [at : Nat, sources : SUBSET Nat]
    BY <2>2 DEF Typed, WindowsOK
  <2>4. PICK j \in DOMAIN anomalies : Tells(j, r, c)
    BY <2>2 DEF Memory, AllTold
  <2>5. c.sources \subseteq S
    BY DEF SourcesOf
  <2>6. j \in R
    BY <2>4, <2>5 DEF Tells
  <2>7. c = [at |-> anomalies[j].at, sources |-> anomalies[j].sources]
    BY <2>3, <2>4 DEF Tells
  <2>8. QED
    BY <2>6, <2>7
<1>7. Cardinality(L) \in Nat /\ Cardinality(R) \in Nat /\ Cardinality(L) <= Cardinality(R) + 1
  <2>1. PICK a : a = [at |-> now, sources |-> Counted(t)]
    OBVIOUS
  <2>2. R \subseteq 1..Len(anomalies) /\ Len(anomalies) \in Nat
    BY <1>2
  <2>3. \A c \in L : c = a \/ \E j \in R : c = f[j]
    BY <1>6, <2>1
  <2> HIDE DEF R, L, f
  <2>4. QED
    BY <2>2, <2>3, LadderHeight
<1>8. Cardinality(L) >= EscalationM
  BY DEF Tops, Escalates
<1>9. Cardinality(R) + 1 >= EscalationM
  <2> HIDE DEF R, L
  <2>1. QED
    BY <1>7, <1>8, ImmuneAssumption
<1>10. Escalation(k)'
  <2> HIDE DEF R
  <2>1. QED
    BY <1>1, <1>4, <1>5, <1>9 DEF Escalation
<1>11. QED
  BY <1>2, <1>10

\* Grounds are never taken back.
LEMMA GroundsStay ==
  ASSUME Typed, NEW r, Grounds(r), [Next]_vars
  PROVE  Grounds(r)'
<1>1. CASE UNCHANGED <<signals, anomalies, observations, converged>>
  BY <1>1 DEF Grounds, Escalation, Rungs
<1>2. ASSUME NEW t \in Threads, CommitSignal(t)
      PROVE  Grounds(r)'
  <2>1. PICK s, new, k : s = StateOf(t) /\ new = Len(signals) + 1 /\ k = Len(anomalies) + 1
    OBVIOUS
  <2>2. \A i \in DOMAIN signals : signals'[i] = signals[i]
    BY <1>2, <2>1, CommitCounts
  <2>3. PICK m \in DOMAIN anomalies :
          anomalies[m].region = r /\ anomalies[m].mode = "Active" /\ Escalation(m)
    BY DEF Grounds
  <2>4. /\ \A j \in DOMAIN anomalies : anomalies[j].sources \subseteq DOMAIN signals
        /\ Rungs(m) \subseteq DOMAIN anomalies
    BY TypedSequences DEF Rungs
  <2>5. CASE Holds(s, t) \/ anomalies' = anomalies
    <3>1. anomalies' = anomalies
      BY <2>5 DEF Holds
    <3>2. QED
      BY <2>2, <2>3, <2>4, <3>1 DEF Grounds, Escalation, Rungs
  <2>6. ASSUME NEW S, Appended(k, s, S)
        PROVE  Grounds(r)'
    <3>1. /\ \A j \in DOMAIN anomalies : anomalies'[j] = anomalies[j]
          /\ Rungs(m)' = Rungs(m) /\ m \in DOMAIN anomalies'
      BY <2>1, <2>6, RungsStay DEF Appended
    <3>2. Escalation(m)'
      BY <2>2, <2>3, <2>4, <3>1 DEF Escalation
    <3>3. QED
      BY <2>3, <3>1, <3>2 DEF Grounds
  <2>7. QED
    BY <1>2, <2>1, <2>5, <2>6, CommitEffect DEF Holds
<1>3. QED
  BY <1>1, <1>2, StepShape

\* The thread that escalates next is one whose commit just topped the ladder of
\* a region that was Active.
LEMMA CallShape ==
  ASSUME Typed, [Next]_vars, NEW u \in Threads
  PROVE  \/ call'[u] = call[u]
         \/ call'[u].pc # "escalate"
         \/ /\ CommitSignal(u) /\ Tops(u, StateOf(u)) /\ EffectiveMode(StateOf(u)) = "Active"
            /\ call'[u].cell = call[u].cell
<1> USE DEF Goto
<1>0. call \in [Threads -> Calls]
  BY DEF Typed, TypeOK
<1>1. ASSUME NEW t \in Threads, call[t].pc # "idle"
      PROVE  NextCell(t).pc # "escalate"
  BY <1>1, NextCellTyped DEF Idle
<1>2. ASSUME NEW t \in Threads, Escalate(t)
      PROVE  call'[u] = call[u] \/ call'[u].pc # "escalate"
  BY <1>0, <1>1, <1>2 DEF Escalate
<1>3. ASSUME NEW t \in Threads, ObserveNode(t)
      PROVE  call'[u] = call[u] \/ call'[u].pc # "escalate"
  <2>1. PICK step : /\ call' = [call EXCEPT ![t] = step]
                    /\ step = NextCell(t) \/ \E d : step = [call[t] EXCEPT !.pc = "commit", !.damage = d]
    <3>1. PICK seen : call' = [call EXCEPT ![t] =
              IF seen.outcome = "Quiet" THEN NextCell(t)
              ELSE [call[t] EXCEPT !.pc = "commit", !.damage = (seen.outcome = "Damage")]]
      BY <1>3 DEF ObserveNode
    <3>2. CASE seen.outcome = "Quiet"
      BY <3>1, <3>2
    <3>3. CASE seen.outcome # "Quiet"
      <4>1. PICK d : d = (seen.outcome = "Damage")
        OBVIOUS
      <4>2. call' = [call EXCEPT ![t] = [call[t] EXCEPT !.pc = "commit", !.damage = d]]
        BY <3>1, <3>3, <4>1
      <4>3. QED
        BY <4>2
    <3>4. QED
      BY <3>2, <3>3
  <2>2. call[t].pc = "observe"
    BY <1>3 DEF ObserveNode
  <2>3. step.pc # "escalate"
    BY <1>1, <2>1, <2>2, CallBusy DEF BusyCalls
  <2>4. QED
    BY <1>0, <2>1, <2>3
<1>4. ASSUME NEW t \in Threads, CommitSignal(t)
      PROVE  \/ call'[u] = call[u]
             \/ call'[u].pc # "escalate"
             \/ /\ CommitSignal(u) /\ Tops(u, StateOf(u)) /\ EffectiveMode(StateOf(u)) = "Active"
                /\ call'[u].cell = call[u].cell
  <2>1. call[t].pc = "commit"
    BY <1>4 DEF CommitSignal
  <2>2. CASE call' = [call EXCEPT ![t] = NextCell(t)]
    BY <1>0, <1>1, <2>1, <2>2
  <2>3. CASE /\ Tops(t, StateOf(t)) /\ EffectiveMode(StateOf(t)) = "Active"
             /\ call' = [call EXCEPT ![t] = [call[t] EXCEPT !.pc = "escalate"]]
    <3>1. CASE u = t
      <4>1. call'[u] = [call[u] EXCEPT !.pc = "escalate"]
        BY <1>0, <2>3, <3>1
      <4>2. QED
        BY <1>4, <2>1, <2>3, <3>1, <4>1, CallBusy DEF BusyCalls
    <3>2. CASE u # t
      BY <1>0, <2>3, <3>2
    <3>3. QED
      BY <3>1, <3>2
  <2>4. QED
    BY <1>4, <2>2, <2>3, CommitOutcomes DEF Holds, Rises, Tops
<1>5. ASSUME NEW t \in Threads, NEW r \in Regions, NEW content \in menu.contents, Create(t, r, content)
      PROVE  call'[u] = call[u] \/ call'[u].pc # "escalate"
  BY <1>0, <1>5 DEF Create
<1>6. CASE /\ ~ \E t \in Threads : Dispatch(t)
           /\ ~ \E t \in Threads, r \in Regions, content \in menu.contents : Create(t, r, content)
  BY <1>6 DEF Next, vars, Tick, RegisterCellAgent, OwnerShows, OperatorTriggers, SetResponseMode
<1>7. QED
  BY <1>2, <1>3, <1>4, <1>5, <1>6 DEF Dispatch

LEMMA TerminationStep ==
  ASSUME Typed, Memory, Backed, TerminationNeedsDamage, [Next]_vars
  PROVE  Backed' /\ TerminationNeedsDamage'
<1>0. menu' = menu /\ \A r : Grounds(r) => Grounds(r)'
  BY StepShape, GroundsStay
<1>1. ASSUME NEW u \in Threads, call'[u].pc = "escalate"
      PROVE  Grounds(StateOf(u))'
  <2>1. CASE call'[u] = call[u]
    <3>1. PICK r : r = StateOf(u)
      OBVIOUS
    <3>2. Grounds(r)' /\ StateOf(u)' = r
      BY <1>0, <1>1, <2>1, <3>1 DEF Backed, StateOf, Cell, Cells
    <3>3. QED
      BY <3>2 DEF Grounds
  <2>2. CASE /\ CommitSignal(u) /\ Tops(u, StateOf(u)) /\ EffectiveMode(StateOf(u)) = "Active"
             /\ call'[u].cell = call[u].cell
    <3>1. PICK r, new, k : r = StateOf(u) /\ new = Len(signals) + 1 /\ k = Len(anomalies) + 1
      OBVIOUS
    <3>2. PICK S : S = SourcesOf(Ladder(u))
      OBVIOUS
    <3>3. Appended(k, r, S)
      <4>1. CommitSignal(u) /\ ~ Holds(u, r) /\ ~ Rises(u, r)
        BY <2>2, <3>1 DEF Holds, Rises, Tops
      <4>2. QED
        BY <3>1, <3>2, <4>1, CommitEffect
    <3>4. /\ k \in DOMAIN anomalies' /\ anomalies'[k].region = r /\ Escalation(k)'
          /\ anomalies'[k].mode = "Active"
      BY <2>2, <3>1, <3>2, <3>3, TopIsEscalation
    <3>5. Grounds(r)' /\ StateOf(u)' = r
      BY <1>0, <2>2, <3>1, <3>4 DEF Grounds, StateOf, Cell, Cells
    <3>6. QED
      BY <3>5 DEF Grounds
  <2>3. QED
    BY <1>1, <2>1, <2>2, CallShape
<1>2. ASSUME NEW r \in Regions, terminated'[r] = "immune"
      PROVE  Grounds(r)'
  <2>1. CASE terminated[r] = "immune"
    BY <1>0, <2>1 DEF TerminationNeedsDamage, Grounds
  <2>2. CASE \E t \in Threads : Escalate(t) /\ StateOf(t) = r
    BY <1>0, <2>2 DEF Backed, Escalate
  <2>3. terminated[r] = "immune" \/ \E t \in Threads : Escalate(t) /\ StateOf(t) = r
    <3>1. terminated \in [Regions -> {"no", "operator", "immune"}]
      BY DEF Typed, TypeOK
    <3>2. CASE \E t \in Threads : Escalate(t)
      BY <1>2, <3>1, <3>2 DEF Escalate
    <3>3. CASE \E s \in Regions : OperatorTriggers(s)
      BY <1>2, <3>1, <3>3 DEF OperatorTriggers
    <3>4. CASE terminated' = terminated
      BY <1>2, <3>4
    <3>5. QED
      BY <3>2, <3>3, <3>4
      DEF Next, vars, Tick, RegisterCellAgent, OwnerShows, SetResponseMode, Dispatch, ObserveNode,
          CommitSignal, Create
  <2>4. QED
    BY <2>1, <2>2, <2>3
<1>3. QED
  BY <1>1, <1>2 DEF Backed, TerminationNeedsDamage, Grounds

\* The immune system terminates a region only on a receipt written while the
\* region was Active, which sums up M convergences of the escalation window with
\* damage among them; whatever was signalled or triggered since.
THEOREM TerminationGrounded == Spec => [](TerminationNeedsDamage /\ Backed)
<1>1. Init => TerminationNeedsDamage /\ Backed
  BY DEF Init, TerminationNeedsDamage, Backed, Idle
<1>2. Typed /\ Memory /\ (TerminationNeedsDamage /\ Backed) /\ [Next]_vars =>
        (TerminationNeedsDamage /\ Backed)'
  BY TerminationStep
<1>3. QED
  BY <1>1, <1>2, AlwaysTyped, NothingForgotten, PTL DEF Spec

-----------------------------------------------------------------------------
(***************************************************************************)
(* Sixth layer: what the agents of this repository tell behind the bridge. *)
(***************************************************************************)
Foreigner == \E i \in DOMAIN Cells : Cells[i].specialization \notin BuiltIn

CallsHonest ==
  \A t \in Threads : call[t].pc # "idle" =>
    /\ call[t].damage => Cell(t).specialization \notin BuiltIn
    /\ call[t].pc = "commit" => Cell(t).specialization # "SilenceObserver"

SignalsHonest ==
  \A i \in DOMAIN signals : signals[i].damage => Foreigner

Honest == CallsHonest /\ SignalsHonest /\ SilenceUnheard

LEMMA CallsHonestStep ==
  ASSUME Typed, CallsHonest, [Next]_vars
  PROVE  CallsHonest'
<1> USE DEF Goto
<1>0. call \in [Threads -> Calls] /\ menu' = menu
  BY StepShape DEF Typed, TypeOK
<1> DEFINE cells == menu.cells
           good(c) == c.pc # "idle" =>
             /\ c.damage => cells[c.cell].specialization \notin BuiltIn
             /\ c.pc = "commit" => cells[c.cell].specialization # "SilenceObserver"
<1>1. \A t \in Threads : good(call[t])
  BY DEF CallsHonest, Cell, Cells
<1>2. SUFFICES ASSUME NEW u \in Threads
               PROVE  good(call'[u])
  BY <1>0 DEF CallsHonest, Cell, Cells
<1>3. ASSUME NEW t \in Threads, NEW step, good(step), call' = [call EXCEPT ![t] = step]
      PROVE  good(call'[u])
  BY <1>0, <1>1, <1>3
<1>4. ASSUME NEW t \in Threads, call[t].pc # "idle"
      PROVE  good(NextCell(t))
  BY <1>4, NextCellTyped DEF Idle
<1>5. CASE call' = call
  BY <1>1, <1>5
<1>6. ASSUME NEW t \in Threads, ObserveNode(t)
      PROVE  good(call'[u])
  <2>0. call[t].pc = "observe" /\ menu' = menu /\ now' = now
    BY <1>6 DEF ObserveNode
  <2>1. PICK i, e : i = call[t].cell /\ e = NodeEvent(call[t].content)
    OBVIOUS
  <2>2. PICK seen \in Observations(agents[i], e, now) :
          /\ agents' = [agents EXCEPT ![i] = seen.agent]
          /\ call' = [call EXCEPT ![t] =
               IF seen.outcome = "Quiet" THEN NextCell(t)
               ELSE [call[t] EXCEPT !.pc = "commit", !.damage = (seen.outcome = "Damage")]]
    BY <1>6, <2>1 DEF ObserveNode
  <2>3. i \in DOMAIN Cells /\ EventOK(e) /\ e.type = "node"
    BY <2>0, <2>1, CallBusy DEF EventOK, NodeEvent
  <2>4. /\ seen.outcome = "Damage" => cells[i].specialization \notin BuiltIn
        /\ seen.outcome # "Quiet" => cells[i].specialization # "SilenceObserver"
    BY <2>0, <2>2, <2>3, ShowTyped DEF Cells
  <2>5. CASE seen.outcome = "Quiet"
    BY <1>3, <1>4, <2>0, <2>2, <2>5
  <2>6. CASE seen.outcome # "Quiet"
    <3>1. PICK step : step = [call[t] EXCEPT !.pc = "commit", !.damage = (seen.outcome = "Damage")]
      OBVIOUS
    <3>2. step.cell = i /\ step.damage = (seen.outcome = "Damage")
      BY <2>0, <2>1, <3>1, CallBusy DEF BusyCalls
    <3>3. good(step)
      BY <2>4, <2>6, <3>2
    <3>4. call' = [call EXCEPT ![t] = step]
      BY <2>2, <2>6, <3>1
    <3> HIDE DEF good
    <3>5. QED
      BY <1>3, <3>3, <3>4
  <2>7. QED
    BY <2>5, <2>6
<1>7. ASSUME NEW t \in Threads, CommitSignal(t)
      PROVE  good(call'[u])
  <2>1. call[t].pc = "commit"
    BY <1>7 DEF CommitSignal
  <2>2. CASE call' = [call EXCEPT ![t] = NextCell(t)]
    BY <1>3, <1>4, <2>1, <2>2
  <2>3. CASE call' = [call EXCEPT ![t] = [call[t] EXCEPT !.pc = "escalate"]]
    <3>1. PICK step : step = [call[t] EXCEPT !.pc = "escalate"]
      OBVIOUS
    <3>2. step.cell = call[t].cell /\ step.damage = call[t].damage /\ step.pc = "escalate"
      BY <2>1, <3>1, CallBusy DEF BusyCalls
    <3>3. good(step)
      BY <1>1, <2>1, <3>2
    <3>4. call' = [call EXCEPT ![t] = step]
      BY <2>3, <3>1
    <3> HIDE DEF good
    <3>5. QED
      BY <1>3, <3>3, <3>4
  <2>4. QED
    BY <1>7, <2>2, <2>3, CommitOutcomes DEF Holds, Rises, Tops
<1>8. ASSUME NEW t \in Threads, Escalate(t)
      PROVE  good(call'[u])
  BY <1>3, <1>4, <1>8 DEF Escalate
<1>9. ASSUME NEW t \in Threads, NEW r \in Regions, NEW content \in menu.contents, Create(t, r, content)
      PROVE  good(call'[u])
  <2>1. PICK step : /\ step = [pc |-> "observe", cell |-> 1, upto |-> registered,
                               content |-> content, damage |-> FALSE]
                    /\ call' = [call EXCEPT ![t] = step]
    BY <1>9 DEF Create
  <2>2. good(step)
    BY <2>1
  <2> HIDE DEF good
  <2>3. QED
    BY <1>3, <2>1, <2>2
<1>10. CASE /\ ~ \E t \in Threads : Dispatch(t)
            /\ ~ \E t \in Threads, r \in Regions, content \in menu.contents : Create(t, r, content)
  <2>1. call' = call
    BY <1>10 DEF Next, vars, Tick, RegisterCellAgent, OwnerShows, OperatorTriggers, SetResponseMode
  <2>2. QED
    BY <1>5, <2>1
<1> HIDE DEF good
<1>11. QED
  BY <1>6, <1>7, <1>8, <1>9, <1>10 DEF Dispatch

LEMMA SignalsHonestStep ==
  ASSUME Typed, CallsHonest, SignalsHonest, SilenceUnheard, [Next]_vars
  PROVE  SignalsHonest' /\ SilenceUnheard'
<1>0. menu' = menu
  BY StepShape
<1>1. CASE UNCHANGED <<signals, anomalies, observations, converged>>
  BY <1>0, <1>1 DEF SignalsHonest, SilenceUnheard, Foreigner, Cells
<1>2. ASSUME NEW t \in Threads, CommitSignal(t)
      PROVE  SignalsHonest' /\ SilenceUnheard'
  <2>1. PICK r, new : r = StateOf(t) /\ new = Len(signals) + 1
    OBVIOUS
  <2>2. /\ DOMAIN signals' = 1..new /\ DOMAIN signals = 1..Len(signals) /\ Len(signals) \in Nat
        /\ \A i \in DOMAIN signals : signals'[i] = signals[i]
        /\ signals'[new] = Signal(t)
    BY <1>2, <2>1, CommitCounts
  <2>3. call[t].pc = "commit"
    BY <1>2 DEF CommitSignal
  <2>4. call[t].cell \in DOMAIN Cells
    BY <2>3, CallBusy
  <2>5. /\ Signal(t).damage => Foreigner
        /\ Signal(t).specialization # "SilenceObserver"
    BY <2>3, <2>4 DEF CallsHonest, Signal, Foreigner, Cell
  <2>6. \A i \in DOMAIN signals' : i \in DOMAIN signals \/ i = new
    BY <2>1, <2>2
  <2>7. Foreigner' <=> Foreigner
    BY <1>0 DEF Foreigner, Cells
  <2>8. QED
    BY <2>2, <2>5, <2>6, <2>7 DEF SignalsHonest, SilenceUnheard
<1>3. QED
  BY <1>1, <1>2, StepShape

LEMMA GroundsNeedForeigner ==
  ASSUME SignalsHonest, Typed, TerminationNeedsDamage
  PROVE  BuiltInsNeverTerminate
<1>1. ASSUME NEW r \in Regions, terminated[r] = "immune"
      PROVE  Foreigner
  <2>1. PICK k \in DOMAIN anomalies : Escalation(k)
    BY <1>1 DEF TerminationNeedsDamage
  <2>2. \E i \in DOMAIN signals : signals[i].damage
    BY <2>1, TypedSequences DEF Escalation
  <2>3. QED
    BY <2>2 DEF SignalsHonest
<1>2. QED
  BY <1>1 DEF BuiltInsNeverTerminate, Foreigner

\* The agents of this repository never terminate a region by themselves: behind
\* the bridge the attestation observer sees no failed attestation, so only an
\* agent of another kind reports damage; and the silence observer reports
\* nothing, as the node it is shown ends the silence.
THEOREM BuiltInsTellLittle == Spec => []BuiltInsBehindBridge
<1>1. Init => Honest
  BY DEF Init, Honest, CallsHonest, SignalsHonest, SilenceUnheard, Idle
<1>2. Typed /\ Honest /\ [Next]_vars => Honest'
  BY CallsHonestStep, SignalsHonestStep DEF Honest
<1>3. Typed /\ Honest /\ TerminationNeedsDamage => BuiltInsBehindBridge
  BY GroundsNeedForeigner DEF Honest, BuiltInsBehindBridge
<1>4. QED
  BY <1>1, <1>2, <1>3, AlwaysTyped, TerminationGrounded, PTL DEF Spec
=============================================================================
