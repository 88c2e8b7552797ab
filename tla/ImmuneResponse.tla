--------------------------- MODULE ImmuneResponse ---------------------------
(***************************************************************************)
(* From a write to an automatic termination: the bridge shows every node   *)
(* it created to every cell-agent, writes what an agent reports as a       *)
(* signal node, counts it in the AggregationLayer under the same guard,    *)
(* and triggers P53 on a region whose anomalies keep converging on damage. *)
(*                                                                         *)
(* An agent is its owner's until it is registered: the owner may show it   *)
(* any event.  Behind the bridge it sees the nodes that were created, and  *)
(* nothing else.  A commit (signal, evaluation, ConvergedAnomaly) is one   *)
(* step, as it holds the FabricState lock and the region's mutex           *)
(* throughout; the clock stands still in it.                               *)
(***************************************************************************)
EXTENDS CellAgents, Sequences, FiniteSets

CONSTANTS
  Threads,           \* threads that write through the bridge
  Regions,
  Specializations,
  ConvergenceN, ConvergenceWindow,  \* AggregationConfig
  EscalationM, EscalationWindow,
  DisabledRevertAfter,
  Menus              \* bounds on a behaviour, which follows one of them:
                     \*   cells     the agents in registration order: [region, specialization]
                     \*   events    what the owner may show an agent
                     \*   contents  what nodes are created
                     \*   drives, creates, time, modes: events shown by the owner, nodes
                     \*             created, ticks of the clock, calls of set_response_mode

ASSUME ImmuneAssumption ==
  /\ \A m \in Menus : m.cells \in Seq([region : Regions, specialization : Specializations])
  /\ {ConvergenceN, EscalationM} \subseteq Nat \ {0}
  /\ {ConvergenceWindow, EscalationWindow, DisabledRevertAfter} \subseteq Nat
  /\ \A m \in Menus : {m.drives, m.creates, m.time, m.modes} \subseteq Nat
  /\ \A m \in Menus : \A e \in m.events : e.type = "trace" => e.value \in Int

VARIABLES
  menu,          \* the bounds of this behaviour
  agents,        \* per cell: the state of the agent
  drives,        \* events the owner showed
  now,           \* the monotonic clock
  registered,    \* how many of Cells are registered
  signals,       \* the signal nodes; mode is the region's when evaluated (history)
  anomalies,     \* the ConvergedAnomaly nodes; mode as above (history)
  observations,  \* per region: the signals in the convergence window
  converged,     \* per region: the convergences in the escalation window
  mode,          \* per region: ImmuneResponseMode; Active when never set
  disabledAt,    \* per region: when Disabled was set
  terminated,    \* per region: who triggered its P53
  call,          \* per thread: the step of its dispatch to the agents
  creates,       \* nodes written
  modeChanges    \* calls of set_response_mode

aggregation == <<observations, converged>>
switch == <<mode, disabledAt, modeChanges>>
population == <<menu, agents, drives>>
vars == <<population, now, registered, signals, anomalies, aggregation, switch, terminated, call, creates>>

Modes == {"Active", "AlertOnly", "Disabled"}
Idle == [pc |-> "idle"]

Cells == menu.cells

Init ==
  /\ menu \in Menus
  /\ agents = [i \in DOMAIN Cells |-> NewAgent(Cells[i].specialization, 0)]
  /\ drives = 0
  /\ now = 0
  /\ registered = 0
  /\ signals = <<>>
  /\ anomalies = <<>>
  /\ observations = [r \in Regions |-> {}]
  /\ converged = [r \in Regions |-> {}]
  /\ mode = [r \in Regions |-> "Active"]
  /\ disabledAt = [r \in Regions |-> 0]
  /\ terminated = [r \in Regions |-> "no"]
  /\ call = [t \in Threads |-> Idle]
  /\ creates = 0
  /\ modeChanges = 0

Tick ==
  /\ now < menu.time
  /\ now' = now + 1
  /\ UNCHANGED <<population, registered, signals, anomalies, aggregation, switch, terminated, call, creates>>

\* observe() on an agent that is still its owner's; the owner gets the outcome.
OwnerShows(i, e) ==
  /\ i \in registered + 1..Len(Cells)
  /\ drives < menu.drives
  /\ drives' = drives + 1
  /\ \E seen \in Observations(agents[i], e, now) : agents' = [agents EXCEPT ![i] = seen.agent]
  /\ UNCHANGED <<menu, now, registered, signals, anomalies, aggregation, switch, terminated, call, creates>>

RegisterCellAgent ==
  /\ registered < Len(Cells)
  /\ registered' = registered + 1
  /\ UNCHANGED <<population, now, signals, anomalies, aggregation, switch, terminated, call, creates>>

(***************************************************************************)
(* The operator's switch.  Disabled reverts by itself; AlertOnly does not. *)
(***************************************************************************)
SetResponseMode(r, m) ==
  /\ modeChanges < menu.modes
  /\ m # mode[r] \/ m = "Disabled"
  /\ modeChanges' = modeChanges + 1
  /\ mode' = [mode EXCEPT ![r] = m]
  /\ disabledAt' = [disabledAt EXCEPT ![r] = IF m = "Disabled" THEN now ELSE 0]
  /\ UNCHANGED <<population, now, registered, signals, anomalies, aggregation, terminated, call, creates>>

EffectiveMode(r) ==
  IF mode[r] = "Disabled" /\ now - disabledAt[r] >= DisabledRevertAfter
  THEN "AlertOnly" ELSE mode[r]

(***************************************************************************)
(* A write, and its dispatch to the agents registered by then.  The node   *)
(* goes to the agents of every region.                                     *)
(***************************************************************************)
Goto(t, step) == call' = [call EXCEPT ![t] = step]

\* The next agent of t's snapshot, or the end of its call.
NextCell(t) ==
  IF call[t].cell < call[t].upto THEN [call[t] EXCEPT !.pc = "observe", !.cell = @ + 1, !.damage = FALSE] ELSE Idle

Create(t, r, content) ==
  /\ call[t] = Idle
  /\ terminated[r] = "no"
  /\ creates < menu.creates
  /\ creates' = creates + 1
  /\ registered > 0
  /\ Goto(t, [pc |-> "observe", cell |-> 1, upto |-> registered, content |-> content, damage |-> FALSE])
  /\ UNCHANGED <<population, now, registered, signals, anomalies, aggregation, switch, terminated>>

\* observe() of the next agent, under that agent's mutex; what it reports is
\* committed after the mutex is released.
ObserveNode(t) ==
  LET i == call[t].cell
  IN
  /\ call[t].pc = "observe"
  /\ \E seen \in Observations(agents[i], NodeEvent(call[t].content), now) :
       /\ agents' = [agents EXCEPT ![i] = seen.agent]
       /\ Goto(t, IF seen.outcome = "Quiet" THEN NextCell(t)
                  ELSE [call[t] EXCEPT !.pc = "commit", !.damage = (seen.outcome = "Damage")])
  /\ UNCHANGED <<menu, drives, now, registered, signals, anomalies, aggregation, switch, terminated, creates>>

(***************************************************************************)
(* commit_immune_signal_atomic, and evaluate within it.                    *)
(***************************************************************************)
Cell(t) == Cells[call[t].cell]
StateOf(t) == Cell(t).region

Signal(t) ==
  [region |-> Cell(t).region, specialization |-> Cell(t).specialization,
   damage |-> call[t].damage, at |-> now, mode |-> EffectiveMode(StateOf(t))]

\* Signals are known by their position in the sequence of signals.
Recent(S) == {i \in S : signals'[i].at + ConvergenceWindow >= now}
Counted(t) == Recent(observations[StateOf(t)] \cup {Len(signals) + 1})

ConvergesLate(S) ==      \* mutant: one specialization too many is asked for
  Cardinality({signals'[i].specialization : i \in S}) > ConvergenceN
Converges(S) == Cardinality({signals'[i].specialization : i \in S}) >= ConvergenceN

\* The convergences in the escalation window, with the new one.
Ladder(t) ==
  {c \in converged[StateOf(t)] \cup {[at |-> now, sources |-> Counted(t)]} :
     c.at + EscalationWindow >= now}
SourcesOf(ladder) == UNION {c.sources : c \in ladder}

EscalatesAnyway(ladder) ==   \* mutant: anomalies alone escalate
  Cardinality(ladder) >= EscalationM
Escalates(ladder) ==
  /\ Cardinality(ladder) >= EscalationM
  /\ \E i \in SourcesOf(ladder) : signals'[i].damage

KeepObservations(r) == UNCHANGED observations                       \* mutant
ClearObservations(r) == observations' = [observations EXCEPT ![r] = {}]

WriteAnomaly(t, sources) ==
  anomalies' = Append(anomalies, [region |-> StateOf(t), sources |-> sources,
                                  at |-> now, mode |-> EffectiveMode(StateOf(t))])

CommitSignal(t) ==
  LET r == StateOf(t)
  IN
  /\ call[t].pc = "commit"
  /\ signals' = Append(signals, Signal(t))
  /\ \/ /\ EffectiveMode(r) = "Disabled" \/ ~ Converges(Counted(t))
        /\ observations' = [observations EXCEPT ![r] = Counted(t)]
        /\ Goto(t, NextCell(t))
        /\ UNCHANGED <<anomalies, converged>>
     \/ /\ EffectiveMode(r) # "Disabled" /\ Converges(Counted(t))
        /\ ClearObservations(r)
        /\ IF Escalates(Ladder(t))
           THEN /\ WriteAnomaly(t, SourcesOf(Ladder(t)))
                /\ converged' = [converged EXCEPT ![r] = {}]
                /\ IF EffectiveMode(r) = "Active"
                   THEN Goto(t, [call[t] EXCEPT !.pc = "escalate"])
                   ELSE Goto(t, NextCell(t))
           ELSE /\ WriteAnomaly(t, Counted(t))
                /\ converged' = [converged EXCEPT ![r] = Ladder(t)]
                /\ Goto(t, NextCell(t))
  /\ UNCHANGED <<population, now, registered, switch, terminated, creates>>

\* p53_trigger with the aggregation key, after the guard is dropped; an error
\* (another key is authorized, the archive fails, already triggered) is ignored.
Escalate(t) ==
  /\ call[t].pc = "escalate"
  /\ \/ UNCHANGED terminated
     \/ /\ terminated[StateOf(t)] = "no"
        /\ terminated' = [terminated EXCEPT ![StateOf(t)] = "immune"]
  /\ Goto(t, NextCell(t))
  /\ UNCHANGED <<population, now, registered, signals, anomalies, aggregation, switch, creates>>

OperatorTriggers(r) ==
  /\ terminated[r] = "no"
  /\ terminated' = [terminated EXCEPT ![r] = "operator"]
  /\ UNCHANGED <<population, now, registered, signals, anomalies, aggregation, switch, call, creates>>

-----------------------------------------------------------------------------
Dispatch(t) ==
  \/ ObserveNode(t)
  \/ CommitSignal(t)
  \/ Escalate(t)

Next ==
  \/ Tick
  \/ RegisterCellAgent
  \/ \E i \in DOMAIN Cells, e \in menu.events : OwnerShows(i, e)
  \/ \E r \in Regions : OperatorTriggers(r) \/ \E m \in Modes : SetResponseMode(r, m)
  \/ \E t \in Threads : Dispatch(t) \/ \E r \in Regions, content \in menu.contents : Create(t, r, content)

Spec == Init /\ [][Next]_vars

-----------------------------------------------------------------------------
Calls ==
  {Idle} \cup
  [pc : {"observe", "commit", "escalate"}, cell : Nat \ {0}, upto : Nat,
   content : menu.contents, damage : BOOLEAN]
\* What a region's state and receipts name are signals of that region.
SignalsOf(r) == {i \in DOMAIN signals : signals[i].region = r}
TypeOK ==
  /\ menu \in Menus
  /\ \A i \in DOMAIN agents : agents[i].since \in 0..now /\ Spread(agents[i]) >= 0
  /\ now \in Nat /\ creates \in Nat /\ modeChanges \in Nat
  /\ registered \in 0..Len(Cells)
  /\ signals \in Seq([region : Regions, specialization : Specializations,
                      damage : BOOLEAN, at : Nat, mode : Modes])
  /\ anomalies \in Seq([region : Regions, sources : SUBSET DOMAIN signals,
                        at : Nat, mode : Modes])
  /\ \A r \in Regions :
       /\ observations[r] \subseteq SignalsOf(r)
       /\ \A c \in converged[r] : c.at \in 0..now /\ c.sources \subseteq SignalsOf(r)
  /\ mode \in [Regions -> Modes]
  /\ disabledAt \in [Regions -> Nat]
  /\ terminated \in [Regions -> {"no", "operator", "immune"}]
  /\ call \in [Threads -> Calls]
  /\ \A t \in Threads : call[t] # Idle => call[t].cell <= call[t].upto /\ call[t].upto <= registered

\* The signals some ConvergedAnomaly node among the first k names.
Named(k) == UNION {anomalies[j].sources : j \in 1..k}

SpecializationsOf(S) == {signals[i].specialization : i \in S}

\* No convergence is missed, whatever threads the signals came from: when a
\* signal was evaluated, it and the signals of the window before it that no
\* receipt names are too few specializations to converge.
NoConvergenceMissed ==
  \A i \in DOMAIN signals : signals[i].mode # "Disabled" =>
    Cardinality(SpecializationsOf(
      {j \in 1..i : /\ signals[j].region = signals[i].region
                    /\ signals[j].at + ConvergenceWindow >= signals[i].at
                    /\ j \notin Named(Len(anomalies))})) < ConvergenceN

\* The receipts that receipt k is built on, for the last convergence of k is
\* told by k alone: earlier convergences of the window that k sums up.
Rungs(k) == {j \in 1..(k - 1) : /\ anomalies[j].region = anomalies[k].region
                                /\ anomalies[j].sources \subseteq anomalies[k].sources}
Escalation(k) ==
  /\ Cardinality(Rungs(k)) + 1 >= EscalationM
  /\ \A j \in Rungs(k) : anomalies[j].at + EscalationWindow >= anomalies[k].at
  /\ \E i \in anomalies[k].sources : signals[i].damage

\* A signal counts for one convergence, and a convergence for one escalation.
CountedOnce ==
  \A k \in DOMAIN anomalies :
    /\ \A j \in 1..(k - 1) :
         anomalies[j].sources \cap anomalies[k].sources # {} => j \in Rungs(k)
    /\ \A j \in Rungs(k) : Rungs(j) = {}

\* The immune system terminates a region only after M convergences in the
\* escalation window with damage among them, judged while it was Active.
TerminationNeedsDamage ==
  \A r \in Regions : terminated[r] = "immune" =>
    \E k \in DOMAIN anomalies :
      anomalies[k].region = r /\ anomalies[k].mode = "Active" /\ Escalation(k)

\* An agent whose first samples were all equal learns no other value: whatever
\* differs deviates without bound, is flagged, and stays out of the baseline.
ConstantBaselineStays ==
  [][\A i \in DOMAIN agents : Warm(agents[i]) /\ Constant(agents[i]) =>
       Constant(agents'[i]) /\ agents'[i].sum * agents[i].n = agents[i].sum * agents'[i].n]_vars

\* The agents of this repository alone never terminate a region: what shows
\* them damage does not reach them behind the bridge.
BuiltInsNeverTerminate ==
  \A r \in Regions : terminated[r] = "immune" =>
    \E i \in DOMAIN Cells : Cells[i].specialization \notin BuiltIn

\* Behind the bridge no silence is ever reported, however long: a node ends it
\* before it is measured.
SilenceUnheard ==
  \A i \in DOMAIN signals : signals[i].specialization # "SilenceObserver"

\* What the agents of this repository can tell from behind the bridge.
BuiltInsBehindBridge == BuiltInsNeverTerminate /\ SilenceUnheard
=============================================================================
