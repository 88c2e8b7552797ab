----------------------------- MODULE KernelLoop -----------------------------
(***************************************************************************)
(* The kernel from power-on to power-off: the boot that restores or makes  *)
(* the fabric, the nucleation of the generative model from what an earlier *)
(* session saved, and the inference loop that learns, shows its log and    *)
(* persists when enough surprise is at risk.                               *)
(*                                                                         *)
(* The kernel is one thread; an action is one numbered section of the      *)
(* loop, and power may fail between any two.  How a snapshot reaches the   *)
(* medium is KernelSnapshot's subject: here a persist has an outcome.      *)
(* GenerativeModel says what each call changes of the model, ModelCodec    *)
(* what of it a carrier node keeps.                                        *)
(***************************************************************************)
EXTENDS ModelCodec

CONSTANTS
  Lines,           \* what the operator may type: a subset of Vocabulary
  Actions,         \* what the storage agent may choose to do
  Results,         \* how the device may answer
  Surprises,       \* how surprising an observation may be, by producer
  Bump,            \* what the persist command adds to the surprise at risk
  MetaEvery,       \* META_ASSESS_EVERY_LAMPORT
  LongestAnswer,   \* the most lines a known command answers with
  MaxObservations, \* bound on the observations of one lineage of models
  MaxRenders,      \* bound on the renders, after which no key is pressed
  MaxFaults,       \* bound on device operations that fail
  MaxCrashes       \* bound on power failures

Vocabulary == {"known", "unknown", "help", "persist", "clear", "silence"}

LoopParameters ==
  /\ Lines \subseteq Vocabulary
  /\ Actions \subseteq {"identify", "read", "write", "flush", "wait"}
  /\ Results \subseteq {"ok", "timeout", "error", "noDevice"}
  /\ Surprises \in [{"operator", "devices"} -> SUBSET Nat]
  /\ {Bump, MaxObservations, MaxRenders, MaxFaults, MaxCrashes} \subseteq Nat
  /\ LongestAnswer \in Nat \ {0}
  /\ MetaEvery \in Nat \ {0, 1}

ASSUME LoopAssumption == LoopParameters

VARIABLES
  enabled,  \* storage is present and the build may write to it
  disk,     \* the snapshot a restore finds, or NoSnapshot
  fabric,   \* FABRIC: its clock and the nodes that carry what was learned
  model,    \* MODEL
  pc,       \* where the kernel is
  dirty,    \* TESSERACT.dirty
  shown,    \* the screen shows the log and the input line as they are
  lastMeta, \* last_meta_lamport
  failed,   \* the last persist of this session failed
  faults,   \* device operations that failed so far
  crashes   \* power failures so far

display == <<dirty, shown>>
vars == <<enabled, disk, fabric, model, pc, display, lastMeta, failed, faults, crashes>>

NoModel == [boots |-> 0]
NoSnapshot == [lamport |-> 0, carriers |-> {}]
Goto(step) == pc' = step

(***************************************************************************)
(* The fabric: a clock, and the LearnedDriver nodes.                       *)
(***************************************************************************)
Tick(f, n) == [f EXCEPT !.lamport = @ + n]

\* A node is named by its content: what is there already is not made again.
Create(f, kind, blob) ==
  IF \E n \in f.carriers : n.kind = kind /\ n.blob = blob THEN f
  ELSE [lamport |-> f.lamport + 1,
        carriers |-> f.carriers \cup {[kind |-> kind, at |-> f.lamport + 1, blob |-> blob]}]

OfKind(f, kind) == {n \in f.carriers : n.kind = kind}
Newest(nodes) == CHOOSE n \in nodes : \A o \in nodes : n.at >= o.at

(***************************************************************************)
(* The interaction log.                                                    *)
(***************************************************************************)
\* The log candidates whose preference exceeds RENDER_THRESHOLD, and those
\* that are rendered whatever the model prefers.
Salient == {"genesis", "discovery", "restoreOk", "failure"}
Forced == {"input", "response", "failure"}
Renders(candidate) == candidate \in Salient \cup Forced

QuietPush == shown' = FALSE /\ UNCHANGED dirty   \* mutant: a new line does not ask for a render
Push == shown' = FALSE /\ dirty' = TRUE
Show(candidate) ==
  IF model = NoModel \/ Renders(candidate) THEN Push ELSE UNCHANGED display

\* submit_event: the model m hears of the event, rendered or not.
SubmitEvent(m, candidate) == model' = Heard(m, <<candidate>>) /\ Show(candidate)

(***************************************************************************)
(* Boot.                                                                   *)
(***************************************************************************)
\* Images of earlier versions: none, a driver of this device or of another
\* class, a model in an older format.
OldImages ==
  LET driver == EncodeDiscrete([dims |-> <<5, 5, 5>>, seen |-> 1])
      stranger == EncodeDiscrete([dims |-> <<3, 5, 5>>, seen |-> 1])
  IN {NoSnapshot,
      [lamport |-> 2, carriers |-> {[kind |-> "storage", at |-> 2, blob |-> driver]}],
      [lamport |-> 2, carriers |-> {[kind |-> "storage", at |-> 2, blob |-> stranger]}],
      [lamport |-> 3, carriers |-> {[kind |-> "model", at |-> 2, blob |-> <<Magic, Version - 1>>],
                                    [kind |-> "storage", at |-> 3, blob |-> driver]}]}

Init ==
  /\ enabled \in BOOLEAN
  /\ disk \in OldImages
  /\ fabric = NoSnapshot
  /\ model = NoModel
  /\ pc = "off"
  /\ dirty = TRUE
  /\ shown = FALSE
  /\ lastMeta = 0
  /\ failed = FALSE
  /\ faults = 0
  /\ crashes = 0

\* Without storage there is no restore and no persist.
Restore ==
  /\ pc = "off"
  /\ enabled
  /\ disk # NoSnapshot
  /\ fabric' = disk
  /\ Goto("bootPersist")
  /\ Show("restoreOk")
  /\ UNCHANGED <<enabled, disk, model, lastMeta, failed, faults, crashes>>

FreshGenesis ==
  /\ pc = "off"
  /\ \/ (~enabled \/ disk = NoSnapshot) /\ UNCHANGED faults
     \/ faults < MaxFaults /\ faults' = faults + 1
  /\ fabric' = Tick(NoSnapshot, 1)
  /\ Goto(IF enabled THEN "bootPersist" ELSE "nucleate")
  /\ Show("genesis")
  /\ UNCHANGED <<enabled, disk, model, lastMeta, failed, crashes>>

\* What a failed persist leaves behind: the snapshot there was, or none.
Damaged == {disk, NoSnapshot}

\* main persists the fabric before there is a model.
BootPersist ==
  /\ pc = "bootPersist"
  /\ \/ disk' = fabric /\ Show("persistOk") /\ UNCHANGED faults
     \/ /\ faults < MaxFaults
        /\ faults' = faults + 1
        /\ disk' \in Damaged
        /\ Show("failure")
  /\ Goto("nucleate")
  /\ UNCHANGED <<enabled, fabric, model, lastMeta, failed, crashes>>

Device == StorageAgent("vblk0")
WithDevice(m) ==
  IF enabled /\ m.devices = <<>> THEN [m EXCEPT !.devices = <<Device>>] ELSE m

\* The model of the newest carrier; else a new model, with what the newest
\* storage carrier holds if there was no model carrier at all.
Nucleated(f) ==
  LET models == OfKind(f, "model")
      drivers == OfKind(f, "storage")
      restored == IF models = {} THEN Unreadable ELSE Decode(Newest(models).blob)
      new == NoteBoot(WithDevice(Nucleation))
  IN IF restored # Unreadable THEN NoteBoot(WithDevice(restored))
     ELSE IF enabled /\ models = {} /\ drivers # {}
     THEN [new EXCEPT !.devices = <<RestoreFromBytes(Device, Newest(drivers).blob)>>]
     ELSE new

BootLog == IF enabled THEN <<"genesis", "discovery", "discovery">> ELSE <<"genesis", "discovery">>

\* One event node; a first probe, whose surprise is not accounted; the log of
\* the boot, rendered at once.
Nucleate ==
  /\ pc = "nucleate"
  /\ LET m == Nucleated(fabric)
     IN model' = Heard(IF enabled THEN [m EXCEPT !.devices[1] = Step(@)] ELSE m, BootLog)
  /\ fabric' = Tick(fabric, 1)
  /\ shown' = TRUE
  /\ dirty' = FALSE
  /\ lastMeta' = 0
  /\ Goto("observe")
  /\ UNCHANGED <<enabled, disk, failed, faults, crashes>>

(***************************************************************************)
(* The inference loop.                                                     *)
(***************************************************************************)
NoLine ==
  /\ pc = "observe"
  /\ \/ UNCHANGED display
     \/ model.counts.rendered < MaxRenders /\ Push   \* a keystroke changes the input line
  /\ Goto("agent")
  /\ UNCHANGED <<enabled, disk, fabric, model, lastMeta, failed, faults, crashes>>

\* The class the operator region sees, a known command unless it is special.
Classify(line) == IF line = "clear" THEN "known" ELSE line

\* persist makes the surprise at risk exceed the threshold.
Handled(m, line) == IF line = "persist" THEN [m EXCEPT !.risk = @ + Bump] ELSE m

\* The other commands answer with one line.
AnswerLines(line) == IF line = "known" THEN 1..LongestAnswer ELSE {1}

\* Two ticks and two nodes; the command runs before the line is accounted.  The
\* input is an event, and so is each line of the answer.
Submit(line, surprise, answer) ==
  /\ pc = "observe"
  /\ model.total < MaxObservations
  /\ fabric' = Tick(fabric, 4)
  /\ LET m == [Handled(model, line) EXCEPT
                 !.operator = ObserveIntent(@, Classify(line)),
                 !.graph = Explain(@, "operator", Classify(line), "rendered")]
         accounted == AccountSubstrate(AccountObservation(m, "operator", surprise), "addressed")
     IN model' = Heard(accounted, <<"input">> \o [i \in 1..answer |-> "response"])
  /\ Show("input")
  /\ Goto("agent")
  /\ UNCHANGED <<enabled, disk, lastMeta, failed, faults, crashes>>

NotDue ==
  /\ pc = "agent"
  /\ Goto("meta")
  /\ UNCHANGED <<enabled, disk, fabric, model, display, lastMeta, failed, faults, crashes>>

AgentStep(action, result, surprise) ==
  /\ pc = "agent"
  /\ enabled
  /\ model.total < MaxObservations
  /\ LET m == [model EXCEPT !.devices[1] = Step(@),
                            !.graph = Explain(@, "devices", action, Observation(result))]
         learned == AccountSurprisability(AccountObservation(m, "devices", surprise), "updated")
     IN model' = Heard(IF Novel(surprise) THEN AccountSurprisability(learned, "novel") ELSE learned,
                       <<"step">>)
  /\ fabric' = Tick(fabric, 1)
  /\ Push                          \* the agent's summary
  /\ Goto("meta")
  /\ UNCHANGED <<enabled, disk, lastMeta, failed, faults, crashes>>

\* Every MetaEvery ticks the model assesses itself: one event node.
Meta ==
  /\ pc = "meta"
  /\ IF fabric.lamport >= lastMeta + MetaEvery
     THEN /\ lastMeta' = fabric.lamport
          /\ fabric' = Tick(fabric, 1)
          /\ SubmitEvent([model EXCEPT !.lamport = fabric.lamport,
                                       !.meta = Assess(@, model.history)], "meta")
     ELSE UNCHANGED <<lastMeta, fabric, model, display>>
  /\ Goto("render")
  /\ UNCHANGED <<enabled, disk, failed, faults, crashes>>

\* A cycle that draws the screen accounts for the agent being legible.
Render ==
  /\ pc = "render"
  /\ shown' = (dirty \/ shown)
  /\ dirty' = FALSE
  /\ model' = IF dirty THEN AccountSubstrate(model, "rendered") ELSE model
  /\ Goto("persist")
  /\ UNCHANGED <<enabled, disk, fabric, lastMeta, failed, faults, crashes>>

\* The carriers are made before the outcome is known, with the surprise that
\* is at risk still in them.
Persist ==
  /\ pc = "persist"
  /\ IF enabled /\ ShouldPersist(model)
     THEN /\ fabric' = Create(Create(fabric, "model", Encode(model)),
                              "storage", EncodeDiscrete(model.devices[1].model))
          /\ Goto("write")
     ELSE fabric' = fabric /\ Goto("park")
  /\ UNCHANGED <<enabled, disk, model, display, lastMeta, failed, faults, crashes>>

\* What the persistence region observes of a persist; success is a restore to it.
Observed(m, ok) ==
  [m EXCEPT !.persistence =
     NotePersistOutcome(ObservePersistence(@, IF ok THEN "restoredOk" ELSE "ioError"), ok)]

ResetOnFailure(m) == Saved(m)      \* mutant: the surprise at risk is forgotten on failure too
KeptOnFailure(m) == m

Write ==
  /\ pc = "write"
  /\ \/ /\ disk' = fabric
        /\ SubmitEvent(Saved(Observed(model, TRUE)), "persistOk")
        /\ failed' = FALSE
        /\ UNCHANGED faults
     \/ /\ faults < MaxFaults
        /\ faults' = faults + 1
        /\ disk' \in Damaged
        /\ SubmitEvent(KeptOnFailure(Observed(model, FALSE)), "failure")
        /\ failed' = TRUE
  /\ Goto("park")
  /\ UNCHANGED <<enabled, fabric, lastMeta, crashes>>

\* The registry's one agent is credited with the cycle.
Park ==
  /\ pc = "park"
  /\ model' = [model EXCEPT !.agents.agents[1].lastTick = fabric.lamport]
  /\ Goto("observe")
  /\ UNCHANGED <<enabled, disk, fabric, display, lastMeta, failed, faults, crashes>>

(***************************************************************************)
(* Power fails: the memory is lost.  In the middle of a write the medium   *)
(* holds the old snapshot, the new one, or neither.                        *)
(***************************************************************************)
PowerFails ==
  /\ pc # "off"
  /\ crashes < MaxCrashes
  /\ crashes' = crashes + 1
  /\ disk' \in IF pc \in {"bootPersist", "write"} THEN Damaged \cup {fabric} ELSE {disk}
  /\ fabric' = NoSnapshot
  /\ model' = NoModel
  /\ Goto("off")
  /\ dirty' = TRUE
  /\ shown' = FALSE
  /\ failed' = FALSE
  /\ UNCHANGED <<enabled, lastMeta, faults>>

Kernel ==
  \/ Restore \/ FreshGenesis \/ BootPersist \/ Nucleate
  \/ NoLine
  \/ \E l \in Lines, s \in Surprises.operator : \E n \in AnswerLines(l) : Submit(l, s, n)
  \/ NotDue
  \/ \E a \in Actions, s \in Surprises.devices : \E r \in ResultsOf(a, Results) : AgentStep(a, r, s)
  \/ Meta \/ Render \/ Persist \/ Write \/ Park

Next == Kernel \/ PowerFails

\* The kernel goes on, and power comes back: weak fairness of Kernel, of which
\* some action is always enabled.
Spec == Init /\ [][Next]_vars /\ []<><<Kernel>>_vars

-----------------------------------------------------------------------------
Looping == pc \in {"observe", "agent", "meta", "render", "persist", "write", "park"}
ModelsIn(f) == {Header(n.blob) : n \in OfKind(f, "model")} \ {Unreadable}

\* The surprise a power failure now would lose: what the model learned and the
\* newest model in the snapshot did not.
SavedSurprise ==
  IF ModelsIn(disk) = {} THEN 0 ELSE Header(Newest(OfKind(disk, "model")).blob).learned

\* The accumulator that decides when to persist never understates what is at
\* risk, through failed persists and restarts; and when a failed persist also
\* destroyed the old snapshot, so that all is at risk, a persist is due.
AtRiskCovered ==
  enabled /\ Looping =>
    \/ model.risk > Threshold
    \/ model.learned <= SavedSurprise + model.risk

\* No carrier in the fabric knows more than the living model: a session never
\* goes on from an older model than the fabric it restored holds.
NoneKnowsMore ==
  Looping => \A m \in ModelsIn(fabric) : m.total <= model.total /\ m.boots <= model.boots

\* What was learned is in the living model, and the gate knows what of it is at
\* risk.
LearningKept == AtRiskCovered /\ NoneKnowsMore

\* The accounts of the model: each observation is made in several calls of two
\* producers, and each account comes back from the blob on its own.
Observations == Total(Each(model.graph.edges, LAMBDA e : e.observations))
Interned == Total(Each(model.graph.nodes, LAMBDA n : n.observations))

GraphAgrees == Observations = model.total /\ Interned = 2 * model.total

CountersAgree ==
  /\ model.total = model.operator.intents + model.counts.updated
  /\ model.counts.addressed = model.operator.intents
  /\ model.counts.substrate = 2 * model.counts.addressed + model.counts.rendered
  /\ model.counts.surprisability = model.counts.updated + 2 * model.counts.novel
  /\ model.meta.model.seen = model.meta.assessments
  /\ enabled => model.devices[1].model.seen >= model.boots + model.counts.updated

\* A persist is taken for a restore, every time.
PersistsAgree ==
  /\ model.persistence.model.seen = model.persistence.persists + model.persistence.failedPersists
  /\ model.persistence.restores = model.persistence.persists
  /\ model.persistence.failedRestores = 0

HistoryAgrees ==
  /\ Len(model.history.fe) = IF model.total < FeWindow THEN model.total ELSE FeWindow
  /\ model.total <= FeWindow => Total(model.history.fe) = model.learned

\* The operator region hears every event once: those of each boot, one of a step,
\* an assessment and a persist; of an intent it observes the class, the input and
\* the lines of the answer.
EventsAgree ==
  LET others == Len(BootLog) * model.boots + 2 * model.operator.intents + model.counts.updated
                + model.meta.assessments + model.persistence.model.seen
  IN model.operator.model.seen - others \in
       model.operator.intents .. (LongestAnswer * model.operator.intents)

\* Every observation that was counted is one co-occurrence in the causal graph,
\* and all the accounts agree with it, across both producers, failed persists
\* and all the sessions of a model.
CausalAccounts ==
  Looping => GraphAgrees /\ CountersAgree /\ PersistsAgree /\ HistoryAgrees /\ EventsAgree

\* Surprise beyond the threshold, also what the persist command asked for, is
\* saved once the device stops failing, unless power fails first.  A fabric that
\* no longer fits the device is a failure that does not stop.
RiskGetsSaved ==
  (Looping /\ enabled /\ model.risk > Threshold) ~> (pc = "off" \/ (Looping /\ model.risk <= Threshold))

\* What was logged after the render of a cycle, a failed persist too, reaches
\* the screen, unless power fails first.
ScreenCatchesUp == (Looping /\ ~shown) ~> (pc = "off" \/ shown)
=============================================================================
