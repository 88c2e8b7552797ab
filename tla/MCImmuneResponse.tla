-------------------------- MODULE MCImmuneResponse --------------------------
(* Small instances of ImmuneResponse for TLC. *)
EXTENDS ImmuneResponse, TLC

CONSTANTS t1, t2

OneRegion == {"nisaba"}
Foreign == {"first", "second"}   \* agents that are not of this repository
Kinds == BuiltIn \cup Foreign

cell(s) == [region |-> "nisaba", specialization |-> s]
Bounds(cells, events, contents, nDrives, nCreates, time, modes) ==
  [cells |-> cells, events |-> events, contents |-> contents,
   drives |-> nDrives, creates |-> nCreates, time |-> time, modes |-> modes]

\* Two agents with outcomes at will: modes, or one node more.
ForeignPairs ==
  {Bounds(<<cell("first"), cell("second")>>, {}, {"plain"}, 0, n[1], 2, n[2]) : n \in {<<2, 1>>, <<3, 0>>}}
\* Two built-in agents that see nodes, long enough to converge twice.
BuiltInPair ==
  Bounds(<<cell("WorkObserver"), cell("OpacityObserver")>>, {}, {"work", "opaque"}, 0, 5, 4, 0)

\* One agent, shown events by its owner and registered when the owner likes.
Alone(kind, events, contents, nDrives, nCreates, time) ==
  Bounds(<<cell(kind)>>, events, contents, nDrives, nCreates, time, 0)
Values(kind, values) == {TraceEvent(kind, v) : v \in values}
Lone ==
  { Alone("RateObserver", {TickEvent}, {"plain"}, 2, 4, 4),
    Alone("RelationObserver", Values("EdgeAdded", {0}) \cup {TickEvent}, {"plain"}, 5, 2, 4),
    Alone("DecayObserver", Values("RegionDecayThresholdCrossed", 1..3), {"plain"}, 6, 1, 0),
    Alone("ConsensusObserver", Values("ConsensusSnapshotEmitted", 1..3), {"plain"}, 8, 1, 0),
    Alone("AttestationObserver", Values("AttestationFailed", {0}), {"plain"}, 2, 2, 0),
    Alone("SilenceObserver", Values("EdgeAdded", {0}) \cup {TickEvent}, {"plain"}, 4, 2, 5),
    Alone("OpacityObserver", {}, {"plain", "opaque"}, 0, 3, 1) }

AllMenus == Lone \cup ForeignPairs \cup {BuiltInPair}

Symmetry == Permutations(Threads)
=============================================================================
