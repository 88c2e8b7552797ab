------------------------- MODULE FabricStore_proofs -------------------------
(***************************************************************************)
(* Theorems of FabricStore, for any commands, contents and bounds.         *)
(***************************************************************************)
EXTENDS FabricStore, FiniteSetTheorems, NaturalsInduction, WellFoundedInduction, TLAPS

-----------------------------------------------------------------------------
(***************************************************************************)
(* The records a fabric is, and the nodes it has after each method.        *)
(***************************************************************************)
IsShape(f) == DOMAIN f = {"nodes", "index", "edges", "rev", "clock"}

LEMMA EmptyShape == IsShape(Empty) /\ DOMAIN Empty.nodes = {}
BY DEF IsShape, Empty

LEMMA CreateNodes ==
  ASSUME NEW f, IsShape(f), NEW i, NEW n
  PROVE  IsShape(Create(f, i, n)) /\ DOMAIN Create(f, i, n).nodes = DOMAIN f.nodes \cup {i}
BY DEF IsShape, Create, Put

LEMMA SyncNodes ==
  ASSUME NEW f, IsShape(f), NEW ids
  PROVE  IsShape(SyncContext(f, ids)) /\ DOMAIN SyncContext(f, ids).nodes = DOMAIN f.nodes
BY DEF IsShape, SyncContext

LEMMA TouchNodes ==
  ASSUME NEW f, IsShape(f), NEW order, NEW stamped
  PROVE  /\ IsShape(Touch(f, order, stamped))
         /\ DOMAIN Touch(f, order, stamped).nodes = DOMAIN f.nodes
BY DEF IsShape, Touch

LEMMA SavedNodes ==
  ASSUME NEW f, NEW first
  PROVE  DOMAIN Save(f, first).nodes = DOMAIN f.nodes
BY DEF Save

LEMMA RestoredNodes ==
  ASSUME NEW saved
  PROVE  IsShape(Restored(saved)) /\ DOMAIN Restored(saved).nodes = DOMAIN saved.nodes
<1> DEFINE present == DOMAIN saved.nodes
           edges == [a \in Ids |-> IF a \in present
                       THEN Retain(saved.edges[a], present) ELSE <<>>]
           bare == [nodes |-> [i \in DOMAIN saved.nodes |-> IntoNode(saved.nodes[i])],
                    index |-> saved.first,
                    edges |-> edges,
                    rev |-> [b \in Ids |-> [a \in Ids |->
                               Cardinality({n \in DOMAIN edges[a] : edges[a][n].target = b})]],
                    clock |-> saved.clock]
<1>1. Restored(saved) = SyncContext(bare, DOMAIN saved.nodes)
  BY DEF Restored, WithEdges
<1>2. IsShape(bare) /\ DOMAIN bare.nodes = DOMAIN saved.nodes
  BY DEF IsShape
<1> HIDE DEF bare
<1>3. QED
  BY <1>1, <1>2, SyncNodes

-----------------------------------------------------------------------------
(***************************************************************************)
(* Saves.  As long as nothing was exposed, one process at a time writes,   *)
(* from a fabric no older than the file; while it writes the file is torn; *)
(* and a fabric that is as new as the file holds what it did not fade of   *)
(* what earlier saves kept.                                                *)
(***************************************************************************)
IsUp(p) ==
  /\ DOMAIN proc[p] = {"pc", "f", "base", "gone"}
  /\ proc[p].pc \in {"up", "writing"}
  /\ proc[p].base \in Nat /\ proc[p].base <= version
  /\ IsShape(proc[p].f)

Slots ==
  /\ DOMAIN proc = Processes
  /\ \A p \in Processes : proc[p] = Down \/ IsUp(p)
  /\ version \in Nat /\ exposed \in BOOLEAN
  /\ version = 0 => kept = {}

IsWriting(p) == p \in Processes /\ proc[p].pc = "writing"

Intact ==
  /\ \A p, q \in Processes : IsWriting(p) /\ IsWriting(q) => p = q
  /\ \A p \in Processes : IsWriting(p) => proc[p].base = version /\ file = Torn
  /\ \A p \in Processes :
       proc[p] # Down /\ proc[p].base = version /\ Writing(p) = {} =>
         kept \subseteq DOMAIN proc[p].f.nodes \cup proc[p].gone
  /\ (\A p \in Processes : ~ IsWriting(p)) =>
       \/ file = Absent /\ kept = {}
       \/ file.state = "valid" /\ kept \subseteq DOMAIN file.saved.nodes

SavesIntact == Slots /\ (~ exposed => Intact)

LEMMA IntactStarts ==
  ASSUME Init
  PROVE  SavesIntact
BY DEF Init, SavesIntact, Slots, Intact, IsWriting, Down, Absent, Torn

\* A process starts with fabric f: when no other process writes, one that is as new
\* as the file holds what was kept.
LEMMA StartIntact ==
  ASSUME SavesIntact, NEW p \in Processes, NEW f, IsShape(f), proc[p] = Down,
         NEW base \in Nat, base <= version,
         proc' = [proc EXCEPT ![p] = Up(f, base)], UNCHANGED <<file, version, kept, exposed>>,
         Writing(p) = {} /\ ~ exposed /\ base = version => kept \subseteq DOMAIN f.nodes
  PROVE  SavesIntact'
<1>1. /\ proc'[p] = Up(f, base) /\ \A q \in Processes \ {p} : proc'[q] = proc[q]
      /\ DOMAIN proc' = Processes /\ proc'[p] # Down
  BY DEF SavesIntact, Slots, Up, Down
<1>2. /\ DOMAIN proc'[p] = {"pc", "f", "base", "gone"} /\ proc'[p].pc = "up" /\ proc'[p].f = f
      /\ proc'[p].base = base /\ proc'[p].gone = {}
  BY <1>1 DEF Up
<1>3. Slots'
  BY <1>1, <1>2 DEF SavesIntact, Slots, IsUp, IsShape
<1>4. /\ \A q \in Processes : IsWriting(q)' <=> IsWriting(q)
      /\ \A q \in Processes : Writing(q)' = Writing(q)
  BY <1>1, <1>2 DEF IsWriting, Writing, Down
<1>5. ASSUME ~ exposed
      PROVE  Intact'
  <2>1. Intact
    BY <1>5 DEF SavesIntact
  <2>2. \A q \in Processes : IsWriting(q) => q # p
    BY DEF IsWriting, Down
  <2>3. /\ \A q, r \in Processes : IsWriting(q)' /\ IsWriting(r)' => q = r
        /\ \A q \in Processes : IsWriting(q)' => proc'[q].base = version' /\ file' = Torn
    BY <1>1, <1>4, <2>1, <2>2 DEF Intact
  <2>4. \A q \in Processes :
          proc'[q] # Down /\ proc'[q].base = version' /\ Writing(q)' = {} =>
            kept' \subseteq DOMAIN proc'[q].f.nodes \cup proc'[q].gone
    BY <1>1, <1>2, <1>4, <1>5, <2>1 DEF Intact
  <2>5. (\A q \in Processes : ~ IsWriting(q)') =>
          \/ file' = Absent /\ kept' = {}
          \/ file'.state = "valid" /\ kept' \subseteq DOMAIN file'.saved.nodes
    BY <1>4, <2>1 DEF Intact
  <2>6. QED
    BY <2>3, <2>4, <2>5 DEF Intact
<1>6. QED
  BY <1>3, <1>5 DEF SavesIntact

\* The host works on its fabric: what it fades is in gone.
LEMMA WorkIntact ==
  ASSUME SavesIntact, Works, NEW f, IsShape(f), To(f)
  PROVE  SavesIntact'
<1> DEFINE x == [proc[Host] EXCEPT !.f = f, !.gone = @ \cup (DOMAIN F.nodes \ DOMAIN f.nodes)]
<1>1. Host \in Processes /\ proc[Host].pc = "up" /\ IsUp(Host) /\ DOMAIN proc = Processes
  BY DEF Works, SavesIntact, Slots, Processes, Down
<1>2. /\ DOMAIN x = {"pc", "f", "base", "gone"} /\ x.pc = "up" /\ x.f = f
      /\ x.base = proc[Host].base
      /\ x.gone = proc[Host].gone \cup (DOMAIN proc[Host].f.nodes \ DOMAIN f.nodes)
  BY <1>1 DEF IsUp, F
<1>3. /\ proc' = [proc EXCEPT ![Host] = x]
      /\ UNCHANGED <<file, saves, version, kept, exposed>>
  BY DEF To
<1> HIDE DEF x
<1>4. proc'[Host] = x /\ \A q \in Processes \ {Host} : proc'[q] = proc[q]
  BY <1>1, <1>3
<1>5. Slots'
  BY <1>1, <1>2, <1>3, <1>4 DEF SavesIntact, Slots, IsUp, IsShape
<1>6. /\ \A q \in Processes : IsWriting(q)' <=> IsWriting(q)
      /\ \A q \in Processes : Writing(q)' = Writing(q)
  BY <1>1, <1>2, <1>4 DEF IsWriting, Writing
<1>7. ASSUME ~ exposed
      PROVE  Intact'
  <2>1. Intact /\ ~ IsWriting(Host) /\ proc[Host] # Down
    BY <1>1, <1>7 DEF SavesIntact, IsWriting, Down
  <2>2. /\ \A q, r \in Processes : IsWriting(q)' /\ IsWriting(r)' => q = r
        /\ \A q \in Processes : IsWriting(q)' => proc'[q].base = version' /\ file' = Torn
    BY <1>3, <1>4, <1>6, <2>1 DEF Intact
  <2>3. \A q \in Processes :
          proc'[q] # Down /\ proc'[q].base = version' /\ Writing(q)' = {} =>
            kept' \subseteq DOMAIN proc'[q].f.nodes \cup proc'[q].gone
    <3>1. SUFFICES ASSUME NEW q \in Processes,
                          proc'[q] # Down, proc'[q].base = version', Writing(q)' = {}
                   PROVE  kept' \subseteq DOMAIN proc'[q].f.nodes \cup proc'[q].gone
      OBVIOUS
    <3>2. CASE q = Host
      BY <1>1, <1>2, <1>3, <1>4, <1>6, <2>1, <3>1, <3>2 DEF Intact
    <3>3. CASE q # Host
      BY <1>3, <1>4, <1>6, <2>1, <3>1, <3>3 DEF Intact
    <3>4. QED
      BY <3>2, <3>3
  <2>4. (\A q \in Processes : ~ IsWriting(q)') =>
          \/ file' = Absent /\ kept' = {}
          \/ file'.state = "valid" /\ kept' \subseteq DOMAIN file'.saved.nodes
    BY <1>3, <1>6, <2>1 DEF Intact
  <2>5. QED
    BY <2>2, <2>3, <2>4 DEF Intact
<1>8. QED
  BY <1>3, <1>5, <1>7 DEF SavesIntact

LEMMA TruncateIntact ==
  ASSUME SavesIntact, NEW p \in Processes, Truncate(p)
  PROVE  SavesIntact'
<1> DEFINE x == [proc[p] EXCEPT !.pc = "writing"]
<1>1. proc[p].pc = "up" /\ IsUp(p) /\ DOMAIN proc = Processes
  BY DEF Truncate, SavesIntact, Slots, Down
<1>2. /\ DOMAIN x = {"pc", "f", "base", "gone"} /\ x.pc = "writing" /\ x.f = proc[p].f
      /\ x.base = proc[p].base /\ x.gone = proc[p].gone
  BY <1>1 DEF IsUp
<1>3. /\ proc' = [proc EXCEPT ![p] = x] /\ file' = Torn
      /\ exposed' = (exposed \/ proc[p].base # version \/ Writing(p) # {})
      /\ UNCHANGED <<version, kept>>
  BY DEF Truncate
<1> HIDE DEF x
<1>4. proc'[p] = x /\ \A q \in Processes \ {p} : proc'[q] = proc[q]
  BY <1>1, <1>3
<1>5. Slots'
  BY <1>1, <1>2, <1>3, <1>4 DEF SavesIntact, Slots, IsUp, IsShape
<1>6. ASSUME ~ exposed'
      PROVE  Intact'
  <2>1. Intact /\ proc[p].base = version /\ Writing(p) = {}
    BY <1>3, <1>6 DEF SavesIntact, Slots
  <2>2. \A q \in Processes : IsWriting(q)' <=> q = p
    BY <1>2, <1>4, <2>1 DEF IsWriting, Writing
  <2>3. \A q \in Processes \ {p} : p \in Writing(q)'
    BY <1>2, <1>4 DEF Writing
  <2>4. /\ \A q \in Processes : IsWriting(q)' => proc'[q].base = version' /\ file' = Torn
        /\ \A q \in Processes :
             proc'[q] # Down /\ proc'[q].base = version' /\ Writing(q)' = {} =>
               kept' \subseteq DOMAIN proc'[q].f.nodes \cup proc'[q].gone
    <3>1. kept \subseteq DOMAIN proc[p].f.nodes \cup proc[p].gone
      BY <1>1, <2>1 DEF Intact, Down
    <3>2. QED
      BY <1>2, <1>3, <1>4, <2>1, <2>2, <2>3, <3>1
  <2>5. QED
    BY <2>2, <2>4 DEF Intact
<1>7. QED
  BY <1>5, <1>6 DEF SavesIntact

LEMMA WriteIntact ==
  ASSUME SavesIntact, NEW p \in Processes, WriteFile(p)
  PROVE  SavesIntact'
<1>1. proc[p].pc = "writing" /\ IsUp(p) /\ DOMAIN proc = Processes /\ version \in Nat
  BY DEF WriteFile, SavesIntact, Slots, Down
<1>2. /\ version' = version + 1 /\ kept' = (kept \ proc[p].gone) \cup DOMAIN proc[p].f.nodes
      /\ proc' = [proc EXCEPT ![p] = AfterSave(p)]
      /\ exposed' = (exposed \/ ~ IsReadable(proc[p].f))
  BY DEF WriteFile, AllHad
<1>3. proc'[p] = AfterSave(p) /\ \A q \in Processes \ {p} : proc'[q] = proc[q]
  BY <1>1, <1>2
<1>4. \/ AfterSave(p) = Down
      \/ /\ DOMAIN AfterSave(p) = {"pc", "f", "base", "gone"} /\ AfterSave(p).pc = "up"
         /\ AfterSave(p).f = proc[p].f /\ AfterSave(p).base = version + 1 /\ AfterSave(p).gone = {}
  BY <1>1 DEF AfterSave, IsUp
<1>5. Slots'
  <2>1. /\ DOMAIN proc' = Processes /\ version' \in Nat /\ exposed' \in BOOLEAN
    BY <1>1, <1>2 DEF SavesIntact, Slots
  <2>2. proc'[p] = Down \/ IsUp(p)'
    BY <1>1, <1>2, <1>3, <1>4 DEF IsUp, IsShape
  <2>3. \A q \in Processes \ {p} : proc'[q] = Down \/ IsUp(q)'
    BY <1>1, <1>2, <1>3 DEF SavesIntact, Slots, IsUp
  <2>4. version' # 0
    BY <1>1, <1>2 DEF SavesIntact, Slots
  <2>5. QED
    BY <2>1, <2>2, <2>3, <2>4 DEF Slots
<1>6. ASSUME ~ exposed'
      PROVE  Intact'
  <2>1. Intact /\ IsWriting(p) /\ IsReadable(proc[p].f)
    BY <1>1, <1>2, <1>6 DEF SavesIntact, IsWriting, Slots
  <2>2. \A q \in Processes : ~ IsWriting(q)'
    BY <1>3, <1>4, <2>1 DEF Intact, IsWriting, Down
  <2>3. kept' = DOMAIN proc[p].f.nodes
    <3>1. Writing(p) = {} /\ proc[p].base = version
      BY <2>1 DEF Intact, IsWriting, Writing
    <3>2. kept \subseteq DOMAIN proc[p].f.nodes \cup proc[p].gone
      BY <1>1, <2>1, <3>1 DEF Intact, Down
    <3>3. QED
      BY <1>2, <3>2
  <2>4. file'.state = "valid" /\ kept' \subseteq DOMAIN file'.saved.nodes
    <3>1. file.state # "valid"
      BY <2>1 DEF Intact, Torn
    <3>2. PICK first \in Orders(proc[p].f) : file' = [state |-> "valid", saved |-> Save(proc[p].f, first)]
      BY <2>1, <3>1 DEF WriteFile
    <3>3. QED
      BY <2>3, <3>2, SavedNodes
  <2>5. \A q \in Processes :
          proc'[q] # Down /\ proc'[q].base = version' /\ Writing(q)' = {} =>
            kept' \subseteq DOMAIN proc'[q].f.nodes \cup proc'[q].gone
    <3>1. \A q \in Processes \ {p} : proc'[q] = Down \/ proc'[q].base # version'
      BY <1>1, <1>2, <1>3 DEF SavesIntact, Slots, IsUp
    <3>2. proc'[p] = Down \/ proc'[p].f = proc[p].f
      BY <1>3, <1>4
    <3>3. QED
      BY <2>3, <3>1, <3>2
  <2>6. QED
    BY <2>2, <2>4, <2>5 DEF Intact
<1>7. QED
  BY <1>5, <1>6 DEF SavesIntact

LEMMA StopIntact ==
  ASSUME SavesIntact, NEW p \in Processes, Stop(p)
  PROVE  SavesIntact'
<1>1. /\ proc[p] # Down /\ DOMAIN proc = Processes /\ proc' = [proc EXCEPT ![p] = Down]
      /\ exposed' = (exposed \/ proc[p].pc = "writing") /\ UNCHANGED <<file, version, kept>>
  BY DEF Stop, SavesIntact, Slots
<1>2. proc'[p] = Down /\ \A q \in Processes \ {p} : proc'[q] = proc[q]
  BY <1>1
<1>3. Slots'
  BY <1>1, <1>2 DEF SavesIntact, Slots, IsUp
<1>4. ASSUME ~ exposed'
      PROVE  Intact'
  <2>1. Intact /\ ~ IsWriting(p)
    BY <1>1, <1>4 DEF SavesIntact, Slots, IsWriting
  <2>2. /\ \A q \in Processes : IsWriting(q)' <=> IsWriting(q)
        /\ \A q \in Processes : Writing(q)' = Writing(q)
    BY <1>2, <2>1 DEF IsWriting, Writing, Down
  <2>3. /\ \A q, r \in Processes : IsWriting(q)' /\ IsWriting(r)' => q = r
        /\ \A q \in Processes : IsWriting(q)' => proc'[q].base = version' /\ file' = Torn
    BY <1>1, <1>2, <2>1, <2>2 DEF Intact
  <2>4. \A q \in Processes :
          proc'[q] # Down /\ proc'[q].base = version' /\ Writing(q)' = {} =>
            kept' \subseteq DOMAIN proc'[q].f.nodes \cup proc'[q].gone
    BY <1>1, <1>2, <2>1, <2>2 DEF Intact
  <2>5. (\A q \in Processes : ~ IsWriting(q)') =>
          \/ file' = Absent /\ kept' = {}
          \/ file'.state = "valid" /\ kept' \subseteq DOMAIN file'.saved.nodes
    BY <1>1, <2>1, <2>2 DEF Intact
  <2>6. QED
    BY <2>3, <2>4, <2>5 DEF Intact
<1>5. QED
  BY <1>3, <1>4 DEF SavesIntact

-----------------------------------------------------------------------------
(***************************************************************************)
(* The steps.  What each does to the fabric of its process, whatever the   *)
(* fabric is: the host's goes on from F, a command's from what it loads.   *)
(***************************************************************************)
LEMMA ShapesKept ==
  ASSUME NEW f, IsShape(f), NEW i, NEW b, NEW c, NEW k
  PROVE  /\ IsShape(Mutate(f, i, c)) /\ IsShape(Fade(f, i)) /\ IsShape(AddEdge(f, i, b, k))
         /\ IsShape(RemoveEdgesBetween(f, i, b)) /\ IsShape(ModifyEdge(f, i, b))
<1>1. IsShape(Mutate(f, i, c))
  BY DEF IsShape, Mutate
<1>2. IsShape(Fade(f, i))
  BY DEF IsShape, Fade, SyncContext
<1>3. ASSUME NEW g, IsShape(g), NEW j
      PROVE  IsShape(AddEdge(g, i, b, j))
  BY <1>3 DEF IsShape, AddEdge, SyncContext
<1>4. IsShape(RemoveEdgesBetween(f, i, b))
  BY DEF IsShape, RemoveEdgesBetween, SyncContext
<1>5. QED
  BY <1>1, <1>2, <1>3, <1>4 DEF ModifyEdge

LEMMA LoadedIs ==
  ASSUME SavesIntact, NEW p \in Processes, proc[p] = Down, NEW l \in Loads
  PROVE  /\ IsShape(l.f) /\ l.base \in Nat /\ l.base <= version
         /\ Writing(p) = {} /\ ~ exposed /\ l.base = version => kept \subseteq DOMAIN l.f.nodes
<1>1. version \in Nat /\ (version = 0 => kept = {})
  BY DEF SavesIntact, Slots
<1>2. CASE l = [f |-> Empty, base |-> 0]
  BY <1>1, <1>2, EmptyShape
<1>3. CASE file.state = "valid" /\ l = [f |-> Restored(file.saved), base |-> version]
  <2>1. IsShape(l.f) /\ DOMAIN l.f.nodes = DOMAIN file.saved.nodes
    BY <1>3, RestoredNodes
  <2>2. ASSUME Writing(p) = {}, ~ exposed
        PROVE  kept \subseteq DOMAIN l.f.nodes
    <3>1. \A q \in Processes : ~ IsWriting(q)
      BY <2>2 DEF IsWriting, Writing, Down
    <3>2. kept \subseteq DOMAIN file.saved.nodes
      BY <1>3, <2>2, <3>1 DEF SavesIntact, Intact, Absent
    <3>3. QED
      BY <2>1, <3>2
  <2>3. QED
    BY <1>1, <1>3, <2>1, <2>2
<1>4. QED
  BY <1>2, <1>3 DEF Loads

LEMMA SeededNodes ==
  ASSUME NEW f, IsShape(f), NEW i
  PROVE  IsShape(Seeded(f, i)) /\ DOMAIN f.nodes \subseteq DOMAIN Seeded(f, i).nodes
BY CreateNodes DEF Seeded

\* Open loads the file or, when there is none, nothing.
LEMMA OpenLoads ==
  ASSUME Open
  PROVE  \E l \in Loads : proc' = [proc EXCEPT ![Host] = Up(l.f, l.base)]
<1>1. CASE file = Absent /\ proc' = [proc EXCEPT ![Host] = Up(Empty, 0)]
  <2>1. PICK l : l = [f |-> Empty, base |-> 0]
    OBVIOUS
  <2>2. l \in Loads /\ l.f = Empty /\ l.base = 0
    BY <2>1 DEF Loads
  <2>3. QED
    BY <1>1, <2>2
<1>2. CASE /\ file.state = "valid"
           /\ proc' = [proc EXCEPT ![Host] = Up(Restored(file.saved), version)]
  <2>1. PICK l : l = [f |-> Restored(file.saved), base |-> version]
    OBVIOUS
  <2>2. l \in Loads /\ l.f = Restored(file.saved) /\ l.base = version
    BY <1>2, <2>1 DEF Loads
  <2>3. QED
    BY <1>2, <2>2
<1>3. QED
  BY <1>1, <1>2 DEF Open

LEMMA OpenIntact ==
  ASSUME SavesIntact, Open
  PROVE  SavesIntact'
<1>1. Host \in Processes /\ proc[Host] = Down
  BY DEF Open, Processes
<1>2. PICK l \in Loads : /\ proc' = [proc EXCEPT ![Host] = Up(l.f, l.base)]
                         /\ UNCHANGED <<file, version, kept, exposed>>
  BY OpenLoads DEF Open
<1>3. QED
  BY <1>1, <1>2, LoadedIs, StartIntact

LEMMA CommandIntact ==
  ASSUME SavesIntact, NEW p \in Commands, Command(p)
  PROVE  SavesIntact'
<1>1. p \in Processes
  BY DEF Processes
<1>2. PICK l \in Loads :
        \/ CmdInit(p, l)
        \/ \E want \in Wants, args \in Metas : CmdAdd(p, l, want, args)
        \/ \E query \in BOOLEAN, clause \in Clauses : CmdSearch(p, l, query, clause)
  BY DEF Command
<1>3. PICK loaded : loaded = l.f
  OBVIOUS
<1>4. ASSUME NEW f, NEW ids, Begin(p, f, l.base, ids), IsShape(f),
             DOMAIN loaded.nodes \subseteq DOMAIN f.nodes
      PROVE  SavesIntact'
  <2>1. /\ proc[p] = Down /\ proc' = [proc EXCEPT ![p] = Up(f, l.base)]
        /\ UNCHANGED <<file, version, kept, exposed>>
    BY <1>4 DEF Begin
  <2>2. QED
    BY <1>1, <1>3, <1>4, <2>1, LoadedIs, StartIntact
<1>5. ASSUME NEW f, NEW ids, Begin(p, f, l.base, ids)
      PROVE  IsShape(loaded)
  BY <1>1, <1>3, <1>5, LoadedIs DEF Begin
<1>6. CASE CmdInit(p, l)
  BY <1>3, <1>4, <1>5, <1>6, SeededNodes DEF CmdInit
<1>7. CASE \E want \in Wants, args \in Metas : CmdAdd(p, l, want, args)
  <2>1. PICK want \in Wants, args \in Metas : CmdAdd(p, l, want, args)
    BY <1>7
  <2>2. IsShape(loaded) => \A i, n : LET f == Create(loaded, i, n) IN
          IsShape(f) /\ DOMAIN loaded.nodes \subseteq DOMAIN f.nodes
    BY CreateNodes
  <2>3. IsShape(loaded) => \A i, j, n : LET f == Create(Seeded(loaded, j), i, n) IN
          IsShape(f) /\ DOMAIN loaded.nodes \subseteq DOMAIN f.nodes
    BY SeededNodes, CreateNodes
  <2>4. QED
    BY <1>3, <1>4, <1>5, <2>1, <2>2, <2>3 DEF CmdAdd
<1>8. CASE \E query \in BOOLEAN, clause \in Clauses : CmdSearch(p, l, query, clause)
  <2>1. PICK query \in BOOLEAN, clause \in Clauses : CmdSearch(p, l, query, clause)
    BY <1>8
  <2>2. \E all, found : Begin(p, Touch(Touch(loaded, all, FALSE), found, TRUE), l.base, 0)
    BY <1>3, <2>1 DEF CmdSearch
  <2>3. IsShape(loaded) => \A all, found : LET f == Touch(Touch(loaded, all, FALSE), found, TRUE) IN
          IsShape(f) /\ DOMAIN loaded.nodes = DOMAIN f.nodes
    BY TouchNodes
  <2>4. QED
    BY <1>4, <1>5, <2>2, <2>3
<1>9. QED
  BY <1>2, <1>6, <1>7, <1>8

LEMMA HostIntact ==
  ASSUME SavesIntact, HostStep
  PROVE  SavesIntact'
<1>1. CASE Open
  BY <1>1, OpenIntact
<1>2. ASSUME ~ Open
      PROVE  Works /\ \E f : IsShape(f) /\ To(f)
  <2>1. Works
    BY <1>2 DEF HostStep, AddNode, AddCopy, MutateNode, FadeNode, LinkNodes, UnlinkNodes,
                ApplyModifyEdge, InferAndLearn
  <2>2. IsShape(F)
    BY <2>1 DEF Works, F, SavesIntact, Slots, IsUp, Down, Processes
  <2>3. CASE \E c \in Contents : AddNode(c)
    BY <2>2, <2>3, CreateNodes DEF AddNode
  <2>4. CASE \E i \in Ids, c \in Contents : AddCopy(i, c)
    BY <2>2, <2>4, CreateNodes DEF AddCopy
  <2>5. CASE \E i \in Ids, c \in Contents : MutateNode(i, c)
    BY <2>2, <2>5, ShapesKept DEF MutateNode
  <2>6. CASE \E i \in Ids : FadeNode(i)
    BY <2>2, <2>6, ShapesKept DEF FadeNode
  <2>7. CASE \E a, b \in Ids, k \in Kinds : LinkNodes(a, b, k)
    BY <2>2, <2>7, ShapesKept DEF LinkNodes
  <2>8. CASE \E a, b \in Ids : UnlinkNodes(a, b) \/ ApplyModifyEdge(a, b) \/ InferAndLearn(a, b)
    BY <2>2, <2>8, ShapesKept DEF UnlinkNodes, ApplyModifyEdge, InferAndLearn
  <2>9. QED
    BY <1>2, <2>1, <2>3, <2>4, <2>5, <2>6, <2>7, <2>8 DEF HostStep
<1>3. QED
  BY <1>1, <1>2, WorkIntact

LEMMA SavesIntactKept ==
  ASSUME SavesIntact, [Next]_vars
  PROVE  SavesIntact'
<1>1. CASE HostStep
  BY <1>1, HostIntact
<1>2. CASE \E p \in Commands : Command(p)
  BY <1>2, CommandIntact
<1>3. CASE \E p \in Processes : Truncate(p) \/ WriteFile(p) \/ Stop(p)
  BY <1>3, TruncateIntact, WriteIntact, StopIntact
<1>4. CASE UNCHANGED vars
  <2>1. UNCHANGED <<proc, version, exposed, file, kept>>
    BY <1>4 DEF vars
  <2>2. QED
    BY <2>1 DEF SavesIntact, Slots, IsUp, Intact, IsWriting, Writing
<1>5. QED
  BY <1>1, <1>2, <1>3, <1>4 DEF Next

\* What a finished save holds stays in the file until a process that had it fades
\* it, unless a process saved a fabric older than the file, as one begun afresh after
\* a failed read is, wrote while another wrote, was cut short, or saved a number that
\* is not finite (Fabric::save, Fabric::load, load_or_create_fabric).
THEOREM KeptSafely == Spec => []KeptUnlessExposed
<1>1. Init => SavesIntact
  BY IntactStarts
<1>2. SavesIntact /\ [Next]_vars => SavesIntact'
  BY SavesIntactKept
<1>3. SavesIntact => KeptUnlessExposed
  BY DEF SavesIntact, Slots, Intact, IsWriting, KeptUnlessExposed
<1>4. QED
  BY <1>1, <1>2, <1>3, PTL DEF Spec

-----------------------------------------------------------------------------
(***************************************************************************)
(* Sound fabrics: signatures are those of the contents, timestamps tell    *)
(* the nodes apart and are not ahead of the clock; and the index names     *)
(* nodes of the signature it is asked for.                                 *)
(***************************************************************************)
Fields == {"content", "signature", "meta", "context", "version", "ts"}
IsSigned(n) == n.signature = SigBytes(n.content)

Whole(f) ==
  /\ IsShape(f) /\ f.clock \in Nat
  /\ \A i \in DOMAIN f.nodes :
       /\ DOMAIN f.nodes[i] = Fields /\ IsSigned(f.nodes[i])
       /\ f.nodes[i].ts \in Nat /\ f.nodes[i].ts <= f.clock
  /\ \A i, j \in DOMAIN f.nodes : f.nodes[i].ts = f.nodes[j].ts => i = j

Owned(f) ==
  \A s \in DOMAIN f.index :
    f.index[s] \in DOMAIN f.nodes /\ f.nodes[f.index[s]].signature = s

\* The two fabrics differ in edges, contexts, metadata or versions only.
SameIdentity(f, g) ==
  /\ IsShape(g) /\ DOMAIN g.nodes = DOMAIN f.nodes /\ g.index = f.index /\ g.clock = f.clock
  /\ \A i \in DOMAIN f.nodes :
       /\ DOMAIN g.nodes[i] = DOMAIN f.nodes[i]
       /\ g.nodes[i].content = f.nodes[i].content /\ g.nodes[i].signature = f.nodes[i].signature
       /\ g.nodes[i].ts = f.nodes[i].ts

LEMMA SameIsWhole ==
  ASSUME NEW f, NEW g, Whole(f), SameIdentity(f, g)
  PROVE  Whole(g) /\ (Owned(f) => Owned(g))
<1>1. Whole(g)
  BY DEF Whole, SameIdentity, IsSigned
<1>2. Owned(f) => Owned(g)
  BY DEF Owned, SameIdentity
<1>3. QED
  BY <1>1, <1>2

LEMMA SyncIsSame ==
  ASSUME NEW f, IsShape(f), \A i \in DOMAIN f.nodes : DOMAIN f.nodes[i] = Fields, NEW ids
  PROVE  SameIdentity(f, SyncContext(f, ids))
<1> DEFINE g == SyncContext(f, ids)
<1>1. /\ IsShape(g) /\ g.index = f.index /\ g.clock = f.clock
      /\ g.nodes = [i \in DOMAIN f.nodes |->
                     IF i \in ids THEN [f.nodes[i] EXCEPT !.context = f.edges[i]] ELSE f.nodes[i]]
  BY DEF IsShape, SyncContext
<1>2. ASSUME NEW i \in DOMAIN f.nodes
      PROVE  LET n == [f.nodes[i] EXCEPT !.context = f.edges[i]] IN
             /\ DOMAIN n = DOMAIN f.nodes[i] /\ n.content = f.nodes[i].content
             /\ n.signature = f.nodes[i].signature /\ n.ts = f.nodes[i].ts
  BY DEF Fields
<1> HIDE DEF g
<1>3. QED
  BY <1>1, <1>2 DEF SameIdentity, g

LEMMA CreateIsWhole ==
  ASSUME NEW f, Whole(f), NEW i, NEW n, DOMAIN n = Fields \ {"ts"}, IsSigned(n)
  PROVE  /\ Whole(Create(f, i, n))
         /\ i \notin DOMAIN f.nodes /\ Owned(f) => Owned(Create(f, i, n))
<1> DEFINE g == Create(f, i, n)
           x == Put(n, "ts", f.clock + 1)
<1>1. /\ DOMAIN x = Fields /\ x.content = n.content /\ x.signature = n.signature
      /\ x.ts = f.clock + 1 /\ IsSigned(x)
  BY DEF Fields, Put, IsSigned
<1>2. /\ IsShape(g) /\ g.clock = f.clock + 1 /\ f.clock \in Nat
      /\ g.nodes = [j \in DOMAIN f.nodes \cup {i} |-> IF j = i THEN x ELSE f.nodes[j]]
      /\ g.index = Indexed(f.index, n.signature, i)
  BY DEF Whole, IsShape, Create, Put
<1> HIDE DEF g, x
<1>3. Whole(g)
  BY <1>1, <1>2 DEF Whole
<1>4. ASSUME i \notin DOMAIN f.nodes, Owned(f)
      PROVE  Owned(g)
  BY <1>1, <1>2, <1>4 DEF Owned, Indexed, Put
<1>5. QED
  BY <1>3, <1>4 DEF g

LEMMA MutateIsWhole ==
  ASSUME NEW f, Whole(f), NEW i \in DOMAIN f.nodes, NEW c
  PROVE  /\ Whole(Mutate(f, i, c)) /\ (Owned(f) => Owned(Mutate(f, i, c)))
         /\ DOMAIN Mutate(f, i, c).nodes = DOMAIN f.nodes
<1> DEFINE g == Mutate(f, i, c)
           old == f.nodes[i].signature
           new == SigBytes(c)
<1>1. /\ IsShape(g) /\ g.clock = f.clock + 1 /\ f.clock \in Nat /\ DOMAIN g.nodes = DOMAIN f.nodes
      /\ DOMAIN g.nodes[i] = Fields /\ g.nodes[i].content = c /\ g.nodes[i].signature = new
      /\ g.nodes[i].ts = f.clock + 1
      /\ \A j \in DOMAIN f.nodes \ {i} : g.nodes[j] = f.nodes[j]
      /\ g.index = IF new = old THEN f.index ELSE Indexed(Unindexed(f.index, old, i), new, i)
  BY DEF Whole, IsShape, Mutate, Fields
<1> HIDE DEF g, new
<1>2. Whole(g)
  BY <1>1 DEF Whole, IsSigned, new
<1>3. ASSUME Owned(f)
      PROVE  Owned(g)
  <2>1. CASE new = old
    BY <1>1, <1>3, <2>1 DEF Owned
  <2>2. CASE new # old
    <3> DEFINE rest == Unindexed(f.index, old, i)
    <3>1. \A s \in DOMAIN rest :
            rest[s] \in DOMAIN f.nodes \ {i} /\ f.nodes[rest[s]].signature = s
      BY <1>3 DEF Owned, Unindexed, Without
    <3> HIDE DEF rest
    <3>2. \A s \in DOMAIN g.index :
            \/ s \in DOMAIN rest /\ g.index[s] = rest[s]
            \/ s = new /\ g.index[s] = i
      BY <1>1, <2>2 DEF Indexed, Put, rest
    <3>3. QED
      BY <1>1, <3>1, <3>2 DEF Owned
  <2>3. QED
    BY <2>1, <2>2
<1>4. QED
  BY <1>1, <1>2, <1>3 DEF g

LEMMA FadeIsWhole ==
  ASSUME NEW f, Whole(f), NEW i \in DOMAIN f.nodes
  PROVE  /\ Whole(Fade(f, i)) /\ (Owned(f) => Owned(Fade(f, i)))
         /\ DOMAIN Fade(f, i).nodes = DOMAIN f.nodes \ {i}
<1> DEFINE sources == {s \in Ids : f.rev[i][s] > 0}
           g == [f EXCEPT !.nodes = Without(@, i),
                 !.index = Unindexed(@, f.nodes[i].signature, i),
                 !.edges = [s \in Ids |-> IF s = i THEN <<>>
                                          ELSE IF s \in sources THEN NotTo(@[s], i) ELSE @[s]],
                 !.rev = [t \in Ids |-> IF t = i THEN [s \in Ids |-> 0]
                                        ELSE IF Linked(f, i, t) THEN [@[t] EXCEPT ![i] = 0]
                                        ELSE @[t]]]
<1>0. /\ Fade(f, i) = SyncContext(g, sources)
      /\ IsShape(g) /\ g.nodes = Without(f.nodes, i) /\ g.clock = f.clock
      /\ g.index = Unindexed(f.index, f.nodes[i].signature, i)
  BY DEF Fade, Whole, IsShape
<1> HIDE DEF g, sources
<1>1. Whole(g) /\ DOMAIN g.nodes = DOMAIN f.nodes \ {i}
  BY <1>0 DEF Whole, Without
<1>2. Owned(f) => Owned(g)
  BY <1>0 DEF Owned, Without, Unindexed
<1>3. SameIdentity(g, Fade(f, i))
  BY <1>0, <1>1, SyncIsSame DEF Whole
<1>4. QED
  BY <1>1, <1>2, <1>3, SameIsWhole DEF SameIdentity

LEMMA SameIsTransitive ==
  ASSUME NEW f, NEW g, NEW h, SameIdentity(f, g), SameIdentity(g, h)
  PROVE  SameIdentity(f, h)
BY DEF SameIdentity

LEMMA AddEdgeIsSame ==
  ASSUME NEW f, Whole(f), NEW a, NEW b, NEW k
  PROVE  SameIdentity(f, AddEdge(f, a, b, k))
<1> DEFINE g == [f EXCEPT !.edges[a] = Append(@, [target |-> b, kind |-> k]), !.rev[b][a] = @ + 1]
<1>1. IsShape(g) /\ g.nodes = f.nodes /\ g.index = f.index /\ g.clock = f.clock
  BY DEF Whole, IsShape
<1>2. AddEdge(f, a, b, k) = SyncContext(g, {a})
  BY DEF AddEdge
<1> HIDE DEF g
<1>3. SameIdentity(f, g)
  BY <1>1 DEF SameIdentity
<1>4. SameIdentity(g, SyncContext(g, {a}))
  BY <1>1, SyncIsSame DEF Whole
<1>5. QED
  BY <1>2, <1>3, <1>4, SameIsTransitive

LEMMA RemoveIsSame ==
  ASSUME NEW f, Whole(f), NEW a, NEW b
  PROVE  SameIdentity(f, RemoveEdgesBetween(f, a, b))
<1> DEFINE g == [f EXCEPT !.edges[a] = NotTo(@, b), !.rev[b][a] = 0]
<1>1. IsShape(g) /\ g.nodes = f.nodes /\ g.index = f.index /\ g.clock = f.clock
  BY DEF Whole, IsShape
<1>2. RemoveEdgesBetween(f, a, b) = IF Linked(f, a, b) THEN SyncContext(g, {a}) ELSE f
  BY DEF RemoveEdgesBetween
<1> HIDE DEF g
<1>3. SameIdentity(f, g) /\ SameIdentity(f, f)
  BY <1>1 DEF SameIdentity, Whole
<1>4. SameIdentity(g, SyncContext(g, {a}))
  BY <1>1, SyncIsSame DEF Whole
<1>5. QED
  BY <1>2, <1>3, <1>4, SameIsTransitive

LEMMA ModifyIsSame ==
  ASSUME NEW f, Whole(f), NEW a, NEW b
  PROVE  SameIdentity(f, ModifyEdge(f, a, b))
<1>1. SameIdentity(f, RemoveEdgesBetween(f, a, b)) /\ Whole(RemoveEdgesBetween(f, a, b))
  BY RemoveIsSame, SameIsWhole
<1>2. \E k : ModifyEdge(f, a, b) = AddEdge(RemoveEdgesBetween(f, a, b), a, b, k)
  BY DEF ModifyEdge
<1>3. QED
  BY <1>1, <1>2, AddEdgeIsSame, SameIsTransitive

\* A sequence, said without Seq: its elements need not be known.
IsOrder(order) ==
  \E n \in Nat : DOMAIN order = 1..n /\ Len(order) = n

LEMMA OrdersOfSets ==
  ASSUME NEW S, IsFiniteSet(S)
  PROVE  /\ \A order \in SetToSeqs(S) : IsOrder(order)
         /\ \A order \in SetToAllKPermutations(S) : IsOrder(order)
<1>1. ASSUME NEW T, IsFiniteSet(T), NEW order \in SetToSeqs(T)
      PROVE  IsOrder(order)
  <2>1. Cardinality(T) \in Nat /\ order \in [1..Cardinality(T) -> T]
    BY <1>1, FS_CardinalityType DEF SetToSeqs
  <2>2. order \in Seq(T) /\ Len(order) = Cardinality(T) /\ DOMAIN order = 1..Cardinality(T)
    BY <2>1
  <2>3. QED
    BY <2>1, <2>2 DEF IsOrder
<1>2. \A T \in SUBSET S : IsFiniteSet(T)
  BY FS_Subset
<1>3. QED
  BY <1>1, <1>2 DEF SetToAllKPermutations

LEMMA TouchIsWhole ==
  ASSUME NEW f, Whole(f), NEW order, IsOrder(order), NEW stamped
  PROVE  /\ Whole(Touch(f, order, stamped)) /\ (Owned(f) => Owned(Touch(f, order, stamped)))
         /\ DOMAIN Touch(f, order, stamped).nodes = DOMAIN f.nodes
<1> DEFINE turn(i) == CHOOSE n \in DOMAIN order : order[n] = i
           touched == {order[n] : n \in DOMAIN order}
           new(i) == [f.nodes[i] EXCEPT !.meta = IF stamped THEN StampActivation(@) ELSE @, !.version = @ + 1,
                                        !.ts = f.clock + turn(i)]
           g == Touch(f, order, stamped)
<1>1. PICK k \in Nat : DOMAIN order = 1..k /\ Len(order) = k
  BY DEF IsOrder
<1>2. \A i \in touched : turn(i) \in 1..k /\ order[turn(i)] = i
  BY <1>1
<1>3. \A i, j \in touched : turn(i) = turn(j) => i = j
  BY <1>2
<1>4. \A i \in DOMAIN f.nodes :
        /\ DOMAIN new(i) = Fields /\ new(i).content = f.nodes[i].content
        /\ new(i).signature = f.nodes[i].signature /\ new(i).ts = f.clock + turn(i)
  BY DEF Whole, Fields
<1>5. /\ IsShape(g) /\ g.index = f.index /\ g.clock = f.clock + k /\ f.clock \in Nat
      /\ g.nodes = [i \in DOMAIN f.nodes |-> IF i \in touched THEN new(i) ELSE f.nodes[i]]
  BY <1>1 DEF Whole, IsShape, Touch
<1> HIDE DEF turn, new, g, touched
<1>6. /\ DOMAIN g.nodes = DOMAIN f.nodes
      /\ \A i \in DOMAIN f.nodes :
           /\ DOMAIN g.nodes[i] = Fields /\ g.nodes[i].content = f.nodes[i].content
           /\ g.nodes[i].signature = f.nodes[i].signature
           /\ g.nodes[i].ts = IF i \in touched THEN f.clock + turn(i) ELSE f.nodes[i].ts
  BY <1>4, <1>5 DEF Whole
<1>7. Whole(g)
  <2>1. \A i \in DOMAIN g.nodes : /\ DOMAIN g.nodes[i] = Fields /\ IsSigned(g.nodes[i])
                                  /\ g.nodes[i].ts \in Nat /\ g.nodes[i].ts <= g.clock
    <3>1. SUFFICES ASSUME NEW i \in DOMAIN f.nodes
                   PROVE  /\ DOMAIN g.nodes[i] = Fields /\ IsSigned(g.nodes[i])
                          /\ g.nodes[i].ts \in Nat /\ g.nodes[i].ts <= g.clock
      BY <1>6
    <3>2. f.nodes[i].ts \in Nat /\ f.nodes[i].ts <= f.clock /\ IsSigned(f.nodes[i])
      BY DEF Whole
    <3>3. DOMAIN g.nodes[i] = Fields /\ IsSigned(g.nodes[i])
      BY <1>6, <3>2 DEF IsSigned
    <3>4. CASE i \in touched
      BY <1>2, <1>5, <1>6, <3>3, <3>4
    <3>5. CASE i \notin touched
      BY <1>5, <1>6, <3>2, <3>3, <3>5
    <3>6. QED
      BY <3>4, <3>5
  <2>2. \A i, j \in DOMAIN g.nodes : g.nodes[i].ts = g.nodes[j].ts => i = j
    <3>1. \A i \in DOMAIN f.nodes : f.nodes[i].ts \in Nat /\ f.nodes[i].ts <= f.clock
      BY DEF Whole
    <3>2. \A i \in DOMAIN f.nodes :
            \/ i \in touched /\ g.nodes[i].ts > f.clock /\ g.nodes[i].ts - f.clock = turn(i)
            \/ i \notin touched /\ g.nodes[i].ts = f.nodes[i].ts /\ g.nodes[i].ts <= f.clock
      BY <1>2, <1>5, <1>6, <3>1
    <3>3. SUFFICES ASSUME NEW i \in DOMAIN f.nodes, NEW j \in DOMAIN f.nodes,
                          g.nodes[i].ts = g.nodes[j].ts
                   PROVE  i = j
      BY <1>6
    <3>4. CASE i \in touched /\ j \in touched
      BY <1>3, <3>2, <3>3, <3>4
    <3>5. CASE i \notin touched /\ j \notin touched
      BY <3>2, <3>3, <3>5 DEF Whole
    <3>6. CASE i \in touched /\ j \notin touched
      <4>1. g.nodes[i].ts \in Nat /\ g.nodes[j].ts \in Nat /\ f.clock \in Nat
        BY <1>5, <1>6, <2>1
      <4>2. g.nodes[i].ts > f.clock /\ g.nodes[j].ts <= f.clock
        BY <3>2, <3>6
      <4>3. QED
        BY <3>3, <4>1, <4>2
    <3>7. CASE i \notin touched /\ j \in touched
      <4>1. g.nodes[i].ts \in Nat /\ g.nodes[j].ts \in Nat /\ f.clock \in Nat
        BY <1>5, <1>6, <2>1
      <4>2. g.nodes[j].ts > f.clock /\ g.nodes[i].ts <= f.clock
        BY <3>2, <3>7
      <4>3. QED
        BY <3>3, <4>1, <4>2
    <3>8. QED
      BY <3>4, <3>5, <3>6, <3>7
  <2>3. g.clock \in Nat
    BY <1>1, <1>5
  <2>4. QED
    BY <1>5, <2>1, <2>2, <2>3 DEF Whole
<1>8. ASSUME Owned(f)
      PROVE  Owned(g)
  <2>1. g.index = f.index /\ DOMAIN g.nodes = DOMAIN f.nodes
    BY <1>5, <1>6
  <2>2. ASSUME NEW s \in DOMAIN g.index
        PROVE  g.index[s] \in DOMAIN g.nodes /\ g.nodes[g.index[s]].signature = s
    <3>1. f.index[s] \in DOMAIN f.nodes /\ f.nodes[f.index[s]].signature = s
      BY <1>8, <2>1 DEF Owned
    <3>2. g.nodes[f.index[s]].signature = f.nodes[f.index[s]].signature
      BY <1>6, <3>1
    <3>3. QED
      BY <2>1, <3>1, <3>2
  <2>3. QED
    BY <2>2 DEF Owned
<1>9. QED
  BY <1>6, <1>7, <1>8 DEF g

-----------------------------------------------------------------------------
(***************************************************************************)
(* A fabric that was saved and loaded.                                     *)
(***************************************************************************)
LEMMA ConstraintsSurvive ==
  ASSUME NEW c
  PROVE  ConstraintBytes(ToConstraint(FromConstraint(c))) = ConstraintBytes(c)
<1>1. /\ ToConstraint(FromConstraint(c)).semantic = c.semantic
      /\ ToConstraint(FromConstraint(c)).soft = c.soft
  BY DEF ToConstraint, FromConstraint
<1>2. QED
  BY <1>1 DEF ConstraintBytes

LEMMA ResolutionSurvives ==
  ASSUME NEW r
  PROVE  ResolutionBytes(ToTarget(FromTarget(r))) = ResolutionBytes(r)
<1>1. ToTarget(FromTarget(r)).state = r.state
  BY DEF ToTarget, FromTarget
<1>2. r.state # "unresolved" => ToTarget(FromTarget(r)).text = r.text
  BY DEF ToTarget, FromTarget
<1>3. QED
  BY <1>1, <1>2 DEF ResolutionBytes

\* What the file keeps of a node gives it the signature it had.
LEMMA NodesSurvive ==
  ASSUME NEW n
  PROVE  LET m == IntoNode(FromNode(n)) IN
         /\ DOMAIN m = Fields /\ IsSigned(m) /\ m.signature = SigBytes(n.content)
         /\ m.ts = n.ts
<1> DEFINE entry == FromNode(n)
           old == n.content.constraints
           constraints == [k \in DOMAIN entry.constraints |-> ToConstraint(entry.constraints[k])]
           content == [want |-> entry.want, constraints |-> constraints,
                       resolution |-> ToTarget(entry.resolution)]
           bare == [Fresh(content) EXCEPT !.meta = entry.metadata, !.version = entry.version]
           m == IntoNode(entry)
<1>1. /\ entry.want = n.content.want /\ entry.resolution = FromTarget(n.content.resolution)
      /\ entry.constraints = [k \in DOMAIN old |-> FromConstraint(old[k])] /\ entry.lamport = n.ts
  BY DEF FromNode
<1>2. m = Put(bare, "ts", entry.lamport)
  BY DEF IntoNode
<1>3. constraints = [k \in DOMAIN old |-> ToConstraint(FromConstraint(old[k]))]
  BY <1>1
<1> HIDE DEF constraints, entry
<1>4. SigBytes(content) = SigBytes(n.content)
  <2>1. [k \in DOMAIN constraints |-> ConstraintBytes(constraints[k])] =
          [k \in DOMAIN old |-> ConstraintBytes(old[k])]
    BY <1>3, ConstraintsSurvive
  <2>2. ResolutionBytes(content.resolution) = ResolutionBytes(n.content.resolution)
    BY <1>1, ResolutionSurvives
  <2>3. content.want = n.content.want /\ content.constraints = constraints
    BY <1>1
  <2> HIDE DEF content
  <2>4. QED
    BY <2>1, <2>2, <2>3 DEF SigBytes
<1>5. /\ DOMAIN bare = Fields \ {"ts"} /\ bare.content = content /\ bare.signature = SigBytes(content)
  BY DEF Fresh, Fields
<1> HIDE DEF bare, content
<1>6. DOMAIN m = Fields /\ m.content = content /\ m.signature = SigBytes(content) /\ m.ts = n.ts
  BY <1>1, <1>2, <1>5 DEF Put, Fields
<1> HIDE DEF m
<1>7. DOMAIN m = Fields /\ IsSigned(m) /\ m.signature = SigBytes(n.content) /\ m.ts = n.ts
  BY <1>4, <1>6 DEF IsSigned
<1>8. QED
  BY <1>7 DEF m, entry

LEMMA ReloadIsWhole ==
  ASSUME NEW f, Whole(f), NEW first \in Orders(f)
  PROVE  /\ Whole(Restored(Save(f, first))) /\ Owned(Restored(Save(f, first)))
         /\ DOMAIN Restored(Save(f, first)).nodes = DOMAIN f.nodes
<1> DEFINE saved == Save(f, first)
           present == DOMAIN saved.nodes
           edges == [a \in Ids |-> IF a \in present
                       THEN Retain(saved.edges[a], present) ELSE <<>>]
           bare == [nodes |-> [i \in DOMAIN saved.nodes |-> IntoNode(saved.nodes[i])],
                    index |-> saved.first,
                    edges |-> edges,
                    rev |-> [b \in Ids |-> [a \in Ids |->
                               Cardinality({n \in DOMAIN edges[a] : edges[a][n].target = b})]],
                    clock |-> saved.clock]
<1>1. Restored(saved) = SyncContext(bare, DOMAIN saved.nodes)
  BY DEF Restored, WithEdges
<1>2. /\ IsShape(bare) /\ bare.index = saved.first /\ bare.clock = saved.clock
      /\ bare.nodes = [i \in DOMAIN saved.nodes |-> IntoNode(saved.nodes[i])]
  BY DEF IsShape
<1>3. /\ saved.first = first /\ saved.clock = f.clock
      /\ saved.nodes = [i \in DOMAIN f.nodes |-> FromNode(f.nodes[i])]
  BY DEF Save
<1> HIDE DEF bare, saved
<1>4. /\ DOMAIN bare.nodes = DOMAIN f.nodes
      /\ \A i \in DOMAIN f.nodes : bare.nodes[i] = IntoNode(FromNode(f.nodes[i]))
  BY <1>2, <1>3
<1>5. \A i \in DOMAIN f.nodes :
        /\ DOMAIN bare.nodes[i] = Fields /\ IsSigned(bare.nodes[i])
        /\ bare.nodes[i].signature = f.nodes[i].signature /\ bare.nodes[i].ts = f.nodes[i].ts
  BY <1>4, NodesSurvive DEF Whole, IsSigned
<1>6. Whole(bare)
  <2>1. IsShape(bare) /\ bare.clock = f.clock /\ f.clock \in Nat
    BY <1>2, <1>3 DEF Whole
  <2>2. \A i \in DOMAIN f.nodes : f.nodes[i].ts \in Nat /\ f.nodes[i].ts <= f.clock
    BY DEF Whole
  <2>3. \A i, j \in DOMAIN f.nodes : f.nodes[i].ts = f.nodes[j].ts => i = j
    BY DEF Whole
  <2>4. DOMAIN bare.nodes = DOMAIN f.nodes
    BY <1>4
  <2>5. QED
    BY <1>5, <2>1, <2>2, <2>3, <2>4 DEF Whole
<1>7. Owned(bare)
  BY <1>2, <1>3, <1>4, <1>5 DEF Owned, Orders
<1>8. SameIdentity(bare, Restored(saved))
  BY <1>1, <1>6, SyncIsSame DEF Whole
<1>9. Whole(Restored(saved)) /\ Owned(Restored(saved)) /\ DOMAIN Restored(saved).nodes = DOMAIN f.nodes
  BY <1>4, <1>6, <1>7, <1>8, SameIsWhole DEF SameIdentity
<1>10. QED
  BY <1>9 DEF saved

-----------------------------------------------------------------------------
(***************************************************************************)
(* The invariant of the indexes and the timestamps: every fabric in memory *)
(* is whole and its ids were given out; all but the host's, once a copy    *)
(* replaced a node of it, are owned; and loading the file gives a fabric   *)
(* that is whole and owned, whoever saved it.                              *)
(***************************************************************************)
IsSound(x) ==
  DOMAIN x = {"pc", "f", "base", "gone"} /\ Whole(x.f) /\ DOMAIN x.f.nodes \subseteq 1..used

Replaced(p) == p = Host /\ overwritten

FileOwned ==
  file.state = "valid" =>
    LET f == Restored(file.saved) IN Whole(f) /\ Owned(f) /\ DOMAIN f.nodes \subseteq 1..used

Owners ==
  /\ DOMAIN proc = Processes /\ used \in Nat /\ overwritten \in BOOLEAN
  /\ \A p \in Processes :
       proc[p] = Down \/ (IsSound(proc[p]) /\ (Owned(proc[p].f) \/ Replaced(p)))
  /\ FileOwned

LEMMA FileKept ==
  ASSUME FileOwned, UNCHANGED file, used \in Nat, used' \in Nat, used <= used'
  PROVE  FileOwned'
<1>1. 1..used \subseteq 1..used'
  OBVIOUS
<1>2. QED
  BY <1>1 DEF FileOwned

\* One process gets a new state, the others keep theirs.
LEMMA PlaceOwned ==
  ASSUME Owners, NEW p \in Processes, NEW x,
         proc' = [proc EXCEPT ![p] = x],
         x = Down \/ (IsSound(x)' /\ (Owned(x.f) \/ Replaced(p)')),
         used' \in Nat, used <= used',
         overwritten' \in BOOLEAN, p = Host \/ UNCHANGED overwritten,
         FileOwned'
  PROVE  Owners'
<1>1. DOMAIN proc' = Processes /\ proc'[p] = x
  BY DEF Owners
<1>2. ASSUME NEW q \in Processes, q # p, proc[q] # Down
      PROVE  IsSound(proc[q])' /\ (Owned(proc[q].f)' \/ Replaced(q)')
  <2>1. proc'[q] = proc[q] /\ IsSound(proc[q]) /\ (Owned(proc[q].f) \/ Replaced(q))
    BY <1>2 DEF Owners
  <2>2. 1..used \subseteq 1..used'
    BY DEF Owners
  <2>3. IsSound(proc[q])'
    BY <2>1, <2>2 DEF IsSound
  <2>4. Replaced(q) => Replaced(q)'
    BY <1>2 DEF Replaced
  <2>5. QED
    BY <2>1, <2>3, <2>4
<1>3. \A q \in Processes : q # p => proc'[q] = proc[q]
  BY DEF Owners
<1>4. ASSUME NEW q \in Processes
      PROVE  (proc[q] = Down \/ (IsSound(proc[q]) /\ (Owned(proc[q].f) \/ Replaced(q))))'
  <2>1. CASE q = p
    <3>1. CASE x = Down
      BY <1>1, <2>1, <3>1 DEF Down
    <3>2. CASE x # Down
      BY <1>1, <2>1, <3>2
    <3>3. QED
      BY <3>1, <3>2
  <2>2. CASE q # p /\ proc[q] = Down
    BY <1>3, <2>2 DEF Down
  <2>3. CASE q # p /\ proc[q] # Down
    BY <1>2, <2>3
  <2>4. QED
    BY <2>1, <2>2, <2>3
<1>5. QED
  BY <1>1, <1>4 DEF Owners

(***************************************************************************)
(* What a process starts with.                                             *)
(***************************************************************************)
LEMMA EmptyIsWhole == Whole(Empty) /\ Owned(Empty)
BY DEF Whole, Owned, Empty, IsShape

LEMMA LoadedIsOwned ==
  ASSUME Owners, NEW l \in Loads
  PROVE  Whole(l.f) /\ Owned(l.f) /\ DOMAIN l.f.nodes \subseteq 1..used
BY EmptyIsWhole, EmptyShape DEF Owners, FileOwned, Loads

LEMMA SeededIsOwned ==
  ASSUME NEW f, Whole(f), Owned(f), NEW i, i \notin DOMAIN f.nodes
  PROVE  /\ Whole(Seeded(f, i)) /\ Owned(Seeded(f, i))
         /\ DOMAIN Seeded(f, i).nodes \subseteq DOMAIN f.nodes \cup {i}
<1> DEFINE n == [Fresh(Systemic) EXCEPT !.meta = Innate]
<1>1. DOMAIN n = Fields \ {"ts"} /\ IsSigned(n)
  BY DEF Fresh, Fields, IsSigned
<1>2. Seeded(f, i) = IF HasSystemic(f) THEN f ELSE Create(f, i, n)
  BY DEF Seeded
<1> HIDE DEF n
<1>3. Whole(Create(f, i, n)) /\ Owned(Create(f, i, n))
  BY <1>1, CreateIsWhole
<1>4. DOMAIN Create(f, i, n).nodes = DOMAIN f.nodes \cup {i}
  BY CreateNodes DEF Whole
<1>5. QED
  BY <1>2, <1>3, <1>4

\* CmdAdd's second node.
LEMMA AddedIsOwned ==
  ASSUME NEW f, Whole(f), Owned(f), NEW i, i \notin DOMAIN f.nodes, NEW want, NEW args
  PROVE  LET g == Create(f, i, Added(want, args)) IN
         Whole(g) /\ Owned(g) /\ DOMAIN g.nodes = DOMAIN f.nodes \cup {i}
<1>1. DOMAIN Added(want, args) = Fields \ {"ts"} /\ IsSigned(Added(want, args))
  BY DEF Added, Fresh, Fields, IsSigned
<1>2. QED
  BY <1>1, CreateIsWhole, CreateNodes DEF Whole

\* CmdSearch's two passes.
LEMMA SearchedIsOwned ==
  ASSUME NEW f, Whole(f), Owned(f), NEW all, IsOrder(all), NEW found, IsOrder(found)
  PROVE  LET g == Touch(Touch(f, all, FALSE), found, TRUE) IN
         Whole(g) /\ Owned(g) /\ DOMAIN g.nodes = DOMAIN f.nodes
<1> DEFINE g == Touch(f, all, FALSE)
           h == Touch(g, found, TRUE)
<1>1. Whole(g) /\ Owned(g) /\ DOMAIN g.nodes = DOMAIN f.nodes
  BY TouchIsWhole
<1> HIDE DEF g
<1>2. Whole(h) /\ Owned(h) /\ DOMAIN h.nodes = DOMAIN g.nodes
  BY <1>1, TouchIsWhole
<1>3. QED
  BY <1>1, <1>2 DEF g

LEMMA UpIsSound ==
  ASSUME NEW f, Whole(f), DOMAIN f.nodes \subseteq 1..used, NEW base
  PROVE  IsSound(Up(f, base)) /\ Up(f, base).f = f
BY DEF IsSound, Up

LEMMA OpenOwned ==
  ASSUME Owners, Open
  PROVE  Owners'
<1>0. PICK l \in Loads : proc' = [proc EXCEPT ![Host] = Up(l.f, l.base)]
  BY OpenLoads
<1>1. /\ Host \in Processes /\ overwritten' = FALSE
      /\ proc' = [proc EXCEPT ![Host] = Up(l.f, l.base)] /\ UNCHANGED <<file, used>>
  BY <1>0 DEF Open, Processes
<1>2. PICK x : x = Up(l.f, l.base)
  OBVIOUS
<1>3. IsSound(x) /\ Owned(x.f)
  BY <1>2, LoadedIsOwned, UpIsSound
<1>4. IsSound(x)'
  BY <1>1, <1>3 DEF IsSound
<1>5. used \in Nat /\ used <= used'
  BY <1>1 DEF Owners
<1>6. FileOwned'
  BY <1>1, <1>5, FileKept DEF Owners
<1>7. QED
  BY <1>1, <1>2, <1>3, <1>4, <1>5, <1>6, PlaceOwned

LEMMA BeginOwned ==
  ASSUME Owners, NEW p \in Commands, NEW f, NEW base, NEW ids \in Nat, Begin(p, f, base, ids),
         Whole(f), Owned(f), DOMAIN f.nodes \subseteq 1..(used + ids)
  PROVE  Owners'
<1>1. /\ p \in Processes /\ proc' = [proc EXCEPT ![p] = Up(f, base)]
      /\ used' = used + ids /\ UNCHANGED <<file, overwritten>>
  BY DEF Begin, Processes
<1>2. used \in Nat /\ used' \in Nat /\ used <= used' /\ overwritten \in BOOLEAN
  BY <1>1 DEF Owners
<1>3. PICK x : x = Up(f, base)
  OBVIOUS
<1>4. IsSound(x)' /\ Owned(x.f)
  BY <1>1, <1>3 DEF IsSound, Up
<1>5. FileOwned'
  BY <1>1, <1>2, FileKept DEF Owners
<1>6. QED
  BY <1>1, <1>2, <1>3, <1>4, <1>5, PlaceOwned

LEMMA CommandOwned ==
  ASSUME Owners, NEW p \in Commands, Command(p)
  PROVE  Owners'
<1>0. PICK l \in Loads :
        \/ CmdInit(p, l)
        \/ \E want \in Wants, args \in Metas : CmdAdd(p, l, want, args)
        \/ \E query \in BOOLEAN, clause \in Clauses : CmdSearch(p, l, query, clause)
  BY DEF Command
<1>1. Whole(l.f) /\ Owned(l.f) /\ DOMAIN l.f.nodes \subseteq 1..used /\ used \in Nat
  BY LoadedIsOwned DEF Owners
<1>2. /\ NewId \notin DOMAIN l.f.nodes /\ NewId = used + 1
      /\ 1..used \cup {NewId} = 1..(used + 1) /\ 1..(used + 1) \cup {NewId + 1} = 1..(used + 2)
  BY <1>1 DEF NewId
<1>3. PICK f : f = Seeded(l.f, NewId)
  OBVIOUS
<1>4. Whole(f) /\ Owned(f) /\ DOMAIN f.nodes \subseteq 1..(used + 1)
  BY <1>1, <1>2, <1>3, SeededIsOwned
<1>5. CASE CmdInit(p, l)
  <2>1. Begin(p, f, l.base, 1)
    BY <1>3, <1>5 DEF CmdInit
  <2>2. QED
    BY <1>4, <2>1, BeginOwned
<1>6. CASE \E want \in Wants, args \in Metas : CmdAdd(p, l, want, args)
  <2>1. PICK want \in Wants, args \in Metas : CmdAdd(p, l, want, args)
    BY <1>6
  <2>2. CASE HasSystemic(l.f)
    <3>1. PICK g : g = Create(l.f, NewId, Added(want, args))
      OBVIOUS
    <3>2. Whole(g) /\ Owned(g) /\ DOMAIN g.nodes \subseteq 1..(used + 1)
      BY <1>1, <1>2, <3>1, AddedIsOwned
    <3>3. Begin(p, g, l.base, 1)
      BY <2>1, <2>2, <3>1 DEF CmdAdd
    <3>4. QED
      BY <3>2, <3>3, BeginOwned
  <2>3. CASE ~ HasSystemic(l.f)
    <3>1. PICK g : g = Create(f, NewId + 1, Added(want, args))
      OBVIOUS
    <3>2. NewId + 1 \notin DOMAIN f.nodes
      BY <1>1, <1>2, <1>4
    <3>3. Whole(g) /\ Owned(g) /\ DOMAIN g.nodes \subseteq 1..(used + 2)
      BY <1>2, <1>4, <3>1, <3>2, AddedIsOwned
    <3>4. Begin(p, g, l.base, 2)
      BY <1>3, <2>1, <2>3, <3>1 DEF CmdAdd
    <3>5. QED
      BY <3>3, <3>4, BeginOwned
  <2>4. QED
    BY <2>2, <2>3
<1>7. CASE \E query \in BOOLEAN, clause \in Clauses : CmdSearch(p, l, query, clause)
  <2>1. PICK query \in BOOLEAN, clause \in Clauses : CmdSearch(p, l, query, clause)
    BY <1>7
  <2>2. IsFiniteSet(DOMAIN l.f.nodes)
    <3>1. IsFiniteSet(1..used)
      BY <1>1, FS_Interval
    <3>2. QED
      BY <1>1, <3>1, FS_Subset
  <2>3. IsFiniteSet(Matching(l.f.nodes, clause))
    BY <2>2, FS_Subset DEF Matching
  <2>4. PICK all \in IF query THEN SetToSeqs(DOMAIN l.f.nodes) ELSE {<<>>},
             found \in SetToAllKPermutations(Matching(l.f.nodes, clause)) :
          Begin(p, Touch(Touch(l.f, all, FALSE), found, TRUE), l.base, 0)
    BY <2>1 DEF CmdSearch
  <2>5. IsOrder(all) /\ IsOrder(found)
    <3>1. IsOrder(<<>>)
      BY DEF IsOrder
    <3>2. QED
      BY <2>2, <2>3, <2>4, <3>1, OrdersOfSets
  <2>6. LET g == Touch(Touch(l.f, all, FALSE), found, TRUE) IN
        Whole(g) /\ Owned(g) /\ DOMAIN g.nodes = DOMAIN l.f.nodes
    BY <1>1, <2>5, SearchedIsOwned
  <2>7. PICK g : /\ Whole(g) /\ Owned(g) /\ DOMAIN g.nodes = DOMAIN l.f.nodes
                 /\ Begin(p, g, l.base, 0)
    BY <2>4, <2>6
  <2>8. DOMAIN g.nodes \subseteq 1..(used + 0)
    BY <1>1, <2>7
  <2>9. QED
    BY <2>7, <2>8, BeginOwned
<1>8. QED
  BY <1>0, <1>5, <1>6, <1>7

(***************************************************************************)
(* The steps of the host, and those of a save.                             *)
(***************************************************************************)
LEMMA WorkOwned ==
  ASSUME Owners, Works, NEW f, To(f), Whole(f), DOMAIN f.nodes \subseteq 1..used',
         used' \in Nat, used <= used', overwritten' \in BOOLEAN, Owned(f) \/ overwritten'
  PROVE  Owners'
<1>1. Host \in Processes /\ IsSound(proc[Host])
  BY DEF Owners, Works, Down, Processes
<1>2. PICK x : x = [proc[Host] EXCEPT !.f = f, !.gone = @ \cup (DOMAIN F.nodes \ DOMAIN f.nodes)]
  OBVIOUS
<1>3. DOMAIN x = {"pc", "f", "base", "gone"} /\ x.f = f
  BY <1>1, <1>2 DEF IsSound
<1>4. proc' = [proc EXCEPT ![Host] = x] /\ UNCHANGED file
  BY <1>2 DEF To, F
<1>5. IsSound(x)' /\ (Owned(x.f) \/ Replaced(Host)')
  BY <1>3 DEF IsSound, Replaced
<1>6. FileOwned'
  BY <1>4, FileKept DEF Owners
<1>7. QED
  BY <1>1, <1>4, <1>5, <1>6, PlaceOwned

\* A step that gives out no id and makes of the host's fabric one that is whole,
\* and owned if the host's was.
LEMMA ChangeOwned ==
  ASSUME Owners, Works, NEW f, To(f), UNCHANGED <<used, overwritten>>,
         Whole(f), DOMAIN f.nodes \subseteq DOMAIN F.nodes, Owned(F) => Owned(f)
  PROVE  Owners'
<1>1. IsSound(proc[Host]) /\ (Owned(F) \/ overwritten)
  BY DEF Owners, Works, Down, Processes, F, Replaced
<1>2. used \in Nat /\ used' = used /\ overwritten \in BOOLEAN /\ overwritten' = overwritten
  BY DEF Owners
<1>3. DOMAIN f.nodes \subseteq 1..used' /\ used <= used' /\ (Owned(f) \/ overwritten')
  BY <1>1, <1>2 DEF IsSound, F
<1>4. QED
  BY <1>2, <1>3, WorkOwned

LEMMA AddOwned ==
  ASSUME Owners, Works, Whole(F), DOMAIN F.nodes \subseteq 1..used, Owned(F) \/ overwritten,
         NEW c
  PROVE  /\ AddNode(c) => Owners'
         /\ \A i \in Ids : AddCopy(i, c) => Owners'
<1>1. used \in Nat /\ overwritten \in BOOLEAN
  BY DEF Owners
<1>2. ASSUME AddNode(c)
      PROVE  Owners'
  <2>1. PICK f : f = Create(F, NewId, Fresh(c))
    OBVIOUS
  <2>2. To(f) /\ used' = used + 1 /\ NewId = used + 1 /\ UNCHANGED overwritten
    BY <1>2, <2>1 DEF AddNode, NewId
  <2>3. DOMAIN Fresh(c) = Fields \ {"ts"} /\ IsSigned(Fresh(c))
    BY DEF Fresh, Fields, IsSigned
  <2>4. NewId \notin DOMAIN F.nodes
    BY <1>1, <2>2
  <2>5. Whole(f) /\ (Owned(F) => Owned(f))
    BY <2>1, <2>3, <2>4, CreateIsWhole
  <2>6. DOMAIN f.nodes = DOMAIN F.nodes \cup {NewId}
    BY <2>1, CreateNodes DEF Whole
  <2>7. DOMAIN f.nodes \subseteq 1..used' /\ used' \in Nat /\ used <= used'
    BY <1>1, <2>2, <2>6
  <2>8. overwritten' \in BOOLEAN /\ (Owned(f) \/ overwritten')
    BY <1>1, <2>2, <2>5
  <2>9. QED
    BY <2>2, <2>5, <2>7, <2>8, WorkOwned
<1>3. ASSUME NEW i \in Ids, AddCopy(i, c)
      PROVE  Owners'
  <2>1. PICK context : /\ To(Create(F, i, [Fresh(c) EXCEPT !.context = context]))
                       /\ overwritten' = (overwritten \/ i \in DOMAIN F.nodes \/ context # <<>>)
    BY <1>3 DEF AddCopy
  <2>2. PICK n : n = [Fresh(c) EXCEPT !.context = context]
    OBVIOUS
  <2>3. PICK f : f = Create(F, i, n)
    OBVIOUS
  <2>4. To(f) /\ used' = used /\ i <= used /\ i \in Nat \ {0}
    <3>1. To(f)
      BY <2>1, <2>2, <2>3
    <3>2. used' = used /\ i <= used
      BY <1>3 DEF AddCopy
    <3>3. \E top : i \in 1..top
      BY <1>3, StoreAssumption
    <3>4. QED
      BY <3>1, <3>2, <3>3
  <2>5. DOMAIN n = Fields \ {"ts"} /\ IsSigned(n)
    BY <2>2 DEF Fresh, Fields, IsSigned
  <2>6. Whole(f) /\ (i \notin DOMAIN F.nodes /\ Owned(F) => Owned(f))
    BY <2>3, <2>5, CreateIsWhole
  <2>7. DOMAIN f.nodes = DOMAIN F.nodes \cup {i}
    BY <2>3, CreateNodes DEF Whole
  <2>8. DOMAIN f.nodes \subseteq 1..used' /\ used' \in Nat /\ used <= used'
    BY <1>1, <2>4, <2>7
  <2>9. overwritten' \in BOOLEAN /\ (Owned(f) \/ overwritten')
    BY <1>1, <2>1, <2>6
  <2>10. QED
    BY <2>4, <2>6, <2>8, <2>9, WorkOwned
<1>4. QED
  BY <1>2, <1>3

LEMMA HostOwned ==
  ASSUME Owners, HostStep
  PROVE  Owners'
<1>1. CASE Open
  BY <1>1, OpenOwned
<1>2. CASE ~ Open
  <2>1. Works
    BY <1>2 DEF HostStep, AddNode, AddCopy, MutateNode, FadeNode, LinkNodes, UnlinkNodes,
                ApplyModifyEdge, InferAndLearn
  <2>2. Whole(F) /\ DOMAIN F.nodes \subseteq 1..used /\ (Owned(F) \/ overwritten)
    BY <2>1 DEF Works, F, Owners, IsSound, Down, Processes, Replaced
  <2>3. CASE \E c \in Contents : AddNode(c)
    BY <2>1, <2>2, <2>3, AddOwned
  <2>4. CASE \E i \in Ids, c \in Contents : AddCopy(i, c)
    BY <2>1, <2>2, <2>4, AddOwned
  <2>5. ASSUME NEW f, To(f), UNCHANGED <<used, overwritten>>, SameIdentity(F, f)
        PROVE  Owners'
    <3>1. Whole(f) /\ (Owned(F) => Owned(f)) /\ DOMAIN f.nodes = DOMAIN F.nodes
      BY <2>2, <2>5, SameIsWhole DEF SameIdentity
    <3>2. QED
      BY <2>1, <2>5, <3>1, ChangeOwned
  <2>6. CASE \E i \in Ids, c \in Contents : MutateNode(i, c)
    <3>1. PICK i \in Ids, c \in Contents : MutateNode(i, c)
      BY <2>6
    <3>2. PICK f : f = Mutate(F, i, c)
      OBVIOUS
    <3>3. Whole(f) /\ (Owned(F) => Owned(f)) /\ DOMAIN f.nodes = DOMAIN F.nodes
      BY <2>2, <3>1, <3>2, MutateIsWhole DEF MutateNode
    <3>4. To(f) /\ UNCHANGED <<used, overwritten>>
      BY <3>1, <3>2 DEF MutateNode
    <3>5. QED
      BY <2>1, <3>3, <3>4, ChangeOwned
  <2>7. CASE \E i \in Ids : FadeNode(i)
    <3>1. PICK i \in Ids : FadeNode(i)
      BY <2>7
    <3>2. PICK f : f = Fade(F, i)
      OBVIOUS
    <3>3. Whole(f) /\ (Owned(F) => Owned(f)) /\ DOMAIN f.nodes \subseteq DOMAIN F.nodes
      BY <2>2, <3>1, <3>2, FadeIsWhole DEF FadeNode
    <3>4. To(f) /\ UNCHANGED <<used, overwritten>>
      BY <3>1, <3>2 DEF FadeNode
    <3>5. QED
      BY <2>1, <3>3, <3>4, ChangeOwned
  <2>8. CASE \E a, b \in Ids, k \in Kinds : LinkNodes(a, b, k)
    <3>1. PICK a \in Ids, b \in Ids, k \in Kinds : LinkNodes(a, b, k)
      BY <2>8
    <3>2. PICK f : f = AddEdge(F, a, b, k)
      OBVIOUS
    <3>3. SameIdentity(F, f)
      BY <2>2, <3>2, AddEdgeIsSame
    <3>4. QED
      BY <2>5, <3>1, <3>2, <3>3 DEF LinkNodes
  <2>9. CASE \E a, b \in Ids : UnlinkNodes(a, b) \/ ApplyModifyEdge(a, b) \/ InferAndLearn(a, b)
    <3>1. PICK a \in Ids, b \in Ids : UnlinkNodes(a, b) \/ ApplyModifyEdge(a, b) \/ InferAndLearn(a, b)
      BY <2>9
    <3>2. PICK f : /\ \/ f = RemoveEdgesBetween(F, a, b) \/ f = ModifyEdge(F, a, b)
                      \/ f = AddEdge(F, a, b, RelatedTo)
                   /\ To(f) /\ UNCHANGED <<used, overwritten>>
      BY <3>1 DEF UnlinkNodes, ApplyModifyEdge, InferAndLearn
    <3>3. SameIdentity(F, f)
      BY <2>2, <3>2, RemoveIsSame, ModifyIsSame, AddEdgeIsSame
    <3>4. QED
      BY <2>5, <3>2, <3>3
  <2>10. QED
    BY <1>2, <2>3, <2>4, <2>6, <2>7, <2>8, <2>9 DEF HostStep
<1>3. QED
  BY <1>1, <1>2

LEMMA SaveOwned ==
  ASSUME Owners, NEW p \in Processes, Truncate(p) \/ WriteFile(p) \/ Stop(p)
  PROVE  Owners'
<1>1. /\ used \in Nat /\ used' = used /\ used <= used'
      /\ overwritten' = overwritten /\ overwritten' \in BOOLEAN
  BY DEF Owners, Truncate, WriteFile, Stop
<1>2. ASSUME proc[p] # Down, NEW x, DOMAIN x = DOMAIN proc[p], x.f = proc[p].f
      PROVE  IsSound(x)' /\ (Owned(x.f) \/ Replaced(p)')
  BY <1>1, <1>2 DEF Owners, IsSound, Replaced
<1>3. CASE Truncate(p)
  <2>1. proc[p] # Down /\ FileOwned'
    BY <1>3 DEF Truncate, Down, FileOwned, Torn
  <2>2. PICK x : x = [proc[p] EXCEPT !.pc = "writing"]
    OBVIOUS
  <2>3. DOMAIN x = DOMAIN proc[p] /\ x.f = proc[p].f /\ proc' = [proc EXCEPT ![p] = x]
    BY <1>3, <2>1, <2>2 DEF Truncate, Owners, IsSound
  <2>4. QED
    BY <1>1, <1>2, <2>1, <2>3, PlaceOwned
<1>4. CASE WriteFile(p)
  <2>1. /\ proc[p] # Down /\ Whole(proc[p].f) /\ DOMAIN proc[p].f.nodes \subseteq 1..used
        /\ DOMAIN proc[p] = {"pc", "f", "base", "gone"}
    BY <1>4 DEF WriteFile, Down, Owners, IsSound
  <2>2. FileOwned'
    <3>1. CASE file' = Torn
      BY <3>1 DEF FileOwned, Torn
    <3>2. CASE file' # Torn
      <4>1. PICK first \in Orders(proc[p].f) :
              file' = [state |-> "valid", saved |-> Save(proc[p].f, first)]
        BY <1>4, <3>2 DEF WriteFile
      <4>2. LET g == Restored(Save(proc[p].f, first)) IN
            Whole(g) /\ Owned(g) /\ DOMAIN g.nodes = DOMAIN proc[p].f.nodes
        BY <2>1, <4>1, ReloadIsWhole
      <4>3. file'.saved = Save(proc[p].f, first)
        BY <4>1
      <4>4. QED
        BY <1>1, <2>1, <4>2, <4>3 DEF FileOwned
    <3>3. QED
      BY <3>1, <3>2
  <2>3. PICK x : x = AfterSave(p)
    OBVIOUS
  <2>4. x = Down \/ (DOMAIN x = DOMAIN proc[p] /\ x.f = proc[p].f)
    BY <2>1, <2>3 DEF AfterSave
  <2>5. proc' = [proc EXCEPT ![p] = x]
    BY <1>4, <2>3 DEF WriteFile
  <2>6. x = Down \/ (IsSound(x)' /\ (Owned(x.f) \/ Replaced(p)'))
    BY <1>2, <2>1, <2>4
  <2>7. QED
    BY <1>1, <2>2, <2>5, <2>6, PlaceOwned
<1>5. CASE Stop(p)
  <2>1. proc' = [proc EXCEPT ![p] = Down] /\ UNCHANGED file
    BY <1>5 DEF Stop
  <2>2. FileOwned'
    BY <1>1, <2>1, FileKept DEF Owners
  <2>3. QED
    BY <1>1, <2>1, <2>2, PlaceOwned
<1>6. QED
  BY <1>3, <1>4, <1>5

LEMMA OwnersKept ==
  ASSUME Owners, [Next]_vars
  PROVE  Owners'
<1>1. CASE HostStep
  BY <1>1, HostOwned
<1>2. CASE \E p \in Commands : Command(p)
  BY <1>2, CommandOwned
<1>3. CASE \E p \in Processes : Truncate(p) \/ WriteFile(p) \/ Stop(p)
  BY <1>3, SaveOwned
<1>4. CASE UNCHANGED vars
  BY <1>4 DEF vars, Owners, IsSound, Replaced, FileOwned
<1>5. QED
  BY <1>1, <1>2, <1>3, <1>4 DEF Next

LEMMA OwnersAlways == Spec => []Owners
<1>1. ASSUME Init
      PROVE  Owners
  <2>1. file.state = "absent" /\ DOMAIN proc = Processes /\ \A p \in Processes : proc[p] = Down
    BY <1>1 DEF Init, Absent
  <2>2. used \in Nat /\ overwritten \in BOOLEAN
    BY <1>1 DEF Init
  <2>3. QED
    BY <2>1, <2>2 DEF Owners, FileOwned
<1>2. Owners /\ [Next]_vars => Owners'
  BY OwnersKept
<1>3. QED
  BY <1>1, <1>2, PTL DEF Spec

\* get_node_by_signature answers with a node of that signature or not at all, through
\* collisions, mutation, fading, saves and loads, unless a copy replaced a live node;
\* and verify_all_content_fingerprints finds no node damaged.
THEOREM IndexOwned == Spec => []IndexNamesItsOwner
<1>1. Owners => IndexNamesItsOwner
  BY DEF Owners, IsSound, Whole, IsSigned, Owned, Replaced, Damaged, IndexNamesItsOwner, Live
<1>2. QED
  BY <1>1, OwnersAlways, PTL

\* The Lamport timestamps of a fabric are distinct and none is ahead of its clock,
\* whichever of create, mutate, the bulk mutation of a search and load made it.
THEOREM TimestampsOrdered == Spec => []TimestampsOrderNodes
<1>1. Owners => TimestampsOrderNodes
  BY DEF Owners, IsSound, Whole, TimestampsOrderNodes, Live
<1>2. QED
  BY <1>1, OwnersAlways, PTL

-----------------------------------------------------------------------------
(***************************************************************************)
(* Lists of edges, as Retain leaves them.                                  *)
(***************************************************************************)
LEMMA NatsHaveLeast ==
  ASSUME NEW T \in SUBSET Nat, T # {}
  PROVE  \E n \in T : \A m \in T : n <= m
<1>1. PICK n \in T : \A m \in T : ~ (<<m, n>> \in OpToRel(<, Nat))
  BY NatLessThanWellFounded, WFMin
<1>2. \A m \in T : ~ (m < n)
  BY <1>1 DEF OpToRel
<1>3. QED
  BY <1>2

LEMMA NatSetInduction ==
  ASSUME NEW P \in SUBSET Nat, 0 \in P, \A n \in P : n + 1 \in P
  PROVE  P = Nat
<1>1. SUFFICES ASSUME Nat \ P # {}
               PROVE  FALSE
  OBVIOUS
<1>2. PICK n \in Nat \ P : \A m \in Nat \ P : n <= m
  BY <1>1, NatsHaveLeast
<1>3. n - 1 \in Nat /\ n - 1 \in P
  BY <1>2
<1>4. QED
  BY <1>2, <1>3

Retaining(pre, edges, ids, len) ==
  pre = [n \in 0..len |->
            IF n = 0 THEN <<>>
            ELSE IF edges[n].target \in ids THEN Append(pre[n - 1], edges[n]) ELSE pre[n - 1]]

\* The recursion of Retain has a solution for every list.
LEMMA RetainingExists ==
  ASSUME NEW edges \in Seq(Edge), NEW ids
  PROVE  \E pre : Retaining(pre, edges, ids, Len(edges))
<1> DEFINE P == {len \in Nat : \E pre : Retaining(pre, edges, ids, len)}
<1>1. 0 \in P
  <2> DEFINE pre == [n \in {0} |-> <<>>]
  <2>1. Retaining(pre, edges, ids, 0)
    BY DEF Retaining
  <2>2. QED
    BY <2>1
<1>2. ASSUME NEW len \in P
      PROVE  len + 1 \in P
  <2>1. PICK pre : Retaining(pre, edges, ids, len)
    OBVIOUS
  <2> DEFINE last == IF edges[len + 1].target \in ids THEN Append(pre[len], edges[len + 1]) ELSE pre[len]
             more == [n \in 0..(len + 1) |-> IF n = len + 1 THEN last ELSE pre[n]]
  <2>2. len \in Nat /\ DOMAIN pre = 0..len
    BY <2>1 DEF Retaining
  <2>3. \A n \in 0..len : pre[n] = IF n = 0 THEN <<>>
            ELSE IF edges[n].target \in ids THEN Append(pre[n - 1], edges[n]) ELSE pre[n - 1]
    BY <2>1 DEF Retaining
  <2>4. /\ more[len + 1] = last /\ \A n \in 0..len : more[n] = pre[n]
        /\ (len + 1) - 1 = len /\ len + 1 # 0
    BY <2>2
  <2>5. ASSUME NEW n \in 0..(len + 1)
        PROVE  more[n] = IF n = 0 THEN <<>>
            ELSE IF edges[n].target \in ids THEN Append(more[n - 1], edges[n]) ELSE more[n - 1]
    <3>1. CASE n = len + 1
      BY <2>2, <2>4, <3>1
    <3>2. CASE n # len + 1
      <4>1. n \in 0..len /\ (n # 0 => n - 1 \in 0..len)
        BY <2>2, <3>2
      <4>2. QED
        BY <2>3, <2>4, <4>1
    <3>3. QED
      BY <3>1, <3>2
  <2> DEFINE again == [n \in 0..(len + 1) |-> IF n = 0 THEN <<>>
            ELSE IF edges[n].target \in ids THEN Append(more[n - 1], edges[n]) ELSE more[n - 1]]
  <2>6. DOMAIN more = DOMAIN again /\ \A n \in DOMAIN more : more[n] = again[n]
    BY <2>5
  <2>7. more = again
    <3> HIDE DEF last
    <3>1. QED
      BY <2>6
  <2> HIDE DEF more
  <2>8. Retaining(more, edges, ids, len + 1)
    BY <2>7 DEF Retaining
  <2>9. QED
    BY <2>2, <2>8
<1> HIDE DEF P
<1>3. P = Nat
  <2>1. P \in SUBSET Nat
    BY DEF P
  <2>2. QED
    BY <1>1, <1>2, <2>1, NatSetInduction
<1>4. Len(edges) \in P
  BY <1>3
<1>5. QED
  BY <1>4 DEF P

LEMMA RetainIs ==
  ASSUME NEW edges \in Seq(Edge), NEW ids
  PROVE  \E pre : /\ Retain(edges, ids) = pre[Len(edges)] /\ pre[0] = <<>>
                   /\ \A n \in 1..Len(edges) :
                        pre[n] = IF edges[n].target \in ids THEN Append(pre[n - 1], edges[n])
                                  ELSE pre[n - 1]
<1> DEFINE pre == CHOOSE k : Retaining(k, edges, ids, Len(edges))
<1>1. Retaining(pre, edges, ids, Len(edges))
  BY RetainingExists
<1>2. Retain(edges, ids) = pre[Len(edges)]
  BY DEF Retain, Retaining
<1> HIDE DEF pre
<1>3. Len(edges) \in Nat
  OBVIOUS
<1>4. 0 \in 0..Len(edges) /\ \A n \in 1..Len(edges) : n \in 0..Len(edges) /\ n # 0
  BY <1>3
<1>5. pre[0] = <<>> /\ \A n \in 1..Len(edges) :
        pre[n] = IF edges[n].target \in ids THEN Append(pre[n - 1], edges[n]) ELSE pre[n - 1]
  BY <1>1, <1>4 DEF Retaining
<1>6. QED
  BY <1>2, <1>5

\* A list holds finitely many edges to a target: none when nothing is linked.
LEMMA CountIs ==
  ASSUME NEW edges \in Seq(Edge), NEW t
  PROVE  /\ Count(edges, t) \in Nat
         /\ Count(edges, t) = 0 <=> \A n \in DOMAIN edges : edges[n].target # t
<1> DEFINE S == {n \in DOMAIN edges : edges[n].target = t}
<1>1. S \subseteq 1..Len(edges) /\ Len(edges) \in Nat
  OBVIOUS
<1>2. IsFiniteSet(S)
  BY <1>1, FS_Interval, FS_Subset
<1>3. Cardinality(S) \in Nat /\ (Cardinality(S) = 0 <=> S = {})
  BY <1>2, FS_CardinalityType, FS_EmptySet
<1>4. S = {} <=> \A n \in DOMAIN edges : edges[n].target # t
  OBVIOUS
<1>5. Count(edges, t) = Cardinality(S)
  BY DEF Count
<1> HIDE DEF S
<1>6. QED
  BY <1>3, <1>4, <1>5

LEMMA CountAppend ==
  ASSUME NEW edges \in Seq(Edge), NEW e \in Edge, NEW t
  PROVE  Count(Append(edges, e), t) = Count(edges, t) + (IF e.target = t THEN 1 ELSE 0)
<1> DEFINE S == {n \in DOMAIN edges : edges[n].target = t}
           more == Append(edges, e)
           T == {n \in DOMAIN more : more[n].target = t}
           last == Len(edges) + 1
<1>1. /\ DOMAIN more = DOMAIN edges \cup {last} /\ last \notin DOMAIN edges /\ more[last] = e
      /\ \A n \in DOMAIN edges : more[n] = edges[n]
  OBVIOUS
<1>2. S \subseteq 1..Len(edges) /\ Len(edges) \in Nat /\ last \notin S
  BY <1>1
<1>3. IsFiniteSet(S)
  BY <1>2, FS_Interval, FS_Subset
<1>4. T = IF e.target = t THEN S \cup {last} ELSE S
  BY <1>1
<1>5. Count(edges, t) = Cardinality(S) /\ Count(more, t) = Cardinality(T)
  BY DEF Count
<1> HIDE DEF S, T, more, last
<1>6. Cardinality(S) \in Nat /\ Cardinality(S \cup {last}) = Cardinality(S) + 1
  BY <1>2, <1>3, FS_CardinalityType, FS_AddElement
<1>7. QED
  BY <1>4, <1>5, <1>6 DEF more

\* What Retain leaves: edges of the list, all of those to the ids and no other, and
\* the list itself when all its edges are such.
LEMMA RetainKeeps ==
  ASSUME NEW edges \in Seq(Edge), NEW ids
  PROVE  LET rest == Retain(edges, ids) IN
         /\ rest \in Seq(Edge)
         /\ \A t : Count(rest, t) = IF t \in ids THEN Count(edges, t) ELSE 0
         /\ (\A n \in DOMAIN edges : edges[n].target \in ids) => rest = edges
<1>1. PICK pre : /\ Retain(edges, ids) = pre[Len(edges)] /\ pre[0] = <<>>
                 /\ \A n \in 1..Len(edges) :
                      pre[n] = IF edges[n].target \in ids THEN Append(pre[n - 1], edges[n])
                               ELSE pre[n - 1]
  BY RetainIs
<1>2. Len(edges) \in Nat /\ DOMAIN edges = 1..Len(edges)
  OBVIOUS
<1> DEFINE first(n) == [k \in 1..n |-> edges[k]]
           Kept(n) == /\ pre[n] \in Seq(Edge) /\ first(n) \in Seq(Edge)
                      /\ \A t : Count(pre[n], t) = IF t \in ids THEN Count(first(n), t) ELSE 0
                      /\ (\A k \in DOMAIN edges : edges[k].target \in ids) => pre[n] = first(n)
           P == {n \in Nat : n <= Len(edges) => Kept(n)}
<1>3. 0 \in P
  <2>1. first(0) = <<>> /\ <<>> \in Seq(Edge)
    OBVIOUS
  <2>2. \A t : Count(<<>>, t) = 0
    <3>1. \A t : Count(<<>>, t) = 0 <=> \A n \in DOMAIN <<>> : <<>>[n].target # t
      BY <2>1, CountIs
    <3>2. QED
      BY <3>1
  <2> HIDE DEF first
  <2>3. QED
    BY <1>1, <2>1, <2>2
<1>4. ASSUME NEW n \in P
      PROVE  n + 1 \in P
  <2>0. n \in Nat /\ (n <= Len(edges) => Kept(n))
    OBVIOUS
  <2> HIDE DEF P
  <2>1. SUFFICES ASSUME n + 1 <= Len(edges)
                 PROVE  Kept(n + 1)
    <3> HIDE DEF Kept
    <3>1. n + 1 \in Nat
      BY <2>0
    <3>2. QED
      BY <3>1 DEF P
  <2>2. Kept(n) /\ n \in Nat /\ (n + 1) - 1 = n /\ n + 1 \in 1..Len(edges)
    <3> HIDE DEF Kept
    <3>1. QED
      BY <1>2, <2>0, <2>1
  <2>3. edges[n + 1] \in Edge
    BY <1>2, <2>2
  <2>4. first(n + 1) = Append(first(n), edges[n + 1]) /\ first(n + 1) \in Seq(Edge)
    BY <1>2, <2>2, <2>3
  <2>5. pre[n + 1] = IF edges[n + 1].target \in ids THEN Append(pre[n], edges[n + 1]) ELSE pre[n]
    BY <1>1, <2>2
  <2> HIDE DEF first
  <2>6. pre[n] \in Seq(Edge) /\ first(n) \in Seq(Edge)
    BY <2>2
  <2>7. ASSUME NEW t
        PROVE  Count(pre[n + 1], t) = IF t \in ids THEN Count(first(n + 1), t) ELSE 0
    <3>1. Count(pre[n], t) = IF t \in ids THEN Count(first(n), t) ELSE 0
      BY <2>2
    <3>2. Count(Append(first(n), edges[n + 1]), t) =
            Count(first(n), t) + (IF edges[n + 1].target = t THEN 1 ELSE 0)
      BY <2>3, <2>6, CountAppend
    <3>3. Count(Append(pre[n], edges[n + 1]), t) =
            Count(pre[n], t) + (IF edges[n + 1].target = t THEN 1 ELSE 0)
      BY <2>3, <2>6, CountAppend
    <3>4. Count(pre[n], t) \in Nat /\ Count(first(n), t) \in Nat
      BY <2>6, CountIs
    <3>5. CASE edges[n + 1].target \in ids /\ t \in ids
      BY <2>4, <2>5, <3>1, <3>2, <3>3, <3>5
    <3>6. CASE edges[n + 1].target \in ids /\ t \notin ids
      <4>1. edges[n + 1].target # t
        BY <3>6
      <4>2. pre[n + 1] = Append(pre[n], edges[n + 1]) /\ Count(pre[n], t) = 0
        BY <2>5, <3>1, <3>6
      <4>3. Count(pre[n + 1], t) = 0 + 0
        BY <3>3, <4>1, <4>2
      <4>4. QED
        BY <3>6, <4>3
    <3>7. CASE edges[n + 1].target \notin ids
      <4>1. t \in ids => edges[n + 1].target # t
        BY <3>7
      <4>2. pre[n + 1] = pre[n]
        BY <2>5, <3>7
      <4>3. t \in ids => Count(first(n + 1), t) = Count(first(n), t)
        <5>1. t \in ids => Count(first(n + 1), t) = Count(first(n), t) + 0
          BY <2>4, <3>2, <4>1
        <5>2. QED
          BY <3>4, <5>1
      <4>4. QED
        BY <3>1, <4>2, <4>3
    <3>8. QED
      BY <3>5, <3>6, <3>7
  <2>8. (\A k \in DOMAIN edges : edges[k].target \in ids) => pre[n + 1] = first(n + 1)
    BY <1>2, <2>2, <2>4, <2>5
  <2>9. pre[n + 1] \in Seq(Edge)
    BY <2>3, <2>5, <2>6
  <2>10. QED
    BY <2>4, <2>7, <2>8, <2>9
<1> HIDE DEF P, Kept
<1>5. P = Nat
  <2>1. P \in SUBSET Nat
    BY DEF P
  <2>2. QED
    BY <1>3, <1>4, <2>1, NatSetInduction
<1>6. Kept(Len(edges))
  BY <1>2, <1>5 DEF P
<1>7. first(Len(edges)) = edges
  BY <1>2
<1> HIDE DEF first
<1>8. QED
  BY <1>1, <1>6, <1>7 DEF Kept

-----------------------------------------------------------------------------
(***************************************************************************)
(* The three copies of the graph, through every method.                    *)
(***************************************************************************)
Mirrored(f) ==
  /\ DOMAIN f.nodes \subseteq Ids
  /\ f.edges \in [Ids -> Seq(Edge)] /\ f.rev \in [Ids -> [Ids -> Nat]]
  /\ \A s, t \in Ids : f.rev[t][s] = Count(f.edges[s], t)
  /\ \A s, t \in Ids : f.rev[t][s] > 0 => s # t /\ {s, t} \subseteq DOMAIN f.nodes

Synced(f) == \A i \in DOMAIN f.nodes : f.nodes[i].context = f.edges[i]

\* The edges of a mirrored fabric lead from one of its nodes to another.
LEMMA EdgesEnd ==
  ASSUME NEW f, Mirrored(f), NEW s \in Ids, NEW n \in DOMAIN f.edges[s]
  PROVE  LET t == f.edges[s][n].target IN t \in Ids /\ s # t /\ {s, t} \subseteq DOMAIN f.nodes
<1> DEFINE t == f.edges[s][n].target
<1>1. f.edges[s] \in Seq(Edge) /\ f.edges[s][n] \in Edge
  BY DEF Mirrored
<1>2. t \in Ids
  BY <1>1 DEF Edge
<1>3. Count(f.edges[s], t) \in Nat /\ Count(f.edges[s], t) # 0
  BY <1>1, CountIs
<1>4. f.rev[t][s] = Count(f.edges[s], t)
  BY <1>2 DEF Mirrored
<1> HIDE DEF t
<1>5. f.rev[t][s] > 0
  BY <1>3, <1>4
<1>6. s # t /\ {s, t} \subseteq DOMAIN f.nodes
  BY <1>2, <1>5 DEF Mirrored
<1>7. QED
  BY <1>2, <1>6 DEF t

LEMMA NoNodeNoEdges ==
  ASSUME NEW f, Mirrored(f), NEW s \in Ids, s \notin DOMAIN f.nodes
  PROVE  f.edges[s] = <<>>
<1>1. \A n \in DOMAIN f.edges[s] : FALSE
  BY EdgesEnd
<1>2. PICK list \in Seq(Edge) : list = f.edges[s]
  BY DEF Mirrored
<1>3. Len(list) = 0
  <2>1. Len(list) \in Nat /\ DOMAIN list = 1..Len(list) /\ DOMAIN list = {}
    BY <1>1, <1>2
  <2>2. QED
    BY <2>1
<1>4. QED
  BY <1>2, <1>3

\* The graph is the same and so are the nodes.
SameGraph(f, g) == DOMAIN g.nodes = DOMAIN f.nodes /\ g.edges = f.edges /\ g.rev = f.rev

LEMMA SameIsMirrored ==
  ASSUME NEW f, NEW g, Mirrored(f), SameGraph(f, g)
  PROVE  /\ Mirrored(g)
         /\ Synced(f) /\ (\A i \in DOMAIN f.nodes : g.nodes[i].context = f.nodes[i].context) => Synced(g)
BY DEF Mirrored, Synced, SameGraph

LEMMA SyncMirrors ==
  ASSUME NEW f, Whole(f), NEW ids
  PROVE  LET g == SyncContext(f, ids) IN
         /\ SameGraph(f, g)
         /\ \A i \in DOMAIN f.nodes : g.nodes[i].context = IF i \in ids THEN f.edges[i]
                                                           ELSE f.nodes[i].context
<1> DEFINE g == SyncContext(f, ids)
<1>1. /\ g.edges = f.edges /\ g.rev = f.rev
      /\ g.nodes = [i \in DOMAIN f.nodes |->
                     IF i \in ids THEN [f.nodes[i] EXCEPT !.context = f.edges[i]] ELSE f.nodes[i]]
  BY DEF Whole, IsShape, SyncContext
<1>2. \A i \in DOMAIN f.nodes : [f.nodes[i] EXCEPT !.context = f.edges[i]].context = f.edges[i]
  BY DEF Whole, Fields
<1> HIDE DEF g
<1>3. QED
  BY <1>1, <1>2 DEF SameGraph, g

LEMMA CreateMirrors ==
  ASSUME NEW f, Whole(f), Mirrored(f), NEW i \in Ids, NEW n, DOMAIN n = Fields \ {"ts"}
  PROVE  LET g == Create(f, i, n) IN
         /\ Mirrored(g)
         /\ Synced(f) /\ i \notin DOMAIN f.nodes /\ n.context = <<>> => Synced(g)
<1> DEFINE g == Create(f, i, n)
           x == Put(n, "ts", f.clock + 1)
<1>1. x.context = n.context
  BY DEF Fields, Put
<1>2. /\ g.edges = f.edges /\ g.rev = f.rev
      /\ g.nodes = [j \in DOMAIN f.nodes \cup {i} |-> IF j = i THEN x ELSE f.nodes[j]]
  BY DEF Whole, IsShape, Create, Put
<1> HIDE DEF g, x
<1>3. Mirrored(g)
  BY <1>2 DEF Mirrored
<1>4. ASSUME Synced(f), i \notin DOMAIN f.nodes, n.context = <<>>
      PROVE  Synced(g)
  <2>1. f.edges[i] = <<>>
    BY <1>4, NoNodeNoEdges
  <2>2. QED
    BY <1>1, <1>2, <1>4, <2>1 DEF Synced
<1>5. QED
  BY <1>3, <1>4 DEF g

LEMMA MutateMirrors ==
  ASSUME NEW f, Whole(f), Mirrored(f), NEW i \in DOMAIN f.nodes, NEW c
  PROVE  Mirrored(Mutate(f, i, c)) /\ (Synced(f) => Synced(Mutate(f, i, c)))
<1> DEFINE g == Mutate(f, i, c)
<1>1. /\ g.edges = f.edges /\ g.rev = f.rev /\ DOMAIN g.nodes = DOMAIN f.nodes
      /\ g.nodes[i].context = f.nodes[i].context
      /\ \A j \in DOMAIN f.nodes \ {i} : g.nodes[j] = f.nodes[j]
  BY DEF Whole, IsShape, Mutate, Fields
<1> HIDE DEF g
<1>2. SameGraph(f, g) /\ \A j \in DOMAIN f.nodes : g.nodes[j].context = f.nodes[j].context
  BY <1>1 DEF SameGraph
<1>3. Mirrored(g) /\ (Synced(f) => Synced(g))
  BY <1>2, SameIsMirrored
<1>4. QED
  BY <1>3 DEF g

LEMMA TouchMirrors ==
  ASSUME NEW f, Whole(f), Mirrored(f), NEW order, NEW stamped
  PROVE  Mirrored(Touch(f, order, stamped)) /\ (Synced(f) => Synced(Touch(f, order, stamped)))
<1> DEFINE turn(i) == CHOOSE n \in DOMAIN order : order[n] = i
           touched == {order[n] : n \in DOMAIN order}
           new(i) == [f.nodes[i] EXCEPT !.meta = IF stamped THEN StampActivation(@) ELSE @, !.version = @ + 1,
                                        !.ts = f.clock + turn(i)]
           g == Touch(f, order, stamped)
<1>1. \A i \in DOMAIN f.nodes : new(i).context = f.nodes[i].context
  BY DEF Whole, Fields
<1>2. /\ g.edges = f.edges /\ g.rev = f.rev
      /\ g.nodes = [i \in DOMAIN f.nodes |-> IF i \in touched THEN new(i) ELSE f.nodes[i]]
  BY DEF Whole, IsShape, Touch
<1> HIDE DEF turn, new, g, touched
<1>3. SameGraph(f, g) /\ \A j \in DOMAIN f.nodes : g.nodes[j].context = f.nodes[j].context
  BY <1>1, <1>2 DEF SameGraph
<1>4. Mirrored(g) /\ (Synced(f) => Synced(g))
  BY <1>3, SameIsMirrored
<1>5. QED
  BY <1>4 DEF g

LEMMA RevUpdate ==
  ASSUME NEW rev \in [Ids -> [Ids -> Nat]], NEW a \in Ids, NEW b \in Ids, NEW v \in Nat,
         NEW new, new = [rev EXCEPT ![b] = [rev[b] EXCEPT ![a] = v]]
  PROVE  /\ new \in [Ids -> [Ids -> Nat]] /\ new[b][a] = v
         /\ \A s, t \in Ids : s # a \/ t # b => new[t][s] = rev[t][s]
<1> DEFINE row == [rev[b] EXCEPT ![a] = v]
<1>1. row \in [Ids -> Nat] /\ row[a] = v /\ \A s \in Ids \ {a} : row[s] = rev[b][s]
  OBVIOUS
<1>2. new = [rev EXCEPT ![b] = row]
  OBVIOUS
<1> HIDE DEF row
<1>3. new \in [Ids -> [Ids -> Nat]] /\ new[b] = row /\ \A t \in Ids \ {b} : new[t] = rev[t]
  BY <1>1, <1>2
<1>4. new[b][a] = v
  BY <1>1, <1>3
<1>5. ASSUME NEW s \in Ids, NEW t \in Ids, s # a \/ t # b
      PROVE  new[t][s] = rev[t][s]
  <2>1. CASE t = b
    BY <1>1, <1>3, <1>5, <2>1
  <2>2. CASE t # b
    BY <1>3, <2>2
  <2>3. QED
    BY <2>1, <2>2
<1>6. QED
  BY <1>3, <1>4, <1>5 DEF row

LEMMA AddEdgeMirrors ==
  ASSUME NEW f, Whole(f), Mirrored(f), NEW a \in DOMAIN f.nodes, NEW b \in DOMAIN f.nodes, a # b,
         NEW k \in Kinds
  PROVE  LET g == AddEdge(f, a, b, k) IN Mirrored(g) /\ (Synced(f) => Synced(g))
<1> DEFINE e == [target |-> b, kind |-> k]
           h == [f EXCEPT !.edges[a] = Append(@, e), !.rev[b][a] = @ + 1]
<1>1. a \in Ids /\ b \in Ids /\ e \in Edge /\ e.target = b
  BY DEF Mirrored, Edge
<1>2. /\ h.edges = [f.edges EXCEPT ![a] = Append(f.edges[a], e)]
      /\ h.rev = [f.rev EXCEPT ![b] = [f.rev[b] EXCEPT ![a] = f.rev[b][a] + 1]]
      /\ h.nodes = f.nodes /\ h.index = f.index /\ h.clock = f.clock /\ IsShape(h)
  BY DEF Whole, IsShape
<1>3. AddEdge(f, a, b, k) = SyncContext(h, {a})
  BY DEF AddEdge
<1> HIDE DEF h, e
<1>4. /\ f.edges \in [Ids -> Seq(Edge)] /\ f.rev \in [Ids -> [Ids -> Nat]]
      /\ DOMAIN f.nodes \subseteq Ids
  BY DEF Mirrored
<1>5. /\ h.edges \in [Ids -> Seq(Edge)] /\ h.edges[a] = Append(f.edges[a], e)
      /\ \A s \in Ids \ {a} : h.edges[s] = f.edges[s]
  BY <1>1, <1>2, <1>4
<1>6. /\ h.rev \in [Ids -> [Ids -> Nat]] /\ h.rev[b][a] = f.rev[b][a] + 1
      /\ \A s, t \in Ids : s # a \/ t # b => h.rev[t][s] = f.rev[t][s]
  <2>1. PICK v \in Nat : v = f.rev[b][a] + 1
    BY <1>1, <1>4
  <2>2. PICK rev \in [Ids -> [Ids -> Nat]] : rev = f.rev
    BY <1>4
  <2>3. PICK new : new = h.rev
    OBVIOUS
  <2>4. new = [rev EXCEPT ![b] = [rev[b] EXCEPT ![a] = v]]
    BY <1>2, <2>1, <2>2, <2>3
  <2>5. /\ new \in [Ids -> [Ids -> Nat]] /\ new[b][a] = v
        /\ \A s, t \in Ids : s # a \/ t # b => new[t][s] = rev[t][s]
    BY <1>1, <2>4, RevUpdate
  <2>6. QED
    BY <2>1, <2>2, <2>3, <2>5
<1>7. ASSUME NEW s \in Ids, NEW t \in Ids
      PROVE  h.rev[t][s] = Count(h.edges[s], t)
  <2>1. f.rev[t][s] = Count(f.edges[s], t) /\ f.rev[t][s] \in Nat
    BY DEF Mirrored
  <2>2. CASE s = a
    <3>0. PICK list \in Seq(Edge) : list = f.edges[s] /\ h.edges[s] = Append(list, e)
      BY <1>4, <1>5, <2>2
    <3>1. Count(h.edges[s], t) = Count(f.edges[s], t) + (IF e.target = t THEN 1 ELSE 0)
      BY <1>1, <3>0, CountAppend
    <3>2. CASE t = b
      BY <1>1, <1>6, <2>1, <2>2, <3>1, <3>2
    <3>3. CASE t # b
      <4>1. Count(h.edges[s], t) = Count(f.edges[s], t) + 0
        BY <1>1, <3>1, <3>3
      <4>2. QED
        BY <1>6, <2>1, <3>3, <4>1
    <3>4. QED
      BY <3>2, <3>3
  <2>3. CASE s # a
    BY <1>5, <1>6, <2>1, <2>3
  <2>4. QED
    BY <2>2, <2>3
<1>8. ASSUME NEW s \in Ids, NEW t \in Ids, h.rev[t][s] > 0
      PROVE  s # t /\ {s, t} \subseteq DOMAIN h.nodes
  <2>1. CASE s = a /\ t = b
    BY <1>2, <2>1
  <2>2. CASE s # a \/ t # b
    BY <1>2, <1>6, <1>8, <2>2 DEF Mirrored
  <2>3. QED
    BY <2>1, <2>2
<1>9. Whole(h) /\ Mirrored(h)
  <2>1. Whole(h)
    BY <1>2 DEF Whole
  <2>2. QED
    BY <1>2, <1>4, <1>5, <1>6, <1>7, <1>8, <2>1 DEF Mirrored
<1>10. Synced(f) => \A i \in DOMAIN h.nodes : i # a => h.nodes[i].context = h.edges[i]
  BY <1>2, <1>4, <1>5 DEF Synced
<1> DEFINE g == SyncContext(h, {a})
<1>11. /\ SameGraph(h, g)
       /\ \A i \in DOMAIN h.nodes : g.nodes[i].context = IF i \in {a} THEN h.edges[i]
                                                         ELSE h.nodes[i].context
  BY <1>9, SyncMirrors
<1> HIDE DEF g
<1>12. Mirrored(g) /\ (Synced(f) => Synced(g))
  BY <1>9, <1>10, <1>11, SameIsMirrored DEF Synced, SameGraph
<1>13. QED
  BY <1>3, <1>12 DEF g

\* NotTo leaves the edges to other nodes.
LEMMA NotToKeeps ==
  ASSUME NEW edges \in Seq(Edge), NEW b
  PROVE  /\ NotTo(edges, b) \in Seq(Edge)
         /\ Count(NotTo(edges, b), b) = 0
         /\ \A t \in Ids \ {b} : Count(NotTo(edges, b), t) = Count(edges, t)
BY RetainKeeps DEF NotTo

LEMMA RemoveMirrors ==
  ASSUME NEW f, Whole(f), Mirrored(f), NEW a \in Ids, NEW b \in Ids
  PROVE  LET g == RemoveEdgesBetween(f, a, b) IN Mirrored(g) /\ (Synced(f) => Synced(g))
<1> DEFINE h == [f EXCEPT !.edges[a] = NotTo(@, b), !.rev[b][a] = 0]
<1>1. SUFFICES ASSUME Linked(f, a, b)
               PROVE  LET g == SyncContext(h, {a}) IN Mirrored(g) /\ (Synced(f) => Synced(g))
  BY DEF RemoveEdgesBetween
<1>2. /\ h.edges = [f.edges EXCEPT ![a] = NotTo(f.edges[a], b)]
      /\ h.rev = [f.rev EXCEPT ![b] = [f.rev[b] EXCEPT ![a] = 0]]
      /\ h.nodes = f.nodes /\ h.index = f.index /\ h.clock = f.clock /\ IsShape(h)
  BY DEF Whole, IsShape
<1> HIDE DEF h
<1>3. /\ f.edges \in [Ids -> Seq(Edge)] /\ f.rev \in [Ids -> [Ids -> Nat]]
      /\ DOMAIN f.nodes \subseteq Ids
  BY DEF Mirrored
<1>4. PICK list \in Seq(Edge) : list = NotTo(f.edges[a], b)
  BY <1>3, NotToKeeps
<1>5. Count(list, b) = 0 /\ \A t \in Ids \ {b} : Count(list, t) = Count(f.edges[a], t)
  BY <1>3, <1>4, NotToKeeps
<1>6. /\ h.edges \in [Ids -> Seq(Edge)] /\ h.edges[a] = list
      /\ \A s \in Ids \ {a} : h.edges[s] = f.edges[s]
  BY <1>2, <1>3, <1>4
<1>7. /\ h.rev \in [Ids -> [Ids -> Nat]] /\ h.rev[b][a] = 0
      /\ \A s, t \in Ids : s # a \/ t # b => h.rev[t][s] = f.rev[t][s]
  <2>1. PICK rev \in [Ids -> [Ids -> Nat]] : rev = f.rev
    BY <1>3
  <2>2. PICK new : new = h.rev
    OBVIOUS
  <2>3. new = [rev EXCEPT ![b] = [rev[b] EXCEPT ![a] = 0]]
    BY <1>2, <2>1, <2>2
  <2>4. /\ new \in [Ids -> [Ids -> Nat]] /\ new[b][a] = 0
        /\ \A s, t \in Ids : s # a \/ t # b => new[t][s] = rev[t][s]
    BY <2>3, RevUpdate
  <2>5. QED
    BY <2>1, <2>2, <2>4
<1>8. ASSUME NEW s \in Ids, NEW t \in Ids
      PROVE  h.rev[t][s] = Count(h.edges[s], t)
  <2>1. f.rev[t][s] = Count(f.edges[s], t)
    BY DEF Mirrored
  <2>2. CASE s = a /\ t = b
    BY <1>5, <1>6, <1>7, <2>2
  <2>3. CASE s = a /\ t # b
    BY <1>5, <1>6, <1>7, <2>1, <2>3
  <2>4. CASE s # a
    BY <1>6, <1>7, <2>1, <2>4
  <2>5. QED
    BY <2>2, <2>3, <2>4
<1>9. ASSUME NEW s \in Ids, NEW t \in Ids, h.rev[t][s] > 0
      PROVE  s # t /\ {s, t} \subseteq DOMAIN h.nodes
  <2>1. s # a \/ t # b
    <3>1. ~ (0 > 0)
      OBVIOUS
    <3>2. QED
      BY <1>7, <1>9, <3>1
  <2>2. f.rev[t][s] > 0
    BY <1>7, <1>9, <2>1
  <2>3. QED
    BY <1>2, <2>2 DEF Mirrored
<1>10. Whole(h) /\ Mirrored(h)
  <2>1. Whole(h)
    BY <1>2 DEF Whole
  <2>2. QED
    BY <1>2, <1>3, <1>6, <1>7, <1>8, <1>9, <2>1 DEF Mirrored
<1>11. Synced(f) => \A i \in DOMAIN h.nodes : i # a => h.nodes[i].context = h.edges[i]
  BY <1>2, <1>3, <1>6 DEF Synced
<1> DEFINE g == SyncContext(h, {a})
<1>12. /\ SameGraph(h, g)
       /\ \A i \in DOMAIN h.nodes : g.nodes[i].context = IF i \in {a} THEN h.edges[i]
                                                         ELSE h.nodes[i].context
  BY <1>10, SyncMirrors
<1> HIDE DEF g
<1>13. Mirrored(g) /\ (Synced(f) => Synced(g))
  BY <1>10, <1>11, <1>12, SameIsMirrored DEF Synced, SameGraph
<1>14. QED
  BY <1>13 DEF g

LEMMA ModifyMirrors ==
  ASSUME NEW f, Whole(f), Mirrored(f), NEW a \in Ids, NEW b \in Ids, Linked(f, a, b)
  PROVE  LET g == ModifyEdge(f, a, b) IN Mirrored(g) /\ (Synced(f) => Synced(g))
<1> DEFINE links == {n \in DOMAIN f.edges[a] : f.edges[a][n].target = b}
           IsFirst(n) == f.edges[a][n].target = b /\ \A m \in 1..(n - 1) : f.edges[a][m].target # b
           first == CHOOSE n \in DOMAIN f.edges[a] : IsFirst(n)
           k == f.edges[a][first].kind
<1>1. f.edges[a] \in Seq(Edge) /\ DOMAIN f.nodes \subseteq Ids
  BY DEF Mirrored
<1>2. PICK len \in Nat : DOMAIN f.edges[a] = 1..len
  BY <1>1
<1>3. links \in SUBSET Nat /\ links # {}
  BY <1>2 DEF Linked
<1>4. PICK n \in links : \A m \in links : n <= m
  BY <1>3, NatsHaveLeast
<1>5. n \in DOMAIN f.edges[a] /\ IsFirst(n)
  BY <1>2, <1>4
<1>6. first \in DOMAIN f.edges[a] /\ IsFirst(first)
  BY <1>5
<1>7. k \in Kinds /\ a # b /\ a \in DOMAIN f.nodes /\ b \in DOMAIN f.nodes
  <2> HIDE DEF first
  <2>1. f.edges[a][first] \in Edge /\ f.edges[a][first].target = b
    BY <1>1, <1>6
  <2>2. k \in Kinds
    BY <2>1 DEF Edge
  <2>3. a # b /\ {a, b} \subseteq DOMAIN f.nodes
    BY <1>6, <2>1, EdgesEnd
  <2>4. QED
    BY <2>2, <2>3
<1>8. PICK rest : rest = RemoveEdgesBetween(f, a, b)
  OBVIOUS
<1>9. ModifyEdge(f, a, b) = AddEdge(rest, a, b, k)
  BY <1>8 DEF ModifyEdge
<1> HIDE DEF k, first
<1>10. Mirrored(rest) /\ (Synced(f) => Synced(rest))
  BY <1>8, RemoveMirrors
<1>11. Whole(rest) /\ DOMAIN rest.nodes = DOMAIN f.nodes
  BY <1>8, RemoveIsSame, SameIsWhole DEF SameIdentity
<1>12. PICK kind \in Kinds : kind = k
  BY <1>7
<1>13. QED
  BY <1>7, <1>9, <1>10, <1>11, <1>12, AddEdgeMirrors

LEMMA FadeMirrors ==
  ASSUME NEW f, Whole(f), Mirrored(f), NEW i \in DOMAIN f.nodes
  PROVE  LET g == Fade(f, i) IN Mirrored(g) /\ (Synced(f) => Synced(g))
<1> DEFINE sources == {s \in Ids : f.rev[i][s] > 0}
           edges == [s \in Ids |-> IF s = i THEN <<>>
                                   ELSE IF s \in sources THEN NotTo(f.edges[s], i) ELSE f.edges[s]]
           rev == [t \in Ids |-> IF t = i THEN [s \in Ids |-> 0]
                                 ELSE IF Linked(f, i, t) THEN [f.rev[t] EXCEPT ![i] = 0]
                                 ELSE f.rev[t]]
           h == [f EXCEPT !.nodes = Without(@, i),
                 !.index = Unindexed(@, f.nodes[i].signature, i),
                 !.edges = [s \in Ids |-> IF s = i THEN <<>>
                                          ELSE IF s \in sources THEN NotTo(@[s], i) ELSE @[s]],
                 !.rev = [t \in Ids |-> IF t = i THEN [s \in Ids |-> 0]
                                        ELSE IF Linked(f, i, t) THEN [@[t] EXCEPT ![i] = 0]
                                        ELSE @[t]]]
<1>1. /\ Fade(f, i) = SyncContext(h, sources)
      /\ IsShape(h) /\ h.nodes = Without(f.nodes, i) /\ h.clock = f.clock
      /\ h.edges = edges /\ h.rev = rev
  BY DEF Fade, Whole, IsShape
<1> HIDE DEF h
<1>2. /\ f.edges \in [Ids -> Seq(Edge)] /\ f.rev \in [Ids -> [Ids -> Nat]]
      /\ DOMAIN f.nodes \subseteq Ids /\ i \in Ids
      /\ \A s, t \in Ids : f.rev[t][s] = Count(f.edges[s], t)
  BY DEF Mirrored
<1>3. <<>> \in Seq(Edge) /\ \A t : Count(<<>>, t) = 0
  <2>1. <<>> \in Seq(Edge) /\ DOMAIN <<>> = {}
    OBVIOUS
  <2>2. \A t : Count(<<>>, t) = 0 <=> \A n \in DOMAIN <<>> : <<>>[n].target # t
    BY <2>1, CountIs
  <2>3. QED
    BY <2>1, <2>2
<1>4. ASSUME NEW s \in Ids
      PROVE  /\ edges[s] \in Seq(Edge)
             /\ s = i => \A t \in Ids : Count(edges[s], t) = 0
             /\ s # i => /\ Count(edges[s], i) = 0
                         /\ \A t \in Ids \ {i} : Count(edges[s], t) = f.rev[t][s]
  <2>1. CASE s = i
    BY <1>3, <2>1
  <2>2. CASE s # i /\ s \in sources
    <3>1. PICK list \in Seq(Edge) : list = f.edges[s]
      BY <1>2
    <3>2. edges[s] = NotTo(list, i)
      BY <2>2, <3>1
    <3>3. QED
      BY <1>2, <2>2, <3>1, <3>2, NotToKeeps
  <2>3. CASE s # i /\ s \notin sources
    <3>1. edges[s] = f.edges[s] /\ ~ (f.rev[i][s] > 0) /\ f.rev[i][s] \in Nat
      BY <1>2, <2>3
    <3>2. f.rev[i][s] = 0
      BY <3>1
    <3>3. QED
      BY <1>2, <2>3, <3>1, <3>2
  <2>4. QED
    BY <2>1, <2>2, <2>3
<1>5. ASSUME NEW t \in Ids
      PROVE  /\ rev[t] \in [Ids -> Nat]
             /\ t = i => \A s \in Ids : rev[t][s] = 0
             /\ t # i => /\ rev[t][i] = 0
                         /\ \A s \in Ids \ {i} : rev[t][s] = f.rev[t][s]
  <2>1. CASE t = i
    BY <2>1
  <2>2. CASE t # i /\ Linked(f, i, t)
    <3>1. PICK row \in [Ids -> Nat] : row = f.rev[t]
      BY <1>2
    <3>2. rev[t] = [row EXCEPT ![i] = 0]
      BY <2>2, <3>1
    <3>3. QED
      BY <1>2, <2>2, <3>1, <3>2
  <2>3. CASE t # i /\ ~ Linked(f, i, t)
    <3>1. PICK list \in Seq(Edge) : list = f.edges[i]
      BY <1>2
    <3>2. \A n \in DOMAIN list : list[n].target # t
      BY <2>3, <3>1 DEF Linked
    <3>3. Count(list, t) = 0
      BY <3>2, CountIs
    <3>4. rev[t] = f.rev[t] /\ f.rev[t][i] = 0
      BY <1>2, <2>3, <3>1, <3>3
    <3>5. QED
      BY <1>2, <2>3, <3>4
  <2>4. QED
    BY <2>1, <2>2, <2>3
<1>6. DOMAIN edges = Ids /\ DOMAIN rev = Ids /\ edges \in [Ids -> Seq(Edge)] /\ rev \in [Ids -> [Ids -> Nat]]
  BY <1>4, <1>5
<1>7. \A j \in Ids : j # i /\ j \notin sources => edges[j] = f.edges[j]
  OBVIOUS
<1> HIDE DEF edges, rev, sources
<1>8. ASSUME NEW s \in Ids, NEW t \in Ids
      PROVE  /\ rev[t][s] = Count(edges[s], t)
             /\ rev[t][s] > 0 => s # t /\ {s, t} \subseteq DOMAIN f.nodes \ {i}
  <2>1. CASE s = i \/ t = i
    <3>1. rev[t][s] = 0 /\ Count(edges[s], t) = 0
      BY <1>2, <1>4, <1>5, <2>1
    <3>2. ~ (rev[t][s] > 0)
      BY <3>1
    <3>3. QED
      BY <3>1, <3>2
  <2>2. CASE s # i /\ t # i
    <3>1. rev[t][s] = f.rev[t][s] /\ Count(edges[s], t) = f.rev[t][s]
      BY <1>4, <1>5, <2>2
    <3>2. f.rev[t][s] > 0 => s # t /\ {s, t} \subseteq DOMAIN f.nodes
      BY DEF Mirrored
    <3>3. QED
      BY <2>2, <3>1, <3>2
  <2>3. QED
    BY <2>1, <2>2
<1>9. DOMAIN h.nodes = DOMAIN f.nodes \ {i} /\ \A j \in DOMAIN h.nodes : h.nodes[j] = f.nodes[j]
  BY <1>1 DEF Without
<1>10. Whole(h)
  BY <1>1, <1>9 DEF Whole
<1>11. Mirrored(h)
  BY <1>1, <1>2, <1>6, <1>8, <1>9 DEF Mirrored
<1>12. Synced(f) => \A j \in DOMAIN h.nodes : j \notin sources => h.nodes[j].context = h.edges[j]
  BY <1>1, <1>2, <1>7, <1>9 DEF Synced
<1> DEFINE g == SyncContext(h, sources)
<1>13. /\ SameGraph(h, g)
       /\ \A j \in DOMAIN h.nodes : g.nodes[j].context = IF j \in sources THEN h.edges[j]
                                                         ELSE h.nodes[j].context
  BY <1>10, SyncMirrors
<1> HIDE DEF g
<1>14. Mirrored(g) /\ (Synced(f) => Synced(g))
  BY <1>11, <1>12, <1>13, SameIsMirrored DEF Synced, SameGraph
<1>15. QED
  BY <1>1, <1>14 DEF g

\* What from_persisted makes of a file that a mirrored fabric was saved to: no edge
\* is dropped.
LEMMA ReloadMirrors ==
  ASSUME NEW f, Whole(f), Mirrored(f), NEW first \in Orders(f)
  PROVE  LET g == Restored(Save(f, first)) IN
         /\ SameGraph(f, g) /\ Mirrored(g) /\ Synced(g) /\ g.clock = f.clock
         /\ DOMAIN g.nodes = DOMAIN f.nodes
         /\ \A i \in DOMAIN f.nodes :
              g.nodes[i] = [IntoNode(FromNode(f.nodes[i])) EXCEPT !.context = f.edges[i]]
<1> DEFINE saved == Save(f, first)
           present == DOMAIN saved.nodes
           edges == [a \in Ids |-> IF a \in present
                       THEN Retain(saved.edges[a], present) ELSE <<>>]
           rev == [b \in Ids |-> [a \in Ids |->
                               Cardinality({n \in DOMAIN edges[a] : edges[a][n].target = b})]]
           h == [nodes |-> [i \in DOMAIN saved.nodes |-> IntoNode(saved.nodes[i])],
                    index |-> saved.first,
                    edges |-> edges,
                    rev |-> [b \in Ids |-> [a \in Ids |->
                               Cardinality({n \in DOMAIN edges[a] : edges[a][n].target = b})]],
                    clock |-> saved.clock]
           g == Restored(saved)
<1>1. g = SyncContext(h, DOMAIN saved.nodes)
  BY DEF Restored, WithEdges
<1>2. /\ h.nodes = [i \in DOMAIN saved.nodes |-> IntoNode(saved.nodes[i])]
      /\ h.edges = edges /\ h.rev = rev /\ h.clock = saved.clock
  OBVIOUS
<1>3. /\ saved.edges = f.edges /\ saved.clock = f.clock
      /\ saved.nodes = [i \in DOMAIN f.nodes |-> FromNode(f.nodes[i])]
  BY DEF Save
<1>4. g.nodes = [i \in DOMAIN h.nodes |->
                   IF i \in DOMAIN saved.nodes THEN [h.nodes[i] EXCEPT !.context = h.edges[i]]
                   ELSE h.nodes[i]]
      /\ g.edges = h.edges /\ g.rev = h.rev /\ g.clock = h.clock
  BY <1>1 DEF SyncContext
<1> HIDE DEF h, saved, g
<1>5. present = DOMAIN f.nodes
  BY <1>3
<1>6. ASSUME NEW a \in Ids
      PROVE  edges[a] = f.edges[a]
  <2>1. CASE a \in present
    <3>1. PICK list \in Seq(Edge) : list = f.edges[a]
      BY DEF Mirrored
    <3>2. \A n \in DOMAIN list : list[n].target \in present
      BY <1>5, <3>1, EdgesEnd
    <3>3. Retain(list, present) = list
      BY <3>2, RetainKeeps
    <3>4. QED
      BY <1>3, <2>1, <3>1, <3>3
  <2>2. CASE a \notin present
    BY <1>5, <2>2, NoNodeNoEdges
  <2>3. QED
    BY <2>1, <2>2
<1>7. edges = f.edges
  <2>1. f.edges \in [Ids -> Seq(Edge)] /\ DOMAIN edges = Ids
    BY DEF Mirrored
  <2>2. QED
    BY <1>6, <2>1
<1>8. rev = f.rev
  <2>1. ASSUME NEW b \in Ids, NEW a \in Ids
        PROVE  rev[b][a] = f.rev[b][a]
    <3>1. rev[b][a] = Cardinality({n \in DOMAIN edges[a] : edges[a][n].target = b})
      OBVIOUS
    <3>2. edges[a] = f.edges[a]
      BY <1>6
    <3> HIDE DEF rev, edges
    <3>3. f.rev[b][a] = Count(f.edges[a], b)
      BY DEF Mirrored
    <3>4. QED
      BY <3>1, <3>2, <3>3 DEF Count
  <2>2. f.rev \in [Ids -> [Ids -> Nat]]
    BY DEF Mirrored
  <2>3. DOMAIN rev = Ids /\ \A b \in Ids : rev[b] = [a \in Ids |-> rev[b][a]]
    OBVIOUS
  <2> HIDE DEF rev, edges
  <2>4. \A b \in Ids : rev[b] = f.rev[b]
    BY <2>1, <2>2, <2>3
  <2>5. rev = [b \in Ids |-> rev[b]]
    BY DEF rev
  <2>6. QED
    BY <2>2, <2>4, <2>5
<1> HIDE DEF edges, rev
<1>9. DOMAIN g.nodes = DOMAIN f.nodes /\ SameGraph(f, g) /\ g.clock = f.clock
  BY <1>2, <1>3, <1>4, <1>7, <1>8 DEF SameGraph
<1>10. \A i \in DOMAIN f.nodes : g.nodes[i] = [IntoNode(FromNode(f.nodes[i])) EXCEPT !.context = f.edges[i]]
  BY <1>2, <1>3, <1>4, <1>7
<1>11. Mirrored(g)
  BY <1>9, SameIsMirrored
<1>12. ASSUME NEW i \in DOMAIN f.nodes
       PROVE  g.nodes[i].context = g.edges[i]
  <2>1. DOMAIN IntoNode(FromNode(f.nodes[i])) = Fields
    BY NodesSurvive
  <2>2. PICK m : m = IntoNode(FromNode(f.nodes[i]))
    OBVIOUS
  <2>3. g.nodes[i] = [m EXCEPT !.context = f.edges[i]] /\ "context" \in DOMAIN m
    BY <1>10, <2>1, <2>2 DEF Fields
  <2>4. QED
    BY <1>9, <2>3 DEF SameGraph
<1>13. Synced(g)
  BY <1>9, <1>12 DEF Synced
<1>14. QED
  BY <1>9, <1>10, <1>11, <1>13 DEF g, saved

-----------------------------------------------------------------------------
(***************************************************************************)
(* What the nodes say and what is noted about them, through every method.  *)
(***************************************************************************)
IsKnown(meta) == \A k \in DOMAIN meta : \E t \in DOMAIN Accepted : meta[k] = Parse(t)

\* A node's count of activations is one of its fabric's timestamps, or none.
Filled(f) ==
  /\ f.clock \in Nat
  /\ \A i \in DOMAIN f.nodes :
       /\ IsContent(f.nodes[i].content) /\ IsKnown(f.nodes[i].meta)
       /\ Activations(f.nodes[i].meta) \in 0..f.clock

\* Contents and metadata are the same.
SameNotes(f, g) ==
  /\ DOMAIN g.nodes \subseteq DOMAIN f.nodes /\ g.clock = f.clock
  /\ \A i \in DOMAIN g.nodes :
       g.nodes[i].content = f.nodes[i].content /\ g.nodes[i].meta = f.nodes[i].meta

LEMMA SameIsFilled ==
  ASSUME NEW f, NEW g, Filled(f), SameNotes(f, g)
  PROVE  Filled(g)
BY DEF Filled, SameNotes

LEMMA SyncIsFilled ==
  ASSUME NEW f, IsShape(f), \A i \in DOMAIN f.nodes : DOMAIN f.nodes[i] = Fields, NEW ids
  PROVE  SameNotes(f, SyncContext(f, ids))
<1> DEFINE g == SyncContext(f, ids)
<1>1. /\ g.clock = f.clock
      /\ g.nodes = [i \in DOMAIN f.nodes |->
                     IF i \in ids THEN [f.nodes[i] EXCEPT !.context = f.edges[i]] ELSE f.nodes[i]]
  BY DEF IsShape, SyncContext
<1>2. ASSUME NEW i \in DOMAIN f.nodes
      PROVE  LET n == [f.nodes[i] EXCEPT !.context = f.edges[i]] IN
             n.content = f.nodes[i].content /\ n.meta = f.nodes[i].meta
  BY DEF Fields
<1> HIDE DEF g
<1>3. QED
  BY <1>1, <1>2 DEF SameNotes, g

LEMMA EdgesAreFilled ==
  ASSUME NEW f, Whole(f), NEW a, NEW b, NEW k
  PROVE  /\ SameNotes(f, AddEdge(f, a, b, k)) /\ SameNotes(f, RemoveEdgesBetween(f, a, b))
         /\ SameNotes(f, ModifyEdge(f, a, b))
<1>1. ASSUME NEW h, Whole(h), NEW e
      PROVE  SameNotes(h, AddEdge(h, a, b, e))
  <2> DEFINE g == [h EXCEPT !.edges[a] = Append(@, [target |-> b, kind |-> e]), !.rev[b][a] = @ + 1]
  <2>1. /\ g.nodes = h.nodes /\ g.clock = h.clock /\ IsShape(g) /\ AddEdge(h, a, b, e) = SyncContext(g, {a})
        /\ \A i \in DOMAIN g.nodes : DOMAIN g.nodes[i] = Fields
    BY <1>1 DEF Whole, IsShape, AddEdge
  <2> HIDE DEF g
  <2>2. QED
    BY <2>1, SyncIsFilled DEF SameNotes
<1>2. SameNotes(f, RemoveEdgesBetween(f, a, b))
  <2> DEFINE g == [f EXCEPT !.edges[a] = NotTo(@, b), !.rev[b][a] = 0]
  <2>1. /\ g.nodes = f.nodes /\ g.clock = f.clock /\ IsShape(g)
        /\ RemoveEdgesBetween(f, a, b) = (IF Linked(f, a, b) THEN SyncContext(g, {a}) ELSE f)
        /\ \A i \in DOMAIN g.nodes : DOMAIN g.nodes[i] = Fields
    BY DEF Whole, IsShape, RemoveEdgesBetween
  <2> HIDE DEF g
  <2>2. QED
    BY <2>1, SyncIsFilled DEF SameNotes
<1>3. PICK rest : rest = RemoveEdgesBetween(f, a, b)
  OBVIOUS
<1>4. Whole(rest) /\ SameNotes(f, rest)
  BY <1>2, <1>3, RemoveIsSame, SameIsWhole
<1>5. \E e : ModifyEdge(f, a, b) = AddEdge(rest, a, b, e)
  BY <1>3 DEF ModifyEdge
<1>6. SameNotes(f, ModifyEdge(f, a, b))
  BY <1>1, <1>4, <1>5 DEF SameNotes
<1>7. QED
  BY <1>1, <1>2, <1>6

LEMMA FadeIsFilled ==
  ASSUME NEW f, Whole(f), NEW i \in DOMAIN f.nodes
  PROVE  SameNotes(f, Fade(f, i))
<1> DEFINE sources == {s \in Ids : f.rev[i][s] > 0}
           g == [f EXCEPT !.nodes = Without(@, i),
                 !.index = Unindexed(@, f.nodes[i].signature, i),
                 !.edges = [s \in Ids |-> IF s = i THEN <<>>
                                          ELSE IF s \in sources THEN NotTo(@[s], i) ELSE @[s]],
                 !.rev = [t \in Ids |-> IF t = i THEN [s \in Ids |-> 0]
                                        ELSE IF Linked(f, i, t) THEN [@[t] EXCEPT ![i] = 0]
                                        ELSE @[t]]]
<1>1. /\ Fade(f, i) = SyncContext(g, sources)
      /\ IsShape(g) /\ g.nodes = Without(f.nodes, i) /\ g.clock = f.clock
  BY DEF Fade, Whole, IsShape
<1> HIDE DEF g, sources
<1>2. SameNotes(f, g) /\ \A j \in DOMAIN g.nodes : DOMAIN g.nodes[j] = Fields
  BY <1>1 DEF SameNotes, Without, Whole
<1>3. SameNotes(g, SyncContext(g, sources))
  BY <1>1, <1>2, SyncIsFilled
<1>4. QED
  BY <1>1, <1>2, <1>3 DEF SameNotes

LEMMA CreateIsFilled ==
  ASSUME NEW f, Whole(f), Filled(f), NEW i, NEW n, DOMAIN n = Fields \ {"ts"},
         IsContent(n.content), IsKnown(n.meta), Activations(n.meta) = 0
  PROVE  Filled(Create(f, i, n))
<1> DEFINE g == Create(f, i, n)
           x == Put(n, "ts", f.clock + 1)
<1>1. x.content = n.content /\ x.meta = n.meta
  BY DEF Fields, Put
<1>2. /\ g.clock = f.clock + 1 /\ f.clock \in Nat
      /\ g.nodes = [j \in DOMAIN f.nodes \cup {i} |-> IF j = i THEN x ELSE f.nodes[j]]
  BY DEF Whole, IsShape, Create, Put
<1> HIDE DEF g, x
<1>3. g.clock \in Nat /\ 0 \in 0..g.clock /\ \A m \in 0..f.clock : m \in 0..g.clock
  BY <1>2
<1>4. Filled(g)
  BY <1>1, <1>2, <1>3 DEF Filled
<1>5. QED
  BY <1>4 DEF g

LEMMA MutateIsFilled ==
  ASSUME NEW f, Whole(f), Filled(f), NEW i \in DOMAIN f.nodes, NEW c, IsContent(c)
  PROVE  Filled(Mutate(f, i, c))
<1> DEFINE g == Mutate(f, i, c)
<1>1. /\ g.clock = f.clock + 1 /\ f.clock \in Nat /\ DOMAIN g.nodes = DOMAIN f.nodes
      /\ g.nodes[i].content = c /\ g.nodes[i].meta = f.nodes[i].meta
      /\ \A j \in DOMAIN f.nodes \ {i} : g.nodes[j] = f.nodes[j]
  BY DEF Whole, IsShape, Mutate, Fields
<1> HIDE DEF g
<1>2. g.clock \in Nat /\ \A m \in 0..f.clock : m \in 0..g.clock
  BY <1>1
<1>3. Filled(g)
  BY <1>1, <1>2 DEF Filled
<1>4. QED
  BY <1>3 DEF g

\* A stamped count is read from its text, up to the largest that is displayed.
LEMMA StampIs ==
  ASSUME NEW meta, IsKnown(meta), Activations(meta) \in Nat, Activations(meta) + 1 <= MaxClock
  PROVE  IsKnown(StampActivation(meta)) /\ Activations(StampActivation(meta)) = Activations(meta) + 1
<1>1. PICK n \in Nat : n = Activations(meta) + 1
  OBVIOUS
<1>2. n \in 0..MaxClock
  BY <1>1, StoreAssumption
<1>3. ToString(n) \in DOMAIN Accepted /\ Parse(ToString(n)) = IntValue(n)
  BY <1>2, StoreAssumption
<1> DEFINE new == WithCount(meta, n)
<1>4. /\ DOMAIN new = DOMAIN meta \cup {"activation_count"}
      /\ new["activation_count"] = IntValue(n)
      /\ \A k \in DOMAIN meta : k # "activation_count" => new[k] = meta[k]
  BY DEF WithCount, Merged
<1> HIDE DEF new
<1>5. IsKnown(new)
  BY <1>3, <1>4 DEF IsKnown
<1>6. Activations(new) = n
  BY <1>4 DEF Activations, IntValue
<1>7. QED
  BY <1>1, <1>5, <1>6 DEF StampActivation, new

LEMMA TouchIsFilled ==
  ASSUME NEW f, Whole(f), Filled(f), NEW order, IsOrder(order), NEW stamped \in BOOLEAN,
         stamped => f.clock + Len(order) <= MaxClock
  PROVE  LET g == Touch(f, order, stamped) IN Filled(g) /\ g.clock = f.clock + Len(order)
<1> DEFINE turn(i) == CHOOSE n \in DOMAIN order : order[n] = i
           touched == {order[n] : n \in DOMAIN order}
           Noted(meta) == IF stamped THEN StampActivation(meta) ELSE meta
           new(i) == [f.nodes[i] EXCEPT !.meta = IF stamped THEN StampActivation(@) ELSE @, !.version = @ + 1,
                                        !.ts = f.clock + turn(i)]
           g == Touch(f, order, stamped)
<1>1. PICK len \in Nat : DOMAIN order = 1..len /\ Len(order) = len
  BY DEF IsOrder
<1>2. \A i \in DOMAIN f.nodes :
        new(i).content = f.nodes[i].content /\ new(i).meta = Noted(f.nodes[i].meta)
  BY DEF Whole, Fields
<1>3. /\ g.clock = f.clock + len /\ f.clock \in Nat
      /\ g.nodes = [i \in DOMAIN f.nodes |-> IF i \in touched THEN new(i) ELSE f.nodes[i]]
  BY <1>1 DEF Whole, IsShape, Touch
<1>4. \A i \in touched : len > 0
  BY <1>1
<1> HIDE DEF turn, new, g, touched
<1>5. g.clock \in Nat /\ \A m \in 0..f.clock : m \in 0..g.clock
  BY <1>3
<1>6. ASSUME NEW i \in DOMAIN f.nodes
      PROVE  /\ IsContent(g.nodes[i].content) /\ IsKnown(g.nodes[i].meta)
             /\ Activations(g.nodes[i].meta) \in 0..g.clock
  <2>1. PICK meta : meta = f.nodes[i].meta
    OBVIOUS
  <2>2. IsContent(f.nodes[i].content) /\ IsKnown(meta) /\ Activations(meta) \in 0..f.clock
    BY <2>1 DEF Filled
  <2>3. CASE i \in touched /\ stamped
    <3>1. PICK n \in 0..f.clock : n = Activations(meta)
      BY <2>2
    <3>2. n + 1 \in 0..g.clock /\ n + 1 <= MaxClock /\ n \in Nat
      <4>1. f.clock + len <= MaxClock /\ MaxClock \in Nat /\ len > 0
        BY <1>1, <1>4, <2>3, StoreAssumption
      <4>2. QED
        BY <1>1, <1>3, <3>1, <4>1
    <3>3. IsKnown(StampActivation(meta)) /\ Activations(StampActivation(meta)) = n + 1
      BY <2>2, <3>1, <3>2, StampIs
    <3>4. g.nodes[i].content = f.nodes[i].content /\ g.nodes[i].meta = StampActivation(meta)
      BY <1>2, <1>3, <2>1, <2>3
    <3>5. QED
      BY <2>2, <3>2, <3>3, <3>4
  <2>4. CASE ~ (i \in touched /\ stamped)
    <3>1. g.nodes[i].content = f.nodes[i].content /\ g.nodes[i].meta = meta
      BY <1>2, <1>3, <2>1, <2>4
    <3>2. QED
      BY <1>5, <2>2, <3>1
  <2>5. QED
    BY <2>3, <2>4
<1>7. DOMAIN g.nodes = DOMAIN f.nodes
  BY <1>3
<1>8. Filled(g)
  BY <1>5, <1>6, <1>7 DEF Filled
<1>9. QED
  BY <1>1, <1>3, <1>8 DEF g

\* The metadata a command gives to a node, the count 0 among them.
LEMMA CountedFromZero ==
  ASSUME NEW meta, IsKnown(meta)
  PROVE  IsKnown(WithCount(meta, 0)) /\ Activations(WithCount(meta, 0)) = 0
<1>1. 0 \in 0..MaxClock
  BY StoreAssumption
<1>2. ToString(0) \in DOMAIN Accepted /\ Parse(ToString(0)) = IntValue(0)
  BY <1>1, StoreAssumption
<1> DEFINE new == WithCount(meta, 0)
<1>3. /\ DOMAIN new = DOMAIN meta \cup {"activation_count"}
      /\ new["activation_count"] = IntValue(0)
      /\ \A k \in DOMAIN meta : k # "activation_count" => new[k] = meta[k]
  BY DEF WithCount, Merged
<1> HIDE DEF new
<1>4. IsKnown(new)
  BY <1>2, <1>3 DEF IsKnown
<1>5. Activations(new) = 0
  BY <1>3 DEF Activations, IntValue
<1>6. QED
  BY <1>4, <1>5 DEF new

LEMMA NatsHaveGreatest ==
  ASSUME NEW len \in Nat, NEW S \in SUBSET 1..len, S # {}
  PROVE  \E n \in S : \A m \in S : m <= n
<1> DEFINE T == {b \in Nat : \A m \in S : m <= b}
<1>1. T \in SUBSET Nat /\ len \in T
  OBVIOUS
<1>2. PICK b \in T : \A c \in T : b <= c
  BY <1>1, NatsHaveLeast
<1>3. CASE b \in S
  BY <1>3
<1>4. CASE b \notin S
  <2>1. \A m \in S : m <= b /\ m # b /\ m \in Nat \ {0}
    BY <1>4
  <2>2. b \in Nat /\ b # 0
    <3>1. PICK m \in S : TRUE
      OBVIOUS
    <3>2. b \in Nat /\ m <= b /\ m \in Nat \ {0}
      BY <2>1
    <3>3. QED
      BY <3>2
  <2>3. b - 1 \in Nat /\ \A m \in S : m <= b - 1
    BY <2>1, <2>2
  <2>4. b - 1 \in T /\ ~ (b <= b - 1)
    BY <2>2, <2>3
  <2>5. QED
    BY <1>2, <2>4
<1>5. QED
  BY <1>3, <1>4

\* ParseMeta reads the value of a key from one of the arguments.
LEMMA ArgsAreKnown ==
  ASSUME NEW args \in Metas
  PROVE  IsKnown(ParseMeta(args))
<1>1. args \in Seq([key : STRING, text : DOMAIN Accepted])
  BY StoreAssumption
<1>2. PICK len \in Nat : DOMAIN args = 1..len
  BY <1>1
<1> DEFINE IsLast(n, k) == args[n].key = k /\ \A m \in DOMAIN args : args[m].key = k => m <= n
           last(k) == CHOOSE n \in DOMAIN args : IsLast(n, k)
           keys == {args[n].key : n \in DOMAIN args}
<1>3. ASSUME NEW k \in keys
      PROVE  last(k) \in DOMAIN args
  <2> DEFINE S == {n \in DOMAIN args : args[n].key = k}
  <2>1. S \in SUBSET 1..len /\ S # {}
    BY <1>2
  <2>2. PICK n \in S : \A m \in S : m <= n
    BY <2>1, NatsHaveGreatest
  <2>3. n \in DOMAIN args /\ IsLast(n, k)
    BY <2>2
  <2>4. QED
    BY <2>3
<1>4. ParseMeta(args) = [k \in keys |-> Parse(args[last(k)].text)]
  BY DEF ParseMeta
<1> HIDE DEF last, keys
<1>5. ASSUME NEW n \in DOMAIN args
      PROVE  args[n].text \in DOMAIN Accepted
  <2>1. PICK Arg : Arg = [key : STRING, text : DOMAIN Accepted]
    OBVIOUS
  <2>2. PICK list \in Seq(Arg) : list = args
    BY <1>1, <2>1
  <2>3. list[n] \in Arg
    BY <2>2
  <2>4. PICK arg \in [key : STRING, text : DOMAIN Accepted] : arg = args[n]
    BY <2>1, <2>2, <2>3
  <2>5. QED
    BY <2>4
<1>6. QED
  BY <1>3, <1>4, <1>5 DEF IsKnown


\* What the file keeps of a node, which is all but its context.
LEMMA NodesReturn ==
  ASSUME NEW n, IsContent(n.content), IsSigned(n)
  PROVE  LET m == IntoNode(FromNode(n)) IN
         /\ DOMAIN m = Fields /\ m.content = n.content /\ m.signature = n.signature
         /\ m.meta = n.meta /\ m.version = n.version /\ m.ts = n.ts
<1> DEFINE entry == FromNode(n)
           old == n.content.constraints
           constraints == [k \in DOMAIN entry.constraints |-> ToConstraint(entry.constraints[k])]
           content == [want |-> entry.want, constraints |-> constraints,
                       resolution |-> ToTarget(entry.resolution)]
           bare == [Fresh(content) EXCEPT !.meta = entry.metadata, !.version = entry.version]
           m == IntoNode(entry)
<1>1. /\ entry.want = n.content.want /\ entry.resolution = FromTarget(n.content.resolution)
      /\ entry.constraints = [k \in DOMAIN old |-> FromConstraint(old[k])] /\ entry.lamport = n.ts
      /\ entry.metadata = n.meta /\ entry.version = n.version
  BY DEF FromNode
<1>2. m = Put(bare, "ts", entry.lamport)
  BY DEF IntoNode
<1>3. constraints = [k \in DOMAIN old |-> ToConstraint(FromConstraint(old[k]))]
  BY <1>1
<1> HIDE DEF entry, constraints
<1>4. constraints = old
  <2>1. old \in Seq(Constraint)
    BY DEF IsContent
  <2>2. ASSUME NEW k \in DOMAIN old
        PROVE  ToConstraint(FromConstraint(old[k])) = old[k]
    <3>1. PICK c \in Constraint : c = old[k]
      BY <2>1
    <3>2. ToConstraint(FromConstraint(c)) =
            [semantic |-> c.semantic, soft |-> c.soft, verified |-> c.verified, violated |-> c.violated]
      BY DEF ToConstraint, FromConstraint
    <3>3. QED
      BY <3>1, <3>2 DEF Constraint
  <2>3. PICK list \in Seq(Constraint) : list = old
    BY <2>1
  <2>4. list = [k \in DOMAIN list |-> list[k]]
    OBVIOUS
  <2>5. QED
    BY <1>3, <2>2, <2>3, <2>4
<1>5. ToTarget(entry.resolution) = n.content.resolution
  <2>1. PICK r \in [state : States, text : Text] : r = n.content.resolution
    BY DEF IsContent
  <2>2. r.state = "unresolved" => r.text = <<>>
    BY <2>1 DEF IsContent
  <2>3. ToTarget(FromTarget(r)) = [state |-> r.state, text |-> r.text]
    <3>1. CASE r.state = "unresolved"
      BY <2>2, <3>1 DEF ToTarget, FromTarget
    <3>2. CASE r.state # "unresolved"
      BY <3>2 DEF ToTarget, FromTarget
    <3>3. QED
      BY <3>1, <3>2
  <2>4. QED
    BY <1>1, <2>1, <2>3
<1>6. content = n.content
  <2>1. PICK c \in [want : Text, constraints : Seq(Constraint), resolution : [state : States, text : Text]] :
          c = n.content
    BY DEF IsContent
  <2>2. content = [want |-> c.want, constraints |-> c.constraints, resolution |-> c.resolution]
    BY <1>1, <1>4, <1>5, <2>1
  <2>3. QED
    BY <2>1, <2>2
<1>7. /\ DOMAIN bare = Fields \ {"ts"} /\ bare.content = content /\ bare.signature = SigBytes(content)
      /\ bare.meta = n.meta /\ bare.version = n.version
  BY <1>1 DEF Fresh, Fields
<1> HIDE DEF bare, content
<1>8. /\ DOMAIN m = Fields /\ m.content = content /\ m.signature = SigBytes(content) /\ m.ts = n.ts
      /\ m.meta = n.meta /\ m.version = n.version
  BY <1>1, <1>2, <1>7 DEF Put, Fields
<1> HIDE DEF m
<1>9. QED
  BY <1>6, <1>8 DEF m, entry, IsSigned

\* Loading what was saved gives back the fabric, but for its index.
LEMMA ReloadReturns ==
  ASSUME NEW f, Whole(f), Mirrored(f), Filled(f), NEW first \in Orders(f)
  PROVE  LET g == Restored(Save(f, first)) IN
         /\ SameGraph(f, g) /\ Mirrored(g) /\ Synced(g) /\ Filled(g) /\ g.clock = f.clock
         /\ \A i \in DOMAIN f.nodes :
              [g.nodes[i] EXCEPT !.context = <<>>] = [f.nodes[i] EXCEPT !.context = <<>>]
<1> DEFINE g == Restored(Save(f, first))
<1>1. /\ SameGraph(f, g) /\ Mirrored(g) /\ Synced(g) /\ g.clock = f.clock
      /\ DOMAIN g.nodes = DOMAIN f.nodes
      /\ \A i \in DOMAIN f.nodes :
           g.nodes[i] = [IntoNode(FromNode(f.nodes[i])) EXCEPT !.context = f.edges[i]]
  BY ReloadMirrors
<1> HIDE DEF g
<1>2. ASSUME NEW i \in DOMAIN f.nodes
      PROVE  /\ DOMAIN g.nodes[i] = Fields
             /\ \A k \in Fields \ {"context"} : g.nodes[i][k] = f.nodes[i][k]
  <2>1. PICK n : n = f.nodes[i]
    OBVIOUS
  <2>2. PICK m : m = IntoNode(FromNode(n))
    OBVIOUS
  <2>3. IsContent(n.content) /\ IsSigned(n)
    BY <2>1 DEF Filled, Whole
  <2>4. /\ DOMAIN m = Fields /\ m.content = n.content /\ m.signature = n.signature
        /\ m.meta = n.meta /\ m.version = n.version /\ m.ts = n.ts
    BY <2>2, <2>3, NodesReturn
  <2>5. g.nodes[i] = [m EXCEPT !.context = f.edges[i]]
    BY <1>1, <2>1, <2>2
  <2>6. DOMAIN g.nodes[i] = Fields /\ \A k \in Fields \ {"context"} : g.nodes[i][k] = m[k]
    BY <2>4, <2>5
  <2>7. \A k \in Fields \ {"context"} : m[k] = n[k]
    BY <2>4 DEF Fields
  <2>8. QED
    BY <2>1, <2>6, <2>7
<1>3. SameNotes(f, g)
  BY <1>1, <1>2 DEF SameNotes, Fields
<1>4. Filled(g)
  BY <1>3, SameIsFilled
<1>5. ASSUME NEW i \in DOMAIN f.nodes
      PROVE  [g.nodes[i] EXCEPT !.context = <<>>] = [f.nodes[i] EXCEPT !.context = <<>>]
  <2>1. PICK m, n : m = g.nodes[i] /\ n = f.nodes[i]
    OBVIOUS
  <2>2. DOMAIN m = Fields /\ DOMAIN n = Fields /\ \A k \in Fields \ {"context"} : m[k] = n[k]
    BY <1>2, <2>1 DEF Whole
  <2>3. [m EXCEPT !.context = <<>>] = [n EXCEPT !.context = <<>>]
    BY <2>2
  <2>4. QED
    BY <2>1, <2>3
<1>6. QED
  BY <1>1, <1>4, <1>5 DEF g

-----------------------------------------------------------------------------
(***************************************************************************)
(* The invariant of the graphs and the notes: every fabric in memory is    *)
(* mirrored and filled, and synced unless a copy brought its own context;  *)
(* so is what loading the file gives.                                      *)
(***************************************************************************)
Agreed(f) == Whole(f) /\ Mirrored(f) /\ Filled(f)

FileAgreed ==
  file.state = "valid" => LET f == Restored(file.saved) IN Mirrored(f) /\ Synced(f) /\ Filled(f)

Graphs ==
  /\ \A p \in Processes :
       proc[p] = Down \/ (/\ Mirrored(proc[p].f) /\ Filled(proc[p].f)
                          /\ Synced(proc[p].f) \/ Replaced(p))
  /\ FileAgreed

LEMMA PlaceAgreed ==
  ASSUME Owners, Graphs, NEW p \in Processes, NEW x,
         proc' = [proc EXCEPT ![p] = x],
         x = Down \/ (Mirrored(x.f) /\ Filled(x.f) /\ (Synced(x.f) \/ Replaced(p)')),
         p = Host \/ UNCHANGED overwritten, FileAgreed'
  PROVE  Graphs'
<1>1. proc'[p] = x /\ \A q \in Processes : q # p => proc'[q] = proc[q]
  BY DEF Owners
<1>2. ASSUME NEW q \in Processes
      PROVE  (proc[q] = Down \/ (/\ Mirrored(proc[q].f) /\ Filled(proc[q].f)
                                 /\ Synced(proc[q].f) \/ Replaced(q)))'
  <2>1. CASE q = p
    BY <1>1, <2>1 DEF Down
  <2>2. CASE q # p
    <3>1. Replaced(q) => Replaced(q)'
      BY <2>2 DEF Replaced
    <3>2. QED
      BY <1>1, <2>2, <3>1 DEF Graphs, Down
  <2>3. QED
    BY <2>1, <2>2
<1>3. QED
  BY <1>2 DEF Graphs

LEMMA EmptyIsAgreed == Agreed(Empty) /\ Synced(Empty)
<1>1. DOMAIN Empty.nodes = {} /\ Empty.clock = 0
  BY DEF Empty
<1>2. /\ Empty.edges = [i \in Ids |-> <<>>] /\ Empty.rev = [i \in Ids |-> [j \in Ids |-> 0]]
      /\ <<>> \in Seq(Edge) /\ DOMAIN <<>> = {}
  BY DEF Empty
<1>3. \A t : Count(<<>>, t) = 0
  <2>1. \A t : Count(<<>>, t) = 0 <=> \A n \in DOMAIN <<>> : <<>>[n].target # t
    BY <1>2, CountIs
  <2>2. QED
    BY <1>2, <2>1
<1>4. /\ \A s, t \in Ids : Empty.rev[t][s] = 0 /\ Empty.edges[s] = <<>> /\ ~ (0 > 0)
      /\ Empty.edges \in [Ids -> Seq(Edge)] /\ Empty.rev \in [Ids -> [Ids -> Nat]]
  BY <1>2
<1>5. Mirrored(Empty)
  BY <1>1, <1>3, <1>4 DEF Mirrored
<1>6. Filled(Empty) /\ Synced(Empty)
  BY <1>1 DEF Filled, Synced
<1>7. QED
  BY <1>5, <1>6, EmptyIsWhole DEF Agreed

LEMMA LoadedIsAgreed ==
  ASSUME Owners, Graphs, NEW l \in Loads
  PROVE  Agreed(l.f) /\ Synced(l.f) /\ DOMAIN l.f.nodes \subseteq 1..used
BY EmptyIsAgreed, LoadedIsOwned DEF Graphs, FileAgreed, Loads, Agreed

\* A new node joins: one that is not there yet keeps the fabric synced.
LEMMA JoinIsAgreed ==
  ASSUME NEW f, Agreed(f), NEW i \in Ids, NEW n, DOMAIN n = Fields \ {"ts"}, IsSigned(n),
         IsContent(n.content), IsKnown(n.meta), Activations(n.meta) = 0
  PROVE  /\ Agreed(Create(f, i, n))
         /\ Synced(f) /\ i \notin DOMAIN f.nodes /\ n.context = <<>> => Synced(Create(f, i, n))
BY CreateIsWhole, CreateMirrors, CreateIsFilled DEF Agreed

LEMMA SeededIsAgreed ==
  ASSUME NEW f, Agreed(f), Synced(f), NEW i \in Ids, i \notin DOMAIN f.nodes
  PROVE  Agreed(Seeded(f, i)) /\ Synced(Seeded(f, i))
<1> DEFINE n == [Fresh(Systemic) EXCEPT !.meta = Innate]
<1>1. /\ DOMAIN n = Fields \ {"ts"} /\ IsSigned(n)
      /\ n.content = Systemic /\ n.meta = Innate /\ n.context = <<>>
  BY DEF Fresh, Fields, IsSigned
<1>2. Seeded(f, i) = IF HasSystemic(f) THEN f ELSE Create(f, i, n)
  BY DEF Seeded
<1> HIDE DEF n
<1>3. IsContent(Systemic)
  BY StoreAssumption
<1>4. IsKnown([k \in {"kind"} |-> Parse("systemic")])
  BY StoreAssumption DEF IsKnown
<1>5. IsKnown(Innate) /\ Activations(Innate) = 0
  BY <1>4, CountedFromZero DEF Innate
<1>6. Agreed(Create(f, i, n)) /\ Synced(Create(f, i, n))
  BY <1>1, <1>3, <1>5, JoinIsAgreed
<1>7. QED
  BY <1>2, <1>6

LEMMA AddedIsAgreed ==
  ASSUME NEW f, Agreed(f), Synced(f), NEW i \in Ids, i \notin DOMAIN f.nodes,
         NEW want \in Wants, NEW args \in Metas
  PROVE  LET g == Create(f, i, Added(want, args)) IN Agreed(g) /\ Synced(g)
<1> DEFINE n == Added(want, args)
<1>1. /\ DOMAIN n = Fields \ {"ts"} /\ IsSigned(n) /\ n.content = Wanting(want)
      /\ n.meta = WithCount(ParseMeta(args), 0) /\ n.context = <<>>
  BY DEF Added, Fresh, Fields, IsSigned
<1> HIDE DEF n
<1>2. IsContent(Wanting(want))
  <2>1. PICK c \in Contents : want = c.want
    BY DEF Wants
  <2>2. PICK d \in [want : Text, constraints : Seq(Constraint), resolution : [state : States, text : Text]] :
          d = c
    BY StoreAssumption DEF IsContent
  <2>3. want \in Text
    BY <2>1, <2>2
  <2>4. <<>> \in Seq(Constraint) /\ <<>> \in Text /\ "unresolved" \in States
    BY DEF Text, States
  <2>5. Unresolved \in [state : States, text : Text] /\ Unresolved.text = <<>>
    BY <2>4 DEF Unresolved
  <2>6. QED
    BY <2>3, <2>4, <2>5 DEF IsContent, Wanting
<1>3. IsKnown(n.meta) /\ Activations(n.meta) = 0
  BY <1>1, ArgsAreKnown, CountedFromZero
<1>4. Agreed(Create(f, i, n)) /\ Synced(Create(f, i, n))
  BY <1>1, <1>2, <1>3, JoinIsAgreed
<1>5. QED
  BY <1>4 DEF n

LEMMA SearchedIsAgreed ==
  ASSUME NEW f, Agreed(f), Synced(f), NEW all, IsOrder(all), NEW found, IsOrder(found),
         Touch(Touch(f, all, FALSE), found, TRUE).clock <= MaxClock
  PROVE  LET g == Touch(Touch(f, all, FALSE), found, TRUE) IN Agreed(g) /\ Synced(g)
<1>1. PICK g : g = Touch(f, all, FALSE)
  OBVIOUS
<1>2. PICK h : h = Touch(g, found, TRUE)
  OBVIOUS
<1>3. Whole(g) /\ Mirrored(g) /\ Synced(g) /\ Filled(g)
  BY <1>1, TouchIsWhole, TouchMirrors, TouchIsFilled DEF Agreed
<1>4. h.clock = g.clock + Len(found)
  <2>1. PICK len \in Nat : DOMAIN found = 1..len /\ Len(found) = len
    BY DEF IsOrder
  <2>2. QED
    BY <1>2, <1>3 DEF Touch, Whole, IsShape
<1>5. g.clock + Len(found) <= MaxClock
  BY <1>1, <1>2, <1>4
<1>6. Whole(h) /\ Mirrored(h) /\ Synced(h) /\ Filled(h)
  BY <1>2, <1>3, <1>5, TouchIsWhole, TouchMirrors, TouchIsFilled
<1>7. QED
  BY <1>1, <1>2, <1>6 DEF Agreed

LEMMA OpenAgreed ==
  ASSUME Owners, Graphs, Open
  PROVE  Graphs'
<1>0. PICK l \in Loads : proc' = [proc EXCEPT ![Host] = Up(l.f, l.base)]
  BY OpenLoads
<1>1. /\ Host \in Processes /\ proc' = [proc EXCEPT ![Host] = Up(l.f, l.base)] /\ UNCHANGED file
  BY <1>0 DEF Open, Processes
<1>2. PICK x : x = Up(l.f, l.base)
  OBVIOUS
<1>3. Mirrored(x.f) /\ Filled(x.f) /\ Synced(x.f)
  BY <1>2, LoadedIsAgreed DEF Up, Agreed
<1>4. FileAgreed'
  BY <1>1 DEF Graphs, FileAgreed
<1>5. QED
  BY <1>1, <1>2, <1>3, <1>4, PlaceAgreed

LEMMA BeginAgreed ==
  ASSUME Owners, Graphs, NEW p \in Commands, NEW f, NEW base, NEW ids, Begin(p, f, base, ids),
         Agreed(f), Synced(f)
  PROVE  Graphs'
<1>1. /\ p \in Processes /\ proc' = [proc EXCEPT ![p] = Up(f, base)] /\ UNCHANGED <<file, overwritten>>
  BY DEF Begin, Processes
<1>2. PICK x : x = Up(f, base)
  OBVIOUS
<1>3. Mirrored(x.f) /\ Filled(x.f) /\ Synced(x.f)
  BY <1>2 DEF Up, Agreed
<1>4. FileAgreed'
  BY <1>1 DEF Graphs, FileAgreed
<1>5. QED
  BY <1>1, <1>2, <1>3, <1>4, PlaceAgreed

LEMMA CommandAgreed ==
  ASSUME Owners, Graphs, NEW p \in Commands, Command(p)
  PROVE  Graphs'
<1>0. PICK l \in Loads :
        \/ CmdInit(p, l)
        \/ \E want \in Wants, args \in Metas : CmdAdd(p, l, want, args)
        \/ \E query \in BOOLEAN, clause \in Clauses : CmdSearch(p, l, query, clause)
  BY DEF Command
<1>1. /\ Agreed(l.f) /\ Synced(l.f) /\ DOMAIN l.f.nodes \subseteq 1..used /\ used \in Nat
      /\ Owned(l.f)
  BY LoadedIsAgreed, LoadedIsOwned DEF Owners
<1>2. NewId \notin DOMAIN l.f.nodes /\ NewId = used + 1 /\ NewId + 1 = used + 2
  BY <1>1 DEF NewId
<1>3. ASSUME NEW g, NEW ids \in {1, 2}, Begin(p, g, l.base, ids)
      PROVE  NewId \in Ids /\ (ids = 2 => NewId + 1 \in Ids)
  <2>1. \A n \in 1..ids : used + n \in Ids
    BY <1>3 DEF Begin
  <2>2. 1 \in 1..ids /\ (ids = 2 => 2 \in 1..ids)
    OBVIOUS
  <2>3. QED
    BY <1>2, <2>1, <2>2
<1>4. PICK f : f = Seeded(l.f, NewId)
  OBVIOUS
<1>5. NewId \in Ids => Agreed(f) /\ Synced(f)
  BY <1>1, <1>2, <1>4, SeededIsAgreed
<1>6. CASE CmdInit(p, l)
  <2>1. Begin(p, f, l.base, 1)
    BY <1>4, <1>6 DEF CmdInit
  <2>2. QED
    BY <1>3, <1>5, <2>1, BeginAgreed
<1>7. CASE \E want \in Wants, args \in Metas : CmdAdd(p, l, want, args)
  <2>1. PICK want \in Wants, args \in Metas : CmdAdd(p, l, want, args)
    BY <1>7
  <2>2. CASE HasSystemic(l.f)
    <3>1. PICK g : g = Create(l.f, NewId, Added(want, args))
      OBVIOUS
    <3>2. Begin(p, g, l.base, 1)
      BY <2>1, <2>2, <3>1 DEF CmdAdd
    <3>3. NewId \in Ids
      BY <1>3, <3>2
    <3>4. Agreed(g) /\ Synced(g)
      BY <1>1, <1>2, <3>1, <3>3, AddedIsAgreed
    <3>5. QED
      BY <3>2, <3>4, BeginAgreed
  <2>3. CASE ~ HasSystemic(l.f)
    <3>1. PICK g : g = Create(f, NewId + 1, Added(want, args))
      OBVIOUS
    <3>2. Begin(p, g, l.base, 2)
      BY <1>4, <2>1, <2>3, <3>1 DEF CmdAdd
    <3>3. NewId \in Ids /\ NewId + 1 \in Ids
      BY <1>3, <3>2
    <3>4. DOMAIN f.nodes \subseteq DOMAIN l.f.nodes \cup {NewId}
      BY <1>1, <1>2, <1>4, SeededIsOwned DEF Agreed
    <3>5. NewId + 1 \notin DOMAIN f.nodes
      BY <1>1, <1>2, <3>4
    <3>6. Agreed(f) /\ Synced(f)
      BY <1>5, <3>3
    <3>7. Agreed(g) /\ Synced(g)
      BY <3>1, <3>3, <3>5, <3>6, AddedIsAgreed
    <3>8. QED
      BY <3>2, <3>7, BeginAgreed
  <2>4. QED
    BY <2>2, <2>3
<1>8. CASE \E query \in BOOLEAN, clause \in Clauses : CmdSearch(p, l, query, clause)
  <2>1. PICK query \in BOOLEAN, clause \in Clauses : CmdSearch(p, l, query, clause)
    BY <1>8
  <2>2. IsFiniteSet(DOMAIN l.f.nodes)
    <3>1. IsFiniteSet(1..used)
      BY <1>1, FS_Interval
    <3>2. QED
      BY <1>1, <3>1, FS_Subset
  <2>3. IsFiniteSet(Matching(l.f.nodes, clause))
    BY <2>2, FS_Subset DEF Matching
  <2>4. PICK all \in IF query THEN SetToSeqs(DOMAIN l.f.nodes) ELSE {<<>>},
             found \in SetToAllKPermutations(Matching(l.f.nodes, clause)) :
          Begin(p, Touch(Touch(l.f, all, FALSE), found, TRUE), l.base, 0)
    BY <2>1 DEF CmdSearch
  <2>5. IsOrder(all) /\ IsOrder(found)
    <3>1. IsOrder(<<>>)
      BY DEF IsOrder
    <3>2. QED
      BY <2>2, <2>3, <2>4, <3>1, OrdersOfSets
  <2>6. Touch(Touch(l.f, all, FALSE), found, TRUE).clock <= MaxClock
    BY <2>4 DEF Begin
  <2>7. LET g == Touch(Touch(l.f, all, FALSE), found, TRUE) IN Agreed(g) /\ Synced(g)
    BY <1>1, <2>5, <2>6, SearchedIsAgreed
  <2>8. PICK g : Agreed(g) /\ Synced(g) /\ Begin(p, g, l.base, 0)
    BY <2>4, <2>7
  <2>9. QED
    BY <2>8, BeginAgreed
<1>9. QED
  BY <1>0, <1>6, <1>7, <1>8

\* A step of the host that leaves its fabric agreed, and synced unless a copy is to blame.
LEMMA WorkAgreed ==
  ASSUME Owners, Graphs, Works, NEW f, To(f), Mirrored(f), Filled(f), Synced(f) \/ overwritten'
  PROVE  Graphs'
<1>1. Host \in Processes /\ IsSound(proc[Host])
  BY DEF Owners, Works, Down, Processes
<1>2. PICK x : x = [proc[Host] EXCEPT !.f = f, !.gone = @ \cup (DOMAIN F.nodes \ DOMAIN f.nodes)]
  OBVIOUS
<1>3. x.f = f
  BY <1>1, <1>2 DEF IsSound
<1>4. proc' = [proc EXCEPT ![Host] = x] /\ UNCHANGED file
  BY <1>2 DEF To, F
<1>5. Mirrored(x.f) /\ Filled(x.f) /\ (Synced(x.f) \/ Replaced(Host)')
  BY <1>3 DEF Replaced
<1>6. FileAgreed'
  BY <1>4 DEF Graphs, FileAgreed
<1>7. QED
  BY <1>1, <1>4, <1>5, <1>6, PlaceAgreed

LEMMA HostAgreed ==
  ASSUME Owners, Graphs, HostStep
  PROVE  Graphs'
<1>1. CASE Open
  BY <1>1, OpenAgreed
<1>2. CASE ~ Open
  <2>1. Works
    BY <1>2 DEF HostStep, AddNode, AddCopy, MutateNode, FadeNode, LinkNodes, UnlinkNodes,
                ApplyModifyEdge, InferAndLearn
  <2>2. Agreed(F) /\ DOMAIN F.nodes \subseteq 1..used /\ (Synced(F) \/ overwritten) /\ used \in Nat
    BY <2>1 DEF Works, F, Owners, Graphs, IsSound, Down, Processes, Replaced, Agreed
  <2>3. ASSUME NEW f, To(f), UNCHANGED overwritten, Mirrored(f), Filled(f), Synced(F) => Synced(f)
        PROVE  Graphs'
    BY <2>1, <2>2, <2>3, WorkAgreed
  <2>4. CASE \E c \in Contents : AddNode(c)
    <3>1. PICK c \in Contents : AddNode(c)
      BY <2>4
    <3>2. PICK n : n = Fresh(c)
      OBVIOUS
    <3>3. PICK f : f = Create(F, NewId, n)
      OBVIOUS
    <3>4. /\ DOMAIN n = Fields \ {"ts"} /\ IsSigned(n) /\ n.content = c /\ n.context = <<>>
          /\ DOMAIN n.meta = {} /\ IsContent(c)
      BY <3>2, StoreAssumption DEF Fresh, Fields, IsSigned, NoMetadata
    <3>5. IsKnown(n.meta) /\ Activations(n.meta) = 0
      BY <3>4 DEF IsKnown, Activations
    <3>6. NewId \in Ids /\ NewId \notin DOMAIN F.nodes /\ To(f) /\ UNCHANGED overwritten
      BY <2>2, <3>1, <3>2, <3>3 DEF AddNode, NewId
    <3>7. Agreed(f) /\ (Synced(F) => Synced(f))
      BY <2>2, <3>3, <3>4, <3>5, <3>6, JoinIsAgreed
    <3>8. QED
      BY <2>3, <3>6, <3>7 DEF Agreed
  <2>5. CASE \E i \in Ids, c \in Contents : AddCopy(i, c)
    <3>1. PICK i \in Ids, c \in Contents : AddCopy(i, c)
      BY <2>5
    <3>2. PICK context : /\ To(Create(F, i, [Fresh(c) EXCEPT !.context = context]))
                         /\ overwritten' = (overwritten \/ i \in DOMAIN F.nodes \/ context # <<>>)
      BY <3>1 DEF AddCopy
    <3>3. PICK n : n = [Fresh(c) EXCEPT !.context = context]
      OBVIOUS
    <3>4. PICK f : f = Create(F, i, n)
      OBVIOUS
    <3>5. /\ DOMAIN n = Fields \ {"ts"} /\ IsSigned(n) /\ n.content = c /\ n.context = context
          /\ DOMAIN n.meta = {} /\ IsContent(c)
      BY <3>3, StoreAssumption DEF Fresh, Fields, IsSigned, NoMetadata
    <3>6. IsKnown(n.meta) /\ Activations(n.meta) = 0
      BY <3>5 DEF IsKnown, Activations
    <3>7. Agreed(f) /\ (Synced(F) /\ i \notin DOMAIN F.nodes /\ context = <<>> => Synced(f))
      BY <2>2, <3>4, <3>5, <3>6, JoinIsAgreed
    <3>8. To(f) /\ (Synced(f) \/ overwritten')
      BY <2>2, <3>2, <3>3, <3>4, <3>7
    <3>9. QED
      BY <2>1, <3>7, <3>8, WorkAgreed DEF Agreed
  <2>6. CASE \E i \in Ids, c \in Contents : MutateNode(i, c)
    <3>1. PICK i \in Ids, c \in Contents : MutateNode(i, c)
      BY <2>6
    <3>2. PICK f : f = Mutate(F, i, c)
      OBVIOUS
    <3>3. To(f) /\ UNCHANGED overwritten /\ i \in DOMAIN F.nodes /\ IsContent(c)
      BY <3>1, <3>2, StoreAssumption DEF MutateNode
    <3>4. Mirrored(f) /\ Filled(f) /\ (Synced(F) => Synced(f))
      BY <2>2, <3>2, <3>3, MutateMirrors, MutateIsFilled DEF Agreed
    <3>5. QED
      BY <2>3, <3>3, <3>4
  <2>7. CASE \E i \in Ids : FadeNode(i)
    <3>1. PICK i \in Ids : FadeNode(i)
      BY <2>7
    <3>2. PICK f : f = Fade(F, i)
      OBVIOUS
    <3>3. To(f) /\ UNCHANGED overwritten /\ i \in DOMAIN F.nodes
      BY <3>1, <3>2 DEF FadeNode
    <3>4. Mirrored(f) /\ Filled(f) /\ (Synced(F) => Synced(f))
      BY <2>2, <3>2, <3>3, FadeMirrors, FadeIsFilled, SameIsFilled DEF Agreed
    <3>5. QED
      BY <2>3, <3>3, <3>4
  <2>8. CASE \E a, b \in Ids, k \in Kinds : LinkNodes(a, b, k)
    <3>1. PICK a \in Ids, b \in Ids, k \in Kinds : LinkNodes(a, b, k)
      BY <2>8
    <3>2. PICK f : f = AddEdge(F, a, b, k)
      OBVIOUS
    <3>3. To(f) /\ UNCHANGED overwritten /\ a # b /\ a \in DOMAIN F.nodes /\ b \in DOMAIN F.nodes
      BY <3>1, <3>2 DEF LinkNodes, MayLink
    <3>4. Mirrored(f) /\ Filled(f) /\ (Synced(F) => Synced(f))
      BY <2>2, <3>2, <3>3, AddEdgeMirrors, EdgesAreFilled, SameIsFilled DEF Agreed
    <3>5. QED
      BY <2>3, <3>3, <3>4
  <2>9. CASE \E a, b \in Ids : InferAndLearn(a, b)
    <3>1. PICK a \in Ids, b \in Ids : InferAndLearn(a, b)
      BY <2>9
    <3>2. PICK f : f = AddEdge(F, a, b, RelatedTo)
      OBVIOUS
    <3>3. /\ To(f) /\ UNCHANGED overwritten /\ a # b /\ a \in DOMAIN F.nodes /\ b \in DOMAIN F.nodes
          /\ RelatedTo \in Kinds
      BY <3>1, <3>2, StoreAssumption DEF InferAndLearn, Neighbors
    <3>4. Mirrored(f) /\ Filled(f) /\ (Synced(F) => Synced(f))
      BY <2>2, <3>2, <3>3, AddEdgeMirrors, EdgesAreFilled, SameIsFilled DEF Agreed
    <3>5. QED
      BY <2>3, <3>3, <3>4
  <2>10. CASE \E a, b \in Ids : UnlinkNodes(a, b) \/ ApplyModifyEdge(a, b)
    <3>1. PICK a \in Ids, b \in Ids : UnlinkNodes(a, b) \/ ApplyModifyEdge(a, b)
      BY <2>10
    <3>2. PICK f : /\ f = RemoveEdgesBetween(F, a, b) \/ f = ModifyEdge(F, a, b)
                   /\ To(f) /\ UNCHANGED overwritten /\ Linked(F, a, b)
      BY <3>1 DEF UnlinkNodes, ApplyModifyEdge
    <3>3. Mirrored(f) /\ Filled(f) /\ (Synced(F) => Synced(f))
      BY <2>2, <3>2, RemoveMirrors, ModifyMirrors, EdgesAreFilled, SameIsFilled DEF Agreed
    <3>4. QED
      BY <2>3, <3>2, <3>3
  <2>11. QED
    BY <1>2, <2>4, <2>5, <2>6, <2>7, <2>8, <2>9, <2>10 DEF HostStep
<1>3. QED
  BY <1>1, <1>2

LEMMA SaveAgreed ==
  ASSUME Owners, Graphs, NEW p \in Processes, Truncate(p) \/ WriteFile(p) \/ Stop(p)
  PROVE  Graphs'
<1>1. UNCHANGED overwritten
  BY DEF Truncate, WriteFile, Stop
<1>2. ASSUME proc[p] # Down, NEW x, x.f = proc[p].f
      PROVE  Mirrored(x.f) /\ Filled(x.f) /\ (Synced(x.f) \/ Replaced(p)')
  BY <1>1, <1>2 DEF Graphs, Replaced
<1>3. CASE Truncate(p)
  <2>1. proc[p] # Down /\ FileAgreed'
    BY <1>3 DEF Truncate, Down, FileAgreed, Torn
  <2>2. PICK x : x = [proc[p] EXCEPT !.pc = "writing"]
    OBVIOUS
  <2>3. x.f = proc[p].f /\ proc' = [proc EXCEPT ![p] = x]
    BY <1>3, <2>1, <2>2 DEF Truncate, Owners, IsSound
  <2>4. QED
    BY <1>1, <1>2, <2>1, <2>3, PlaceAgreed
<1>4. CASE WriteFile(p)
  <2>1. /\ proc[p] # Down /\ Whole(proc[p].f) /\ Mirrored(proc[p].f) /\ Filled(proc[p].f)
        /\ DOMAIN proc[p] = {"pc", "f", "base", "gone"}
    BY <1>4 DEF WriteFile, Down, Owners, Graphs, IsSound
  <2>2. FileAgreed'
    <3>1. CASE file' = Torn
      BY <3>1 DEF FileAgreed, Torn
    <3>2. CASE file' # Torn
      <4>1. PICK first \in Orders(proc[p].f) :
              file' = [state |-> "valid", saved |-> Save(proc[p].f, first)]
        BY <1>4, <3>2 DEF WriteFile
      <4>2. PICK f : f = proc[p].f
        OBVIOUS
      <4>3. LET g == Restored(Save(f, first)) IN Mirrored(g) /\ Synced(g) /\ Filled(g)
        BY <2>1, <4>1, <4>2, ReloadReturns
      <4>4. file'.saved = Save(f, first)
        BY <4>1, <4>2
      <4>5. QED
        BY <4>3, <4>4 DEF FileAgreed
    <3>3. QED
      BY <3>1, <3>2
  <2>3. PICK x : x = AfterSave(p)
    OBVIOUS
  <2>4. x = Down \/ x.f = proc[p].f
    BY <2>1, <2>3 DEF AfterSave
  <2>5. proc' = [proc EXCEPT ![p] = x]
    BY <1>4, <2>3 DEF WriteFile
  <2>6. x = Down \/ (Mirrored(x.f) /\ Filled(x.f) /\ (Synced(x.f) \/ Replaced(p)'))
    BY <1>2, <2>1, <2>4
  <2>7. QED
    BY <1>1, <2>2, <2>5, <2>6, PlaceAgreed
<1>5. CASE Stop(p)
  <2>1. proc' = [proc EXCEPT ![p] = Down] /\ FileAgreed'
    BY <1>5 DEF Stop, Graphs, FileAgreed
  <2>2. PICK x : x = Down
    OBVIOUS
  <2>3. QED
    BY <1>1, <2>1, <2>2, PlaceAgreed
<1>6. QED
  BY <1>3, <1>4, <1>5

LEMMA GraphsAlways == Spec => []Graphs
<1>1. ASSUME Init
      PROVE  Graphs
  <2>1. file.state = "absent" /\ \A p \in Processes : proc[p] = Down
    BY <1>1 DEF Init, Absent
  <2>2. QED
    BY <2>1 DEF Graphs, FileAgreed
<1>2. ASSUME Owners, Graphs, [Next]_vars
      PROVE  Graphs'
  <2>1. CASE HostStep
    BY <1>2, <2>1, HostAgreed
  <2>2. CASE \E p \in Commands : Command(p)
    BY <1>2, <2>2, CommandAgreed
  <2>3. CASE \E p \in Processes : Truncate(p) \/ WriteFile(p) \/ Stop(p)
    BY <1>2, <2>3, SaveAgreed
  <2>4. CASE UNCHANGED vars
    BY <1>2, <2>4 DEF vars, Graphs, FileAgreed, Replaced, Down
  <2>5. QED
    BY <1>2, <2>1, <2>2, <2>3, <2>4 DEF Next
<1>3. Owners /\ Graphs /\ [Next]_vars => Graphs'
  BY <1>2
<1>4. QED
  BY <1>1, <1>3, OwnersAlways, PTL DEF Spec

\* The reverse index counts every edge, no edge dangles, and the context a node carries
\* is its edges unless a copy brought its own: through every method of the library, the
\* inference, the commands, saves and loads.
THEOREM EdgesAlwaysMirrored == Spec => []EdgesMirrored
<1>1. Graphs => EdgesMirrored
  BY DEF Graphs, Mirrored, Synced, Replaced, EdgesMirrored, Live
<1>2. QED
  BY <1>1, GraphsAlways, PTL

\* Saving a fabric whose numbers are finite, which is a file that load accepts, and
\* loading it gives back every node, its content, version,
\* metadata and timestamp, every edge and the clock, whichever of two nodes of one
\* signature comes first in the file.
THEOREM SavesRoundTrip == Spec => []RoundTrip
<1>1. ASSUME Owners, Graphs
      PROVE  RoundTrip
  <2>1. SUFFICES ASSUME NEW p \in Live, IsReadable(proc[p].f), NEW first \in Orders(proc[p].f)
                 PROVE  LET f == proc[p].f
                            g == Restored(Save(f, first)) IN
                        /\ DOMAIN g.nodes = DOMAIN f.nodes
                        /\ \A i \in DOMAIN f.nodes :
                             [g.nodes[i] EXCEPT !.context = <<>>] = [f.nodes[i] EXCEPT !.context = <<>>]
                        /\ <<g.edges, g.rev, g.clock>> = <<f.edges, f.rev, f.clock>>
    BY DEF RoundTrip
  <2>2. PICK f : f = proc[p].f
    OBVIOUS
  <2>3. Whole(f) /\ Mirrored(f) /\ Filled(f)
    BY <1>1, <2>2 DEF Owners, Graphs, IsSound, Live
  <2>4. first \in Orders(f)
    BY <2>1, <2>2
  <2>5. PICK g : g = Restored(Save(f, first))
    OBVIOUS
  <2>6. /\ SameGraph(f, g) /\ g.clock = f.clock
        /\ \A i \in DOMAIN f.nodes :
             [g.nodes[i] EXCEPT !.context = <<>>] = [f.nodes[i] EXCEPT !.context = <<>>]
    BY <2>3, <2>4, <2>5, ReloadReturns
  <2>7. QED
    BY <2>2, <2>5, <2>6 DEF SameGraph
<1>2. Owners /\ Graphs => RoundTrip
  BY <1>1
<1>3. QED
  BY <1>2, GraphsAlways, OwnersAlways, PTL

-----------------------------------------------------------------------------
(***************************************************************************)
(* Sums: SumFunctionOnSet is the library's fold, here a recursive function *)
(* on the subsets of a finite set.                                         *)
(***************************************************************************)

\* A family that has a set when it has all the smaller ones of it has every subset.
LEMMA SubsetInduction ==
  ASSUME NEW S, IsFiniteSet(S), NEW P,
         \A s \in SUBSET S : (\A t \in SUBSET s : t # s => t \in P) => s \in P
  PROVE  SUBSET S \subseteq P
<1> DEFINE Q == {n \in Nat : \A s \in SUBSET S : Cardinality(s) <= n => s \in P}
<1>1. \A s \in SUBSET S : IsFiniteSet(s) /\ Cardinality(s) \in Nat
  BY FS_Subset, FS_CardinalityType
<1>2. \A s \in SUBSET S : \A t \in SUBSET s :
        t \in SUBSET S /\ (t # s => Cardinality(t) < Cardinality(s))
  <2>1. SUFFICES ASSUME NEW s \in SUBSET S, NEW t \in SUBSET s
                 PROVE  t \in SUBSET S /\ (t # s => Cardinality(t) < Cardinality(s))
    OBVIOUS
  <2>2. t \in SUBSET S /\ Cardinality(t) \in Nat /\ Cardinality(s) \in Nat
    BY <1>1
  <2>3. Cardinality(t) <= Cardinality(s) /\ (Cardinality(s) = Cardinality(t) => s = t)
    BY <1>1, FS_Subset
  <2>4. QED
    BY <2>2, <2>3
<1>3. 0 \in Q
  <2>1. SUFFICES ASSUME NEW s \in SUBSET S, Cardinality(s) <= 0
                 PROVE  s \in P
    OBVIOUS
  <2>2. \A t \in SUBSET s : t = s
    BY <1>1, <1>2, <2>1
  <2>3. QED
    BY <2>2
<1>4. ASSUME NEW n \in Q
      PROVE  n + 1 \in Q
  <2>1. SUFFICES ASSUME NEW s \in SUBSET S, Cardinality(s) <= n + 1
                 PROVE  s \in P
    OBVIOUS
  <2>2. \A t \in SUBSET s : t # s => t \in P
    BY <1>1, <1>2, <2>1
  <2>3. QED
    BY <2>2
<1> HIDE DEF Q
<1>5. Q = Nat
  <2>1. Q \in SUBSET Nat
    BY DEF Q
  <2>2. QED
    BY <1>3, <1>4, <2>1, NatSetInduction
<1>6. QED
  BY <1>1, <1>5 DEF Q

Partial(part, f, sets) ==
  part = [s \in sets |-> IF s = {} THEN 0
                         ELSE LET x == CHOOSE x \in s : TRUE IN f[x] + part[s \ {x}]]

Summing(part, f, S) == Partial(part, f, SUBSET S)

\* The recursion of the fold has a solution.
LEMMA SummingExists ==
  ASSUME NEW S, IsFiniteSet(S), NEW f
  PROVE  \E part : Summing(part, f, S)
<1> DEFINE Sets(n) == {s \in SUBSET S : Cardinality(s) <= n}
           P == {n \in Nat : \E part : Partial(part, f, Sets(n))}
<1>1. \A s \in SUBSET S : IsFiniteSet(s) /\ Cardinality(s) \in Nat
  BY FS_Subset, FS_CardinalityType
<1>2. \A s \in SUBSET S : \A x \in s : s \ {x} \in SUBSET S /\ Cardinality(s \ {x}) = Cardinality(s) - 1
  BY <1>1, FS_RemoveElement
<1>3. 0 \in P
  <2> DEFINE part == [s \in Sets(0) |-> 0]
  <2>1. \A s \in Sets(0) : s = {}
    <3>1. \A s \in SUBSET S : Cardinality(s) = 0 => s = {}
      BY <1>1, FS_EmptySet
    <3>2. QED
      BY <1>1, <3>1
  <2>2. Partial(part, f, Sets(0))
    BY <2>1 DEF Summing, Partial
  <2>3. QED
    BY <2>2
<1>4. ASSUME NEW n \in P
      PROVE  n + 1 \in P
  <2>1. PICK part : Partial(part, f, Sets(n))
    OBVIOUS
  <2> DEFINE chosen(s) == CHOOSE x \in s : TRUE
             value(p, s) == IF s = {} THEN 0 ELSE f[chosen(s)] + p[s \ {chosen(s)}]
             more == [s \in Sets(n + 1) |-> value(part, s)]
  <2>2. \A s \in Sets(n) : part[s] = value(part, s)
    BY <2>1 DEF Summing, Partial
  <2>3. \A s \in Sets(n) : s \in Sets(n + 1) /\ more[s] = part[s]
    BY <1>1, <2>2
  <2>4. ASSUME NEW s \in Sets(n + 1)
        PROVE  value(part, s) = value(more, s)
    <3>1. CASE s = {}
      BY <3>1
    <3>2. CASE s # {}
      <4>1. PICK x \in s : x = chosen(s)
        BY <3>2
      <4>2. s \ {x} \in Sets(n)
        BY <1>1, <1>2
      <4>3. part[s \ {x}] = more[s \ {x}]
        BY <2>3, <4>2
      <4>4. QED
        BY <3>2, <4>1, <4>3
    <3>3. QED
      BY <3>1, <3>2
  <2>5. more = [s \in Sets(n + 1) |-> value(part, s)]
    OBVIOUS
  <2> HIDE DEF more, Sets
  <2>6. more = [s \in Sets(n + 1) |-> value(more, s)]
    <3> HIDE DEF value
    <3>1. QED
      BY <2>4, <2>5
  <2>7. Partial(more, f, Sets(n + 1))
    BY <2>6 DEF Summing, Partial
  <2>8. QED
    BY <2>7
<1> HIDE DEF P
<1>5. P = Nat
  <2>1. P \in SUBSET Nat
    BY DEF P
  <2>2. QED
    BY <1>3, <1>4, <2>1, NatSetInduction
<1>6. Cardinality(S) \in P
  BY <1>1, <1>5
<1>7. Sets(Cardinality(S)) = SUBSET S
  BY FS_Subset
<1>8. QED
  BY <1>6, <1>7 DEF P, Summing

\* Two solutions agree on the sets that both have, for functions that agree there.
LEMMA SummingIsOne ==
  ASSUME NEW S, IsFiniteSet(S), NEW T, S \subseteq T, NEW f, NEW g, \A x \in S : f[x] = g[x],
         NEW part, Summing(part, f, S), NEW other, Summing(other, g, T)
  PROVE  part[S] = other[S]
<1> DEFINE P == {s \in SUBSET S : part[s] = other[s]}
<1>1. ASSUME NEW s \in SUBSET S, \A t \in SUBSET s : t # s => t \in P
      PROVE  s \in P
  <2>1. CASE s = {}
    BY <2>1 DEF Summing, Partial
  <2>2. CASE s # {}
    <3>1. PICK x \in s : x = CHOOSE y \in s : TRUE
      BY <2>2
    <3>2. part[s] = f[x] + part[s \ {x}] /\ other[s] = g[x] + other[s \ {x}]
      BY <2>2, <3>1 DEF Summing, Partial
    <3>3. part[s \ {x}] = other[s \ {x}] /\ f[x] = g[x]
      BY <1>1
    <3>4. QED
      BY <3>2, <3>3
  <2>3. QED
    BY <2>1, <2>2
<1> HIDE DEF P
<1>2. SUBSET S \subseteq P
  BY <1>1, SubsetInduction
<1>3. QED
  BY <1>2 DEF P

LEMMA SumIs ==
  ASSUME NEW S, IsFiniteSet(S), NEW f
  PROVE  \E part : Summing(part, f, S) /\ SumFunctionOnSet(f, S) = part[S]
<1> DEFINE part == CHOOSE p : Summing(p, f, S)
<1>1. Summing(part, f, S)
  BY SummingExists
<1>2. SumFunctionOnSet(f, S) = part[S]
  BY DEF SumFunctionOnSet, FoldFunctionOnSet, MapThenFoldSet, Summing, Partial
<1>3. QED
  BY <1>1, <1>2

LEMMA SumEmpty == \A f : SumFunctionOnSet(f, {}) = 0
<1>1. SUFFICES ASSUME NEW f
               PROVE  SumFunctionOnSet(f, {}) = 0
  OBVIOUS
<1>2. PICK part : Summing(part, f, {}) /\ SumFunctionOnSet(f, {}) = part[{}]
  BY SumIs, FS_EmptySet
<1>3. QED
  BY <1>2 DEF Summing, Partial

\* Of functions that agree on the set, the sums are one.
LEMMA SumSame ==
  ASSUME NEW S, IsFiniteSet(S), NEW f, NEW g, \A x \in S : f[x] = g[x]
  PROVE  SumFunctionOnSet(f, S) = SumFunctionOnSet(g, S)
<1>1. PICK part : Summing(part, f, S) /\ SumFunctionOnSet(f, S) = part[S]
  BY SumIs
<1>2. PICK other : Summing(other, g, S) /\ SumFunctionOnSet(g, S) = other[S]
  BY SumIs
<1>3. \A T : S \subseteq T /\ Summing(other, g, T) => part[S] = other[S]
  BY <1>1, SummingIsOne
<1>4. QED
  BY <1>1, <1>2, <1>3

LEMMA SumChosen ==
  ASSUME NEW S, IsFiniteSet(S), S # {}, NEW f
  PROVE  \E x \in S : SumFunctionOnSet(f, S) = f[x] + SumFunctionOnSet(f, S \ {x})
<1>1. PICK x \in S : x = CHOOSE y \in S : TRUE
  OBVIOUS
<1>2. PICK T : T = S \ {x}
  OBVIOUS
<1>3. T \subseteq S /\ IsFiniteSet(T)
  BY <1>2, FS_Subset
<1>4. PICK part : Summing(part, f, S) /\ SumFunctionOnSet(f, S) = part[S]
  BY SumIs
<1>5. PICK other : Summing(other, f, T) /\ SumFunctionOnSet(f, T) = other[T]
  BY <1>3, SumIs
<1>6. other[T] = part[T]
  <2>1. \A x_1 \in T : f[x_1] = f[x_1]
    OBVIOUS
  <2>2. QED
    BY <1>3, <1>4, <1>5, <2>1, SummingIsOne
<1>7. part[S] = f[x] + part[T]
  BY <1>1, <1>2, <1>4 DEF Summing, Partial
<1>8. QED
  BY <1>2, <1>4, <1>5, <1>6, <1>7

LEMMA SumType ==
  ASSUME NEW S, IsFiniteSet(S), NEW f, \A x \in S : f[x] \in Nat
  PROVE  SumFunctionOnSet(f, S) \in Nat
<1> DEFINE P == {s \in SUBSET S : SumFunctionOnSet(f, s) \in Nat}
<1>1. ASSUME NEW s \in SUBSET S, \A t \in SUBSET s : t # s => t \in P
      PROVE  s \in P
  <2>1. CASE s = {}
    BY <2>1, SumEmpty
  <2>2. CASE s # {}
    <3>1. IsFiniteSet(s)
      BY FS_Subset
    <3>2. PICK x \in s : SumFunctionOnSet(f, s) = f[x] + SumFunctionOnSet(f, s \ {x})
      BY <2>2, <3>1, SumChosen
    <3>3. s \ {x} \in P /\ f[x] \in Nat
      BY <1>1
    <3>4. QED
      BY <3>2, <3>3
  <2>3. QED
    BY <2>1, <2>2
<1> HIDE DEF P
<1>2. SUBSET S \subseteq P
  BY <1>1, SubsetInduction
<1>3. QED
  BY <1>2 DEF P

\* Whichever element is taken first.
LEMMA SumTake ==
  ASSUME NEW S, IsFiniteSet(S), NEW f, \A x \in S : f[x] \in Nat, NEW x \in S
  PROVE  SumFunctionOnSet(f, S) = f[x] + SumFunctionOnSet(f, S \ {x})
<1> DEFINE P == {s \in SUBSET S : \A y \in s : SumFunctionOnSet(f, s) = f[y] + SumFunctionOnSet(f, s \ {y})}
<1>1. ASSUME NEW s \in SUBSET S, \A t \in SUBSET s : t # s => t \in P
      PROVE  s \in P
  <2>1. SUFFICES ASSUME NEW y \in s
                 PROVE  SumFunctionOnSet(f, s) = f[y] + SumFunctionOnSet(f, s \ {y})
    OBVIOUS
  <2>2. IsFiniteSet(s) /\ s # {}
    BY FS_Subset
  <2>3. PICK c \in s : SumFunctionOnSet(f, s) = f[c] + SumFunctionOnSet(f, s \ {c})
    BY <2>2, SumChosen
  <2>4. CASE c = y
    BY <2>3, <2>4
  <2>5. CASE c # y
    <3>1. s \ {c} \in P /\ s \ {y} \in P /\ y \in s \ {c} /\ c \in s \ {y}
      BY <1>1, <2>5
    <3>2. PICK rest : rest = (s \ {c}) \ {y}
      OBVIOUS
    <3>3. rest = (s \ {y}) \ {c} /\ rest \in SUBSET S
      BY <3>2
    <3>4. /\ SumFunctionOnSet(f, s \ {c}) = f[y] + SumFunctionOnSet(f, rest)
          /\ SumFunctionOnSet(f, s \ {y}) = f[c] + SumFunctionOnSet(f, rest)
      BY <3>1, <3>2, <3>3
    <3>5. IsFiniteSet(rest)
      BY <3>3, FS_Subset
    <3>6. SumFunctionOnSet(f, rest) \in Nat /\ f[c] \in Nat /\ f[y] \in Nat
      <4>1. \A z \in rest : f[z] \in Nat
        BY <3>3
      <4>2. QED
        BY <3>5, <4>1, SumType
    <3>7. QED
      BY <2>3, <3>4, <3>6
  <2>6. QED
    BY <2>4, <2>5
<1> HIDE DEF P
<1>2. SUBSET S \subseteq P
  BY <1>1, SubsetInduction
<1>3. QED
  BY <1>2 DEF P

\* What is 0 adds nothing.
LEMMA SumSkips ==
  ASSUME NEW S, IsFiniteSet(S), NEW f, \A x \in S : f[x] \in Nat,
         NEW T, \A x \in S \ T : f[x] = 0
  PROVE  SumFunctionOnSet(f, S) = SumFunctionOnSet(f, S \cap T)
<1> DEFINE P == {s \in SUBSET S : SumFunctionOnSet(f, s) = SumFunctionOnSet(f, s \cap T)}
<1>1. ASSUME NEW s \in SUBSET S, \A t \in SUBSET s : t # s => t \in P
      PROVE  s \in P
  <2>1. CASE s = {}
    <3>1. s \cap T = s
      BY <2>1
    <3>2. QED
      BY <3>1
  <2>2. CASE s # {}
    <3>1. IsFiniteSet(s) /\ IsFiniteSet(s \cap T)
      BY FS_Subset
    <3>2. PICK x \in s : TRUE
      BY <2>2
    <3>3. PICK t : t = s \ {x}
      OBVIOUS
    <3>4. SumFunctionOnSet(f, s) = f[x] + SumFunctionOnSet(f, t)
      BY <3>1, <3>3, SumTake
    <3>5. SumFunctionOnSet(f, t) = SumFunctionOnSet(f, t \cap T)
      BY <1>1, <3>3
    <3>6. CASE x \in T
      <4>1. x \in s \cap T /\ \A z \in s \cap T : f[z] \in Nat
        BY <3>6
      <4>2. SumFunctionOnSet(f, s \cap T) = f[x] + SumFunctionOnSet(f, (s \cap T) \ {x})
        BY <3>1, <4>1, SumTake
      <4>3. (s \cap T) \ {x} = t \cap T
        BY <3>3
      <4>4. QED
        BY <3>4, <3>5, <4>2, <4>3
    <3>7. CASE x \notin T
      <4>1. s \cap T = t \cap T /\ f[x] = 0
        BY <3>3, <3>7
      <4>2. SumFunctionOnSet(f, t) \in Nat
        <5>1. IsFiniteSet(t) /\ \A z \in t : f[z] \in Nat
          BY <3>1, <3>3, FS_Subset
        <5>2. QED
          BY <5>1, SumType
      <4>3. PICK sum \in Nat : sum = SumFunctionOnSet(f, t)
        BY <4>2
      <4>4. SumFunctionOnSet(f, s) = 0 + sum /\ 0 + sum = sum
        BY <3>4, <4>1, <4>3
      <4>5. SumFunctionOnSet(f, s \cap T) = sum
        BY <3>5, <4>1, <4>3
      <4>6. QED
        BY <4>4, <4>5
    <3>8. QED
      BY <3>6, <3>7
  <2>3. QED
    BY <2>1, <2>2
<1> HIDE DEF P
<1>2. SUBSET S \subseteq P
  BY <1>1, SubsetInduction
<1>3. QED
  BY <1>2 DEF P

LEMMA SumOfOnes ==
  ASSUME NEW S, IsFiniteSet(S), NEW f, \A x \in S : f[x] = 1
  PROVE  SumFunctionOnSet(f, S) = Cardinality(S)
<1> DEFINE P == {s \in SUBSET S : SumFunctionOnSet(f, s) = Cardinality(s)}
<1>1. ASSUME NEW s \in SUBSET S, \A t \in SUBSET s : t # s => t \in P
      PROVE  s \in P
  <2>1. CASE s = {}
    BY <2>1, SumEmpty, FS_EmptySet
  <2>2. CASE s # {}
    <3>1. IsFiniteSet(s)
      BY FS_Subset
    <3>2. PICK x \in s : SumFunctionOnSet(f, s) = f[x] + SumFunctionOnSet(f, s \ {x})
      BY <2>2, <3>1, SumChosen
    <3>3. SumFunctionOnSet(f, s \ {x}) = Cardinality(s \ {x}) /\ f[x] = 1
      BY <1>1
    <3>4. Cardinality(s \ {x}) = Cardinality(s) - 1 /\ Cardinality(s) \in Nat
      BY <3>1, FS_RemoveElement, FS_CardinalityType
    <3>5. QED
      BY <3>2, <3>3, <3>4
  <2>3. QED
    BY <2>1, <2>2
<1> HIDE DEF P
<1>2. SUBSET S \subseteq P
  BY <1>1, SubsetInduction
<1>3. QED
  BY <1>2 DEF P

\* More at one element is as much more in all.
LEMMA SumRaised ==
  ASSUME NEW S, IsFiniteSet(S), NEW f, \A x \in S : f[x] \in Nat, NEW y \in S, NEW more \in Nat,
         NEW g, g[y] = more + f[y], \A x \in S \ {y} : g[x] = f[x]
  PROVE  SumFunctionOnSet(g, S) = more + SumFunctionOnSet(f, S)
<1>1. PICK rest : rest = S \ {y}
  OBVIOUS
<1>2. IsFiniteSet(rest) /\ rest \subseteq S
  BY <1>1, FS_Subset
<1>3. \A x \in S : g[x] \in Nat
  OBVIOUS
<1>4. SumFunctionOnSet(g, S) = g[y] + SumFunctionOnSet(g, rest)
  BY <1>1, <1>3, SumTake
<1>5. SumFunctionOnSet(f, S) = f[y] + SumFunctionOnSet(f, rest)
  BY <1>1, SumTake
<1>6. SumFunctionOnSet(g, rest) = SumFunctionOnSet(f, rest)
  BY <1>1, <1>2, SumSame
<1>7. SumFunctionOnSet(f, rest) \in Nat
  BY <1>2, SumType
<1>8. QED
  BY <1>4, <1>5, <1>6, <1>7

\* A sum is the sum of the sums of the groups.
LEMMA SumOfGroups ==
  ASSUME NEW S, IsFiniteSet(S), NEW f, \A x \in S : f[x] \in Nat,
         NEW G, IsFiniteSet(G), NEW group, \A x \in S : group[x] \in G,
         NEW members, \A g \in G : \A x : x \in members[g] <=> x \in S /\ group[x] = g,
         NEW totals, \A g \in G : totals[g] = SumFunctionOnSet(f, members[g])
  PROVE  SumFunctionOnSet(totals, G) = SumFunctionOnSet(f, S)
<1> DEFINE Members(s, g) == {x \in s : group[x] = g}
           sums(s) == [g \in G |-> SumFunctionOnSet(f, Members(s, g))]
           P == {s \in SUBSET S : SumFunctionOnSet(sums(s), G) = SumFunctionOnSet(f, s)}
<1>1. ASSUME NEW s \in SUBSET S, NEW g
      PROVE  IsFiniteSet(s) /\ IsFiniteSet(Members(s, g)) /\ SumFunctionOnSet(f, Members(s, g)) \in Nat
  <2>1. IsFiniteSet(s) /\ IsFiniteSet(Members(s, g))
    BY FS_Subset
  <2>2. \A x \in Members(s, g) : f[x] \in Nat
    OBVIOUS
  <2> HIDE DEF Members
  <2>3. QED
    BY <2>1, <2>2, SumType
<1>2. ASSUME NEW s \in SUBSET S, \A t \in SUBSET s : t # s => t \in P
      PROVE  s \in P
  <2>1. CASE s = {}
    <3>1. \A g \in G : sums(s)[g] = 0
      <4>1. \A g : Members(s, g) = {}
        BY <2>1
      <4>2. QED
        BY <4>1, SumEmpty
    <3> HIDE DEF sums
    <3>2. PICK zeros : zeros = sums(s)
      OBVIOUS
    <3>3. (\A g \in G : zeros[g] \in Nat) /\ (\A g \in G \ {} : zeros[g] = 0)
      BY <3>1, <3>2
    <3>4. SumFunctionOnSet(zeros, G) = SumFunctionOnSet(zeros, G \cap {})
      BY <3>3, SumSkips
    <3>5. G \cap {} = {}
      OBVIOUS
    <3>6. QED
      BY <2>1, <3>2, <3>4, <3>5, SumEmpty
  <2>2. CASE s # {}
    <3>1. PICK x \in s : TRUE
      BY <2>2
    <3>2. PICK t \in SUBSET s : t = s \ {x}
      OBVIOUS
    <3>3. t \in P /\ t \in SUBSET S
      BY <1>2, <3>1, <3>2
    <3>4. SumFunctionOnSet(sums(t), G) = SumFunctionOnSet(f, t)
      BY <3>3
    <3>5. IsFiniteSet(s) /\ \A z \in s : f[z] \in Nat
      BY <1>1
    <3>6. SumFunctionOnSet(f, s) = f[x] + SumFunctionOnSet(f, t)
      BY <3>1, <3>2, <3>5, SumTake
    <3>7. PICK y \in G : y = group[x]
      OBVIOUS
    <3>8. Members(t, y) = Members(s, y) \ {x} /\ x \in Members(s, y) /\ \A z \in Members(s, y) : f[z] \in Nat
      BY <3>2, <3>7
    <3>9. \A g \in G \ {y} : Members(s, g) = Members(t, g)
      BY <3>2, <3>7
    <3>10. \A g \in G : IsFiniteSet(Members(s, g)) /\ SumFunctionOnSet(f, Members(t, g)) \in Nat
      <4> HIDE DEF Members
      <4>1. \A u \in SUBSET S : \A g : IsFiniteSet(Members(u, g)) /\ SumFunctionOnSet(f, Members(u, g)) \in Nat
        BY <1>1
      <4>2. QED
        BY <3>3, <4>1
    <3>11. PICK old, new : old = sums(t) /\ new = sums(s)
      OBVIOUS
    <3>12. \A g \in G : old[g] = SumFunctionOnSet(f, Members(t, g)) /\ new[g] = SumFunctionOnSet(f, Members(s, g))
      BY <3>11
    <3> HIDE DEF Members, sums
    <3>13. SumFunctionOnSet(f, Members(s, y)) = f[x] + SumFunctionOnSet(f, Members(t, y))
      BY <3>8, <3>10, SumTake
    <3>14. /\ new[y] = f[x] + old[y] /\ \A g \in G \ {y} : new[g] = old[g]
           /\ \A g \in G : old[g] \in Nat
      BY <3>9, <3>10, <3>12, <3>13
    <3>15. f[x] \in Nat
      OBVIOUS
    <3>16. SumFunctionOnSet(new, G) = f[x] + SumFunctionOnSet(old, G)
      BY <3>14, <3>15, SumRaised
    <3>17. QED
      BY <3>4, <3>6, <3>11, <3>16
  <2>3. QED
    BY <2>1, <2>2
<1>3. S \in P
  <2> HIDE DEF P
  <2>1. SUBSET S \subseteq P
    BY <1>2, SubsetInduction
  <2>2. QED
    BY <2>1
<1>4. PICK parts : parts = sums(S)
  OBVIOUS
<1>5. SumFunctionOnSet(parts, G) = SumFunctionOnSet(f, S) /\ \A g \in G : totals[g] = parts[g]
  <2>1. \A g \in G : members[g] = Members(S, g)
    OBVIOUS
  <2>2. QED
    BY <1>3, <1>4, <2>1
<1>6. SumFunctionOnSet(totals, G) = SumFunctionOnSet(parts, G)
  BY <1>5, SumSame
<1>7. QED
  BY <1>5, <1>6

-----------------------------------------------------------------------------
(***************************************************************************)
(* What is asked of the nodes.                                             *)
(***************************************************************************)
GroupOf(nodes, by, i) == IF by \in DOMAIN nodes[i].meta THEN nodes[i].meta[by].repr ELSE "(none)"

\* The nodes of each group, and what each counts for.
Members(nodes, clause, by, g) == {i \in Matching(nodes, clause) : GroupOf(nodes, by, i) = g}
ValueIn(nodes, op, field, i) ==
  IF op # "count" /\ HasNumber(nodes[i].meta, field) THEN nodes[i].meta[field] ELSE IntValue(0)

LEMMA GroupedIs ==
  ASSUME NEW nodes, NEW clause, NEW op, NEW field, NEW by
  PROVE  Grouped(nodes, clause, op, field, by) =
           [g \in {GroupOf(nodes, by, i) : i \in Matching(nodes, clause)} |->
              ComputeAggregate(op, [i \in Members(nodes, clause, by, g) |-> ValueIn(nodes, op, field, i)])]
BY DEF Grouped, GroupOf, Members, ValueIn

\* The groups of finitely many nodes are finitely many, and have a member each.
LEMMA GroupsAre ==
  ASSUME NEW nodes, IsFiniteSet(DOMAIN nodes), NEW clause, NEW by
  PROVE  LET ids == Matching(nodes, clause)
             G == {GroupOf(nodes, by, i) : i \in ids} IN
         /\ IsFiniteSet(ids) /\ ids \subseteq DOMAIN nodes /\ IsFiniteSet(G)
         /\ \A g \in G : /\ Members(nodes, clause, by, g) # {} /\ Members(nodes, clause, by, g) \subseteq ids
                         /\ IsFiniteSet(Members(nodes, clause, by, g))
<1> DEFINE ids == Matching(nodes, clause)
<1>1. ids \subseteq DOMAIN nodes
  BY DEF Matching
<1> HIDE DEF ids
<1>2. IsFiniteSet(ids)
  BY <1>1, FS_Subset
<1> DEFINE G == {GroupOf(nodes, by, i) : i \in ids}
<1>3. IsFiniteSet(G)
  <2> DEFINE group == [i \in ids |-> GroupOf(nodes, by, i)]
  <2>1. group \in Surjection(ids, G)
    BY DEF Surjection
  <2> HIDE DEF group, G
  <2>2. QED
    BY <1>2, <2>1, FS_Surjection
<1>4. ASSUME NEW g \in G
      PROVE  /\ Members(nodes, clause, by, g) # {} /\ Members(nodes, clause, by, g) \subseteq ids
             /\ IsFiniteSet(Members(nodes, clause, by, g))
  <2>1. Members(nodes, clause, by, g) # {} /\ Members(nodes, clause, by, g) \subseteq ids
    BY DEF Members, ids
  <2>2. QED
    BY <1>2, <2>1, FS_Subset
<1>5. QED
  BY <1>1, <1>2, <1>3, <1>4 DEF ids

LEMMA CountAggregate ==
  ASSUME NEW values, DOMAIN values # {}
  PROVE  ComputeAggregate("count", values) = <<Cardinality(DOMAIN values)>>
BY DEF ComputeAggregate

LEMMA SumAggregate ==
  ASSUME NEW values
  PROVE  ComputeAggregate("sum", values) =
           IF DOMAIN values = {} THEN <<0>>
           ELSE IF \A i \in DOMAIN values : IsFinite(values[i]) THEN <<Total(values)>> ELSE <<>>
BY DEF ComputeAggregate

\* Over the groups, the counts add up to that of no groups.
LEMMA CountsAgree ==
  ASSUME NEW nodes, IsFiniteSet(DOMAIN nodes), NEW clause, NEW field, NEW by
  PROVE  Sums(Grouped(nodes, clause, "count", field, by)) = Flat(nodes, clause, "count", field)[1]
<1>1. PICK ids : ids = Matching(nodes, clause)
  OBVIOUS
<1>2. PICK G : G = {GroupOf(nodes, by, i) : i \in ids}
  OBVIOUS
<1>3. /\ IsFiniteSet(ids) /\ IsFiniteSet(G)
      /\ \A g \in G : /\ Members(nodes, clause, by, g) # {} /\ Members(nodes, clause, by, g) \subseteq ids
                      /\ IsFiniteSet(Members(nodes, clause, by, g))
  BY <1>1, <1>2, GroupsAre
<1>4. PICK groups : groups = Grouped(nodes, clause, "count", field, by)
  OBVIOUS
<1>5. ASSUME NEW g \in G
      PROVE  groups[g] = <<Cardinality(Members(nodes, clause, by, g))>>
  <2>1. PICK values : values = [i \in Members(nodes, clause, by, g) |-> ValueIn(nodes, "count", field, i)]
    OBVIOUS
  <2>2. groups[g] = ComputeAggregate("count", values)
    BY <1>1, <1>2, <1>4, <2>1, GroupedIs
  <2>3. DOMAIN values = Members(nodes, clause, by, g)
    BY <2>1
  <2>4. QED
    BY <1>3, <2>2, <2>3, CountAggregate
<1>6. DOMAIN groups = G
  BY <1>1, <1>2, <1>4, GroupedIs
<1>7. PICK ones : ones = [i \in ids |-> 1]
  OBVIOUS
<1>8. PICK group : group = [i \in ids |-> GroupOf(nodes, by, i)]
  OBVIOUS
<1>9. PICK totals, members : /\ totals = [g \in G |-> groups[g][1]]
                             /\ members = [g \in G |-> Members(nodes, clause, by, g)]
  OBVIOUS
<1>10. ASSUME NEW g \in G
       PROVE  /\ members[g] = Members(nodes, clause, by, g)
              /\ totals[g] = SumFunctionOnSet(ones, members[g])
  <2>1. PICK S : S = Members(nodes, clause, by, g) /\ S = members[g]
    BY <1>9
  <2>2. S \subseteq ids
    BY <1>3, <2>1
  <2>3. \A i \in S : ones[i] = 1
    BY <1>7, <2>2
  <2>4. SumFunctionOnSet(ones, S) = Cardinality(S)
    BY <1>3, <2>1, <2>3, SumOfOnes
  <2>5. totals[g] = Cardinality(S)
    BY <1>5, <1>9, <2>1
  <2>6. QED
    BY <2>1, <2>4, <2>5
<1>11. /\ \A i \in ids : ones[i] \in Nat /\ ones[i] = 1
       /\ \A i \in ids : group[i] \in G
  BY <1>2, <1>7, <1>8
<1>12. SumFunctionOnSet(totals, G) = SumFunctionOnSet(ones, ids)
  <2>1. /\ \A g \in G : \A i : i \in members[g] <=> i \in ids /\ group[i] = g
        /\ \A g \in G : totals[g] = SumFunctionOnSet(ones, members[g])
    BY <1>1, <1>8, <1>10 DEF Members
  <2>2. \A i \in ids : ones[i] \in Nat
    BY <1>11
  <2>3. \A i \in ids : group[i] \in G
    BY <1>11
  <2>4. QED
    BY <1>3, <2>1, <2>2, <2>3, SumOfGroups
<1>13. SumFunctionOnSet(ones, ids) = Cardinality(ids)
  BY <1>3, <1>11, SumOfOnes
<1>14. Sums(groups) = SumFunctionOnSet(totals, G)
  BY <1>6, <1>9 DEF Sums, SumFunction
<1>15. Flat(nodes, clause, "count", field) = <<Cardinality(ids)>>
  BY <1>1 DEF Flat
<1>16. QED
  BY <1>4, <1>12, <1>13, <1>14, <1>15

\* What metadata holds counts for a natural number; a 0 is finite.
LEMMA NumbersAre ==
  /\ \A meta : IsKnown(meta) => \A k \in DOMAIN meta : meta[k].num \in Nat
  /\ IntValue(0).num = 0 /\ IsFinite(IntValue(0))
<1>1. \A t \in DOMAIN Accepted : Parse(t).num \in Nat /\ (Parse(t).type = "Int" => IsFinite(Parse(t)))
  BY TextAssumption
<1>2. \A meta : IsKnown(meta) => \A k \in DOMAIN meta : meta[k].num \in Nat
  BY <1>1 DEF IsKnown
<1>3. 0 \in 0..MaxClock
  BY StoreAssumption
<1>4. ToString(0) \in DOMAIN Accepted /\ Parse(ToString(0)) = IntValue(0)
  BY <1>3, StoreAssumption
<1>5. IntValue(0).num = 0 /\ IntValue(0).type = "Int"
  BY DEF IntValue
<1>6. QED
  BY <1>1, <1>2, <1>4, <1>5

\* So do the sums, unless a value is not finite, which a group shows then.
LEMMA SumsAgree ==
  ASSUME NEW nodes, IsFiniteSet(DOMAIN nodes), \A i \in DOMAIN nodes : IsKnown(nodes[i].meta),
         NEW clause, NEW field, NEW by
  PROVE  LET sum == Flat(nodes, clause, "sum", field)
             groups == Grouped(nodes, clause, "sum", field, by)
         IN IF sum = <<>> THEN \E g \in DOMAIN groups : groups[g] = <<>>
            ELSE Sums(groups) = sum[1]
<1>1. PICK ids : ids = Matching(nodes, clause)
  OBVIOUS
<1>2. PICK G : G = {GroupOf(nodes, by, i) : i \in ids}
  OBVIOUS
<1>3. /\ IsFiniteSet(ids) /\ ids \subseteq DOMAIN nodes /\ IsFiniteSet(G)
      /\ \A g \in G : /\ Members(nodes, clause, by, g) # {} /\ Members(nodes, clause, by, g) \subseteq ids
                      /\ IsFiniteSet(Members(nodes, clause, by, g))
  BY <1>1, <1>2, GroupsAre
<1>4. PICK groups, sum : groups = Grouped(nodes, clause, "sum", field, by) /\ sum = Flat(nodes, clause, "sum", field)
  OBVIOUS
<1>5. PICK vals : vals = [i \in ids |-> ValueIn(nodes, "sum", field, i)]
  OBVIOUS
<1>6. PICK Had : Had = {i \in ids : HasNumber(nodes[i].meta, field)}
  OBVIOUS
<1>7. /\ \A i \in Had : vals[i] = nodes[i].meta[field] /\ field \in DOMAIN nodes[i].meta
      /\ \A i \in ids \ Had : vals[i] = IntValue(0)
  BY <1>5, <1>6 DEF ValueIn, HasNumber
<1>8. \A i \in ids : vals[i].num \in Nat
  <2>1. \A i \in Had : vals[i].num \in Nat
    BY <1>3, <1>6, <1>7, NumbersAre
  <2>2. \A i \in ids \ Had : vals[i].num \in Nat
    BY <1>7, NumbersAre
  <2>3. QED
    BY <2>1, <2>2
<1>9. PICK nums : nums = [i \in ids |-> vals[i].num]
  OBVIOUS
\* No groups.
<1>10. sum = IF Had = {} THEN <<0>>
             ELSE IF \A i \in Had : IsFinite(vals[i]) THEN <<SumFunctionOnSet(nums, Had)>> ELSE <<>>
  <2>1. PICK values : values = [i \in Had |-> nodes[i].meta[field]]
    OBVIOUS
  <2>2. sum = ComputeAggregate("sum", values)
    BY <1>1, <1>4, <1>6, <2>1 DEF Flat
  <2>3. DOMAIN values = Had /\ \A i \in Had : values[i] = vals[i]
    BY <1>7, <2>1
  <2>4. Total(values) = SumFunctionOnSet(nums, Had)
    <3>1. PICK some : some = [i \in DOMAIN values |-> values[i].num]
      OBVIOUS
    <3>2. Total(values) = SumFunctionOnSet(some, Had)
      BY <2>3, <3>1 DEF Total, SumFunction
    <3>3. \A i \in Had : some[i] = nums[i]
      BY <1>6, <1>9, <2>3, <3>1
    <3>4. IsFiniteSet(Had)
      BY <1>3, <1>6, FS_Subset
    <3>5. QED
      BY <3>2, <3>3, <3>4, SumSame
  <2>5. QED
    BY <2>2, <2>3, <2>4, SumAggregate
\* The groups.
<1>11. DOMAIN groups = G
  BY <1>1, <1>2, <1>4, GroupedIs
<1>12. ASSUME NEW g \in G
       PROVE  LET S == Members(nodes, clause, by, g) IN
              groups[g] = IF \A i \in S : IsFinite(vals[i]) THEN <<SumFunctionOnSet(nums, S)>> ELSE <<>>
  <2>1. PICK S : S = Members(nodes, clause, by, g)
    OBVIOUS
  <2>2. S # {} /\ S \subseteq ids /\ IsFiniteSet(S)
    BY <1>3, <2>1
  <2>3. PICK values : values = [i \in S |-> ValueIn(nodes, "sum", field, i)]
    OBVIOUS
  <2>4. groups[g] = ComputeAggregate("sum", values)
    BY <1>1, <1>2, <1>4, <2>1, <2>3, GroupedIs
  <2>5. DOMAIN values = S /\ \A i \in S : values[i] = vals[i]
    BY <1>5, <2>2, <2>3
  <2>6. Total(values) = SumFunctionOnSet(nums, S)
    <3>1. PICK some : some = [i \in DOMAIN values |-> values[i].num]
      OBVIOUS
    <3>2. Total(values) = SumFunctionOnSet(some, S)
      BY <2>5, <3>1 DEF Total, SumFunction
    <3>3. \A i \in S : some[i] = nums[i]
      BY <1>9, <2>2, <2>5, <3>1
    <3>4. QED
      BY <2>2, <3>2, <3>3, SumSame
  <2>7. QED
    BY <2>1, <2>2, <2>4, <2>5, <2>6, SumAggregate
<1>13. \A i \in ids : GroupOf(nodes, by, i) \in G /\ i \in Members(nodes, clause, by, GroupOf(nodes, by, i))
  BY <1>1, <1>2 DEF Members
<1>14. CASE sum = <<>>
  <2>1. PICK i \in Had : ~ IsFinite(vals[i])
    BY <1>10, <1>14
  <2>2. PICK g \in G : i \in Members(nodes, clause, by, g)
    BY <1>6, <1>13
  <2>3. groups[g] = <<>>
    BY <1>12, <2>1, <2>2
  <2>4. QED
    BY <1>4, <1>11, <1>14, <2>3
<1>15. CASE sum # <<>>
  <2>1. \A i \in ids : IsFinite(vals[i])
    <3>1. \A i \in Had : IsFinite(vals[i])
      BY <1>10, <1>15
    <3>2. QED
      BY <1>7, <3>1, NumbersAre
  <2>2. PICK group : group = [i \in ids |-> GroupOf(nodes, by, i)]
    OBVIOUS
  <2>3. PICK totals, members : /\ totals = [g \in G |-> groups[g][1]]
                               /\ members = [g \in G |-> Members(nodes, clause, by, g)]
    OBVIOUS
  <2>4. ASSUME NEW g \in G
        PROVE  /\ members[g] = Members(nodes, clause, by, g)
               /\ totals[g] = SumFunctionOnSet(nums, members[g])
    <3>1. PICK S : S = Members(nodes, clause, by, g) /\ S = members[g]
      BY <2>3
    <3>2. S \subseteq ids
      BY <1>3, <3>1
    <3>3. groups[g] = <<SumFunctionOnSet(nums, S)>>
      BY <1>12, <2>1, <3>1, <3>2
    <3>4. QED
      BY <2>3, <3>1, <3>3
  <2>5. \A i \in ids : nums[i] \in Nat /\ group[i] \in G
    BY <1>2, <1>8, <1>9, <2>2
  <2>6. SumFunctionOnSet(totals, G) = SumFunctionOnSet(nums, ids)
    <3>1. /\ \A g \in G : \A i : i \in members[g] <=> i \in ids /\ group[i] = g
          /\ \A g \in G : totals[g] = SumFunctionOnSet(nums, members[g])
      BY <1>1, <2>2, <2>4 DEF Members
    <3>2. \A i \in ids : nums[i] \in Nat
      BY <2>5
    <3>3. \A i \in ids : group[i] \in G
      BY <2>5
    <3>4. QED
      BY <1>3, <3>1, <3>2, <3>3, SumOfGroups
  <2>7. Sums(groups) = SumFunctionOnSet(totals, G)
    BY <1>11, <2>3 DEF Sums, SumFunction
  <2>8. SumFunctionOnSet(nums, ids) = SumFunctionOnSet(nums, Had)
    <3>1. \A i \in ids \ Had : nums[i] = 0
      BY <1>7, <1>9, NumbersAre
    <3>2. ids \cap Had = Had
      BY <1>6
    <3>3. \A i \in ids : nums[i] \in Nat
      BY <2>5
    <3>4. SumFunctionOnSet(nums, ids) = SumFunctionOnSet(nums, ids \cap Had)
      BY <1>3, <3>1, <3>3, SumSkips
    <3>5. QED
      BY <3>2, <3>4
  <2>9. sum[1] = SumFunctionOnSet(nums, Had)
    BY <1>10, <1>15, SumEmpty
  <2>10. QED
    BY <1>4, <1>15, <2>6, <2>7, <2>8, <2>9
<1>16. QED
  BY <1>14, <1>15

\* A value is found by the text it is shown as, unless it is a number that is not finite.
LEMMA FoundByItsText ==
  ASSUME NEW meta, IsKnown(meta), NEW k \in DOMAIN meta
  PROVE  PredicateMatches(meta, [key |-> k, op |-> "=", text |-> meta[k].repr])
           <=> (meta[k].type = "Float" => IsFinite(meta[k]))
<1>1. PICK t \in DOMAIN Accepted : meta[k] = Parse(t)
  BY DEF IsKnown
<1>2. PICK v : v = Parse(t)
  OBVIOUS
<1>3. PICK again : again = Parse(v.repr)
  OBVIOUS
<1>4. /\ again.num = v.num /\ again.repr = v.repr
      /\ again.type = v.type \/ (IsNumber(v) /\ IsNumber(again))
      /\ v.type = "Int" => IsFinite(v)
  BY <1>2, <1>3, TextAssumption
<1>5. PredicateMatches(meta, [key |-> k, op |-> "=", text |-> meta[k].repr]) <=>
        IF IsNumber(v) /\ IsNumber(again)
        THEN Compares("=", v, again)
        ELSE v.repr = IF v.type = again.type THEN again.repr ELSE v.repr
  BY <1>1, <1>2, <1>3 DEF PredicateMatches
<1>6. CASE IsNumber(v) /\ IsNumber(again)
  <2>1. IsFinite(v) <=> IsFinite(again)
    BY <1>4 DEF IsFinite
  <2>2. Compares("=", v, again) <=> IsFinite(v)
    BY <1>4 DEF Compares, IsFinite, IsNaN
  <2>3. v.type = "Int" \/ v.type = "Float"
    BY <1>6 DEF IsNumber
  <2>4. QED
    BY <1>1, <1>2, <1>4, <1>5, <1>6, <2>1, <2>2, <2>3
<1>7. CASE ~ (IsNumber(v) /\ IsNumber(again))
  <2>1. again.type = v.type /\ ~ IsNumber(v)
    BY <1>4, <1>7 DEF IsNumber
  <2>2. v.type # "Float"
    BY <2>1 DEF IsNumber
  <2>3. QED
    BY <1>1, <1>2, <1>4, <1>5, <1>7, <2>1, <2>2
<1>8. QED
  BY <1>6, <1>7

\* The two halves of aggregate answer alike, and a value is found by the text it is
\* shown as unless it is a number that is not finite: of every fabric in memory, whatever made it.
THEOREM QueriesAlwaysAgree == Spec => []QueriesAgree
<1>1. ASSUME Owners, Graphs
      PROVE  QueriesAgree
  <2>1. SUFFICES ASSUME NEW p \in Live, NEW nodes, nodes = proc[p].f.nodes
                 PROVE  /\ \A clause \in Clauses, by \in {"kind", "activation_count"} :
                             /\ Sums(Grouped(nodes, clause, "count", "cost", by))
                                  = Flat(nodes, clause, "count", "cost")[1]
                             /\ LET sum == Flat(nodes, clause, "sum", "cost")
                                    groups == Grouped(nodes, clause, "sum", "cost", by)
                                IN IF sum = <<>> THEN \E g \in DOMAIN groups : groups[g] = <<>>
                                   ELSE Sums(groups) = sum[1]
                        /\ \A i \in DOMAIN nodes : \A k \in DOMAIN nodes[i].meta :
                             LET v == nodes[i].meta[k] IN
                             PredicateMatches(nodes[i].meta, [key |-> k, op |-> "=", text |-> v.repr])
                               <=> (v.type = "Float" => IsFinite(v))
    BY DEF QueriesAgree
  <2>2. Filled(proc[p].f)
    BY <1>1 DEF Graphs, Live
  <2>3. \A i \in DOMAIN nodes : IsKnown(nodes[i].meta)
    BY <2>1, <2>2 DEF Filled
  <2>4. IsFiniteSet(DOMAIN nodes)
    <3>1. DOMAIN nodes \subseteq 1..used /\ used \in Nat
      BY <1>1, <2>1 DEF Owners, IsSound, Live
    <3>2. IsFiniteSet(1..used)
      BY <3>1, FS_Interval
    <3>3. QED
      BY <3>1, <3>2, FS_Subset
  <2>5. QED
    BY <2>3, <2>4, CountsAgree, SumsAgree, FoundByItsText
<1>2. Owners /\ Graphs => QueriesAgree
  BY <1>1
<1>3. QED
  BY <1>2, GraphsAlways, OwnersAlways, PTL

\* The three copies of the graph, the timestamps, the answers to queries and what the
\* file would give back agree with each other, in every fabric in memory: through the
\* library's methods, inference, the commands, saves cut short or not, and loads.
THEOREM FabricAlwaysAgrees == Spec => []FabricAgrees
<1>1. EdgesMirrored /\ TimestampsOrderNodes /\ QueriesAgree /\ RoundTrip => FabricAgrees
  BY DEF FabricAgrees
<1>2. QED
  BY <1>1, EdgesAlwaysMirrored, TimestampsOrdered, QueriesAlwaysAgree, SavesRoundTrip, PTL
=============================================================================
