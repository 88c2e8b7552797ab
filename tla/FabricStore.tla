---------------------------- MODULE FabricStore ----------------------------
(***************************************************************************)
(* Programs that keep a Fabric in one JSON file: a host, which loads it,   *)
(* works on it in memory with every method of the library and saves it     *)
(* when it likes, and runs of the `intent` command, each of which loads,   *)
(* changes and saves.  Nothing locks the file.                             *)
(*                                                                         *)
(* save is std::fs::write: the file is truncated when it is opened, then   *)
(* written; a reader, a crash or an error may come in between.  The five   *)
(* systemic nodes the command seeds are one node here.  Its commands that  *)
(* only read (list, aggregate, stats) take no step: what they answer is    *)
(* what Queries computes from the fabric they load.                        *)
(***************************************************************************)
EXTENDS InnerFabric

CONSTANTS
  Commands,    \* runs of the command that may overlap
  Contents,    \* what nodes say, a bound
  Systemic,    \* what the seeded node says
  Metas,       \* the --meta arguments of an add, a bound
  Clauses,     \* the --where clauses, a bound
  Limit,       \* --limit of a search
  RelatedTo,   \* the kind of the edges that inference makes
  MinContextEdges,
  MaxOps, MaxClock, MaxSaves  \* bounds: the host's changes, a fabric's clock, saves

ASSUME StoreAssumption ==
  /\ Ids = 1..Cardinality(Ids)
  /\ Systemic \in Contents /\ \A c \in Contents : IsContent(c)
  /\ RelatedTo \in Kinds
  /\ {MinContextEdges, Limit, MaxOps, MaxClock, MaxSaves} \subseteq Nat
  /\ \A args \in Metas : args \in Seq([key : STRING, text : DOMAIN Accepted])
  /\ "systemic" \in DOMAIN Accepted
  /\ \A n \in 0..MaxClock : ToString(n) \in DOMAIN Accepted /\ Parse(ToString(n)) = IntValue(n)

Host == "host"
Processes == Commands \cup {Host}

VARIABLES
  file,        \* absent, torn (load refuses it), or valid: what was saved
  proc,        \* per process: pc, and its fabric
  used,        \* how many ids were given out
  ops,         \* changes the host made
  saves,       \* saves begun
  version,     \* writes of the file that came to their end
  kept,        \* history: ids that a finished save holds and no later one faded
  exposed,     \* history: a save from a stale fabric, cut short, or of a number
               \* that is not finite
  overwritten  \* history: a copy replaced a live node, or brought its own context

vars == <<file, proc, used, ops, saves, version, kept, exposed, overwritten>>

Absent == [state |-> "absent"]
Torn == [state |-> "torn"]
Down == [pc |-> "down"]
AllHad(p) == DOMAIN proc[p].f.nodes

Init ==
  /\ file = Absent
  /\ proc = [p \in Processes |-> Down]
  /\ used = 0
  /\ ops = 0
  /\ saves = 0
  /\ version = 0
  /\ kept = {}
  /\ exposed = FALSE
  /\ overwritten = FALSE

NewId == used + 1
\* base: the version of the file that f comes from, 0 for none.
Up(f, base) == [pc |-> "up", f |-> f, base |-> base, gone |-> {}]

(***************************************************************************)
(* The host.                                                               *)
(***************************************************************************)

\* An error of load, of a torn file or of the read, and the host does not start.
Open ==
  /\ proc[Host] = Down
  /\ \/ file = Absent /\ proc' = [proc EXCEPT ![Host] = Up(Empty, 0)]
     \/ /\ file.state = "valid"
        /\ proc' = [proc EXCEPT ![Host] = Up(Restored(file.saved), version)]
  /\ overwritten' = FALSE
  /\ UNCHANGED <<ops, file, used, saves, version, kept, exposed>>

Works == proc[Host].pc = "up"
F == proc[Host].f

To(f) ==
  /\ ops < MaxOps /\ saves < MaxSaves
  /\ ops' = ops + 1
  /\ proc' = [proc EXCEPT ![Host].f = f, ![Host].gone = @ \cup (DOMAIN F.nodes \ DOMAIN f.nodes)]
  /\ UNCHANGED <<file, saves, version, kept, exposed>>

AddNode(c) ==
  /\ Works
  /\ NewId \in Ids
  /\ used' = NewId
  /\ To(Create(F, NewId, Fresh(c)))
  /\ UNCHANGED overwritten

\* A copy comes back: a faded node is added again, or a peer's node replaces
\* ours; it carries the context it had where it comes from.
AddCopy(i, c) ==
  /\ Works
  /\ i <= used
  /\ \E context \in {<<>>} \cup {<<[target |-> t, kind |-> RelatedTo]>> : t \in Ids \ {i}} :
       /\ To(Create(F, i, [Fresh(c) EXCEPT !.context = context]))
       /\ overwritten' = (overwritten \/ i \in DOMAIN F.nodes \/ context # <<>>)
  /\ UNCHANGED used

MutateNode(i, c) ==
  Works /\ i \in DOMAIN F.nodes /\ To(Mutate(F, i, c)) /\ UNCHANGED <<used, overwritten>>

FadeNode(i) ==
  Works /\ i \in DOMAIN F.nodes /\ To(Fade(F, i)) /\ UNCHANGED <<used, overwritten>>

LinkNodes(a, b, k) ==
  Works /\ MayLink(F, a, b) /\ To(AddEdge(F, a, b, k)) /\ UNCHANGED <<used, overwritten>>

UnlinkNodes(a, b) ==
  Works /\ Linked(F, a, b) /\ To(RemoveEdgesBetween(F, a, b)) /\ UNCHANGED <<used, overwritten>>

\* apply_action: ModifyEdge is proposed by callers, never by select_action.
ApplyModifyEdge(a, b) ==
  Works /\ Linked(F, a, b) /\ To(ModifyEdge(F, a, b)) /\ UNCHANGED <<used, overwritten>>

\* The most resonant other node: resonate_with(id, 1).
Neighbors(f, a) == DOMAIN f.nodes \ {a}

\* select_action: the first that applies; asking and signalling change nothing.
MayCreateEdge(f, a) == Len(f.edges[a]) < MinContextEdges

InferAndLearn(a, b) ==
  /\ Works
  /\ a \in DOMAIN F.nodes
  /\ MayCreateEdge(F, a)
  /\ b \in Neighbors(F, a)
  /\ To(AddEdge(F, a, b, RelatedTo))
  /\ UNCHANGED <<used, overwritten>>

(***************************************************************************)
(* The command: init, add and search on what it loads, l.  What it does    *)
(* between its load and its save no other process can see, so it is one    *)
(* step with the load.                                                     *)
(***************************************************************************)

HasSystemic(f) == \E i \in DOMAIN f.nodes : IsSystemic(f.nodes[i].meta)

Innate == WithCount([k \in {"kind"} |-> Parse("systemic")], 0)

\* mutant: a fabric without systemic nodes is taken for an empty one
LoadsIfSeeded ==
  LET f == Restored(file.saved)
  IN IF file.state = "valid"
     THEN {[f |-> IF HasSystemic(f) THEN f ELSE Empty, base |-> version]}
     ELSE {[f |-> Empty, base |-> 0]}

\* load_or_create_fabric: on any error, of the read as of a torn file, the command
\* starts fresh.
Loads ==
  {[f |-> Empty, base |-> 0]} \cup
  IF file.state = "valid" THEN {[f |-> Restored(file.saved), base |-> version]} ELSE {}

Seeded(f, i) ==
  IF HasSystemic(f) THEN f ELSE Create(f, i, [Fresh(Systemic) EXCEPT !.meta = Innate])

Begin(p, f, base, ids) ==
  /\ proc[p] = Down
  /\ saves < MaxSaves
  /\ {used + n : n \in 1..ids} \subseteq Ids
  /\ f.clock <= MaxClock
  /\ used' = used + ids
  /\ proc' = [proc EXCEPT ![p] = Up(f, base)]
  /\ UNCHANGED <<ops, file, saves, version, kept, exposed, overwritten>>

CmdInit(p, l) == ~HasSystemic(l.f) /\ Begin(p, Seeded(l.f, NewId), l.base, 1)

Wants == {c.want : c \in Contents}

Added(want, args) == [Fresh(Wanting(want)) EXCEPT !.meta = WithCount(ParseMeta(args), 0)]

CmdAdd(p, l, want, args) ==
  IF HasSystemic(l.f) THEN Begin(p, Create(l.f, NewId, Added(want, args)), l.base, 1)
  ELSE Begin(p, Create(Seeded(l.f, NewId), NewId + 1, Added(want, args)), l.base, 2)

\* With a query every node is mutated first, to embed it, and resonance may find any
\* of those that match; without one all do, up to the limit, ranked by weight.  Those
\* found are stamped.
CmdSearch(p, l, query, clause) ==
  LET matching == Matching(l.f.nodes, clause)
  IN \E all \in IF query THEN SetToSeqs(DOMAIN l.f.nodes) ELSE {<<>>},
        found \in SetToAllKPermutations(matching) :
       /\ Len(found) <= Limit
       /\ query \/ Len(found) = Min({Limit, Cardinality(matching)})
       /\ Begin(p, Touch(Touch(l.f, all, FALSE), found, TRUE), l.base, 0)

(***************************************************************************)
(* Saving.                                                                 *)
(***************************************************************************)

\* Others that have the file open for writing.
Writing(p) == {q \in Processes \ {p} : proc[q].pc = "writing"}

Truncate(p) ==
  /\ proc[p].pc = "up"
  /\ saves < MaxSaves
  /\ saves' = saves + 1
  /\ file' = Torn
  /\ proc' = [proc EXCEPT ![p].pc = "writing"]
  /\ exposed' = (exposed \/ proc[p].base # version \/ Writing(p) # {})
  /\ UNCHANGED <<ops, used, version, kept, overwritten>>

\* The command ends; the host goes on.
AfterSave(p) ==
  IF p = Host THEN [proc[p] EXCEPT !.pc = "up", !.base = version + 1, !.gone = {}] ELSE Down

\* Over what another process wrote since, a shorter text leaves the tail of the longer.
WriteFile(p) ==
  /\ proc[p].pc = "writing"
  /\ \/ \E first \in Orders(proc[p].f) :
          file' = IF IsReadable(proc[p].f)
                  THEN [state |-> "valid", saved |-> Save(proc[p].f, first)] ELSE Torn
     \/ file.state = "valid" /\ file' = Torn
  /\ version' = version + 1
  /\ kept' = (kept \ proc[p].gone) \cup AllHad(p)
  /\ proc' = [proc EXCEPT ![p] = AfterSave(p)]
  /\ exposed' = (exposed \/ ~IsReadable(proc[p].f))
  /\ UNCHANGED <<ops, used, saves, overwritten>>

\* A crash, or an error of the write, which the command answers by exiting.
Stop(p) ==
  /\ proc[p] # Down
  /\ exposed' = (exposed \/ proc[p].pc = "writing")
  /\ proc' = [proc EXCEPT ![p] = Down]
  /\ UNCHANGED <<ops, file, used, saves, version, kept, overwritten>>

HostStep ==
  \/ Open
  \/ \E c \in Contents : AddNode(c)
  \/ \E i \in Ids, c \in Contents : AddCopy(i, c) \/ MutateNode(i, c)
  \/ \E i \in Ids : FadeNode(i)
  \/ \E a, b \in Ids, k \in Kinds : LinkNodes(a, b, k)
  \/ \E a, b \in Ids : UnlinkNodes(a, b) \/ ApplyModifyEdge(a, b) \/ InferAndLearn(a, b)

Command(p) ==
  \E l \in Loads :
    \/ CmdInit(p, l)
    \/ \E want \in Wants, args \in Metas : CmdAdd(p, l, want, args)
    \/ \E query \in BOOLEAN, clause \in Clauses : CmdSearch(p, l, query, clause)

Next ==
  \/ HostStep
  \/ \E p \in Commands : Command(p)
  \/ \E p \in Processes : Truncate(p) \/ WriteFile(p) \/ Stop(p)

Spec == Init /\ [][Next]_vars

(***************************************************************************)
(* Properties.                                                             *)
(***************************************************************************)

TypeOK ==
  /\ file \in {Absent, Torn} \/ file.state = "valid"
  /\ \A p \in Processes :
       \/ proc[p] = Down
       \/ /\ proc[p].pc \in {"up", "writing"} /\ IsFabric(proc[p].f)
          /\ proc[p].base \in 0..version /\ proc[p].gone \subseteq 1..used
  /\ used \in 0..Cardinality(Ids) /\ ops \in 0..MaxOps /\ saves \in 0..MaxSaves /\ version \in 0..saves
  /\ kept \subseteq 1..used
  /\ {exposed, overwritten} \subseteq BOOLEAN

Live == {p \in Processes : proc[p] # Down}
Count(edges, t) == Cardinality({n \in DOMAIN edges : edges[n].target = t})

\* The three copies of the graph agree, whatever was added, removed, faded or
\* restored: the reverse index counts every edge, no edge dangles, and the context
\* a node carries is its edges (unless a copy brought its own).
EdgesMirrored ==
  \A p \in Live : LET f == proc[p].f IN
    /\ \A s, t \in Ids : f.rev[t][s] = Count(f.edges[s], t)
    /\ \A s, t \in Ids : f.rev[t][s] > 0 => s # t /\ {s, t} \subseteq DOMAIN f.nodes
    /\ (p = Host /\ overwritten) \/ \A i \in DOMAIN f.nodes : f.nodes[i].context = f.edges[i]

\* get_node_by_signature answers with a node of that signature, or not at all, across
\* collisions, fading and mutation, unless a copy replaced a live node; and no node
\* is found damaged, although loading computes anew what the file does not hold.
IndexNamesItsOwner ==
  \A p \in Live : LET f == proc[p].f IN
    /\ Damaged(f) = {}
    /\ (p = Host /\ overwritten) \/
       \A s \in DOMAIN f.index :
         f.index[s] \in DOMAIN f.nodes /\ f.nodes[f.index[s]].signature = s

\* The Lamport timestamps of a fabric tell its nodes apart and none is ahead of the
\* clock, through saves, loads and the command's bulk mutation.
TimestampsOrderNodes ==
  \A p \in Live : LET f == proc[p].f IN
    /\ \A i \in DOMAIN f.nodes : f.nodes[i].ts <= f.clock
    /\ \A i, j \in DOMAIN f.nodes : f.nodes[i].ts = f.nodes[j].ts => i = j

\* The two halves of aggregate answer alike: over the groups, the counts and the sums
\* add up to those of no groups, although one skips a node without the field and the
\* other counts it as 0; and a value is found by the text it is shown as, unless it
\* is a number that is not finite.
Sums(groups) == SumFunction([g \in DOMAIN groups |-> groups[g][1]])

QueriesAgree ==
  \A p \in Live : LET nodes == proc[p].f.nodes IN
    /\ \A clause \in Clauses, by \in {"kind", "activation_count"} :
         /\ Sums(Grouped(nodes, clause, "count", "cost", by)) = Flat(nodes, clause, "count", "cost")[1]
         /\ LET sum == Flat(nodes, clause, "sum", "cost")
                groups == Grouped(nodes, clause, "sum", "cost", by)
            IN IF sum = <<>> THEN \E g \in DOMAIN groups : groups[g] = <<>>
               ELSE Sums(groups) = sum[1]
    /\ \A i \in DOMAIN nodes : \A k \in DOMAIN nodes[i].meta : LET v == nodes[i].meta[k] IN
         PredicateMatches(nodes[i].meta, [key |-> k, op |-> "=", text |-> v.repr])
           <=> (v.type = "Float" => IsFinite(v))

\* Saving a fabric whose numbers are finite and loading the file loses no node, content
\* (also two of one signature), version, metadata, edge or timestamp, although
\* from_persisted drops the edges whose ends it does not find and counts a change of
\* every node it restores.
RoundTrip ==
  \A p \in Live : LET f == proc[p].f IN IsReadable(f) =>
    \A first \in Orders(f) : LET g == Restored(Save(f, first)) IN
      /\ DOMAIN g.nodes = DOMAIN f.nodes
      /\ \A i \in DOMAIN f.nodes :
           [g.nodes[i] EXCEPT !.context = <<>>] = [f.nodes[i] EXCEPT !.context = <<>>]
      /\ <<g.edges, g.rev, g.clock>> = <<f.edges, f.rev, f.clock>>

\* The parts of each fabric in memory, what is asked of it, and what its file would
\* give back agree with each other.
FabricAgrees == EdgesMirrored /\ TimestampsOrderNodes /\ QueriesAgree /\ RoundTrip

\* What a finished save holds stays in the file until it is faded: it takes a save
\* from a stale fabric, which one begun afresh after a failed read is, one cut short,
\* or a number among the metadata that is not finite, to lose a node or the whole file.
KeptUnlessExposed ==
  \/ exposed
  \/ \E p \in Processes : proc[p].pc = "writing"
  \/ file = Absent /\ kept = {}
  \/ file.state = "valid" /\ kept \subseteq DOMAIN file.saved.nodes
=============================================================================
