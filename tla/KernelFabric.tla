---------------------------- MODULE KernelFabric ----------------------------
(***************************************************************************)
(* The kernel's fabric as a value: what genesis makes of the machine it    *)
(* observes, how nodes and edges are added, and the snapshot it is encoded *)
(* to and decoded from.                                                    *)
(*                                                                         *)
(* A node kind is the sequence of its tag and its fields, numbers all (a   *)
(* text is the number that stands for it).  The id of a node is a hash of  *)
(* that, taken to be injective: the kind itself.  A body is a sequence of  *)
(* fields, a field a sequence of numbers.  Weights, which only decay, are  *)
(* left out.                                                               *)
(***************************************************************************)
EXTENDS Naturals, FiniteSets, SequencesExt

CONSTANTS
  Machine  \* what the firmware and the processor tell about the machine

\* The functions of the PCI bus that answer are listed by address (bus, device,
\* function); features in the order in which they are asked for.
ASSUME MachineAssumption ==
  /\ {Machine.vendor, Machine.brand} \subseteq Nat /\ Machine.features \in Seq(Nat)
  /\ Machine.pci \in Seq([at : [1..3 -> Nat], ids : [1..5 -> Nat], multi : BOOLEAN])
  /\ Machine.memory \in Seq([type : STRING, start : Nat, pages : Nat])
  /\ Machine.headers \in Seq([signature : Nat, length : Nat])
  /\ Machine.dsdt \in Seq([signature : Nat, address : Nat, length : Nat])
  /\ Machine.ssdts \in Seq([signature : Nat, address : Nat, length : Nat])
  /\ Machine.rsdp \in BOOLEAN
  /\ Machine.display \in Seq([1..4 -> Nat])

Tag == [Genesis |-> 0, HwCpu |-> 1, HwCpuFeature |-> 2, HwMemoryRegion |-> 3,
        HwPciDevice |-> 4, HwAcpiTable |-> 5, HwFramebuffer |-> 6, HwStorage |-> 7,
        OperatorIntent |-> 8, FabricResponse |-> 9, SystemEvent |-> 10, LearnedDriver |-> 11]
EdgeTag == [Contains |-> 0, OnBus |-> 1, Describes |-> 2, Causes |-> 3]

\* LearnedDriver { kind, observations, avg_surprise, params }
Params(kind) == SubSeq(kind, 5, Len(kind))

Empty == [nodes |-> <<>>, edges |-> <<>>, lamport |-> 0]
Id(kind) == kind
Ids(f) == {f.nodes[n].id : n \in DOMAIN f.nodes}

Tick(f) == [f EXCEPT !.lamport = @ + 1]

\* mutant: a node of the same content is made again
CreateAgain(f, kind) ==
  LET g == Tick(f)
  IN [g EXCEPT !.nodes = Append(@, [id |-> Id(kind), created |-> g.lamport, kind |-> kind])]

\* What was there before stays as it was, and time does not pass.
Create(f, kind) ==
  IF Id(kind) \in Ids(f) THEN f
  ELSE LET g == Tick(f)
       IN [g EXCEPT !.nodes = Append(@, [id |-> Id(kind), created |-> g.lamport, kind |-> kind])]

Link(f, e) == IF e \in ToSet(f.edges) THEN f ELSE [f EXCEPT !.edges = Append(@, e)]
Edge(s, t, k) == [source |-> Id(s), target |-> Id(t), kind |-> k]

(***************************************************************************)
(* Observing the machine.                                                  *)
(***************************************************************************)
CpuObserved ==
  [vendor |-> Machine.vendor, brand |-> Machine.brand, features |-> Machine.features]

\* The elements of s that are in S, in their order.
Among(s, S) ==
  LET kept[n \in 0..Len(s)] ==
        IF n = 0 THEN <<>> ELSE IF s[n] \in S THEN Append(kept[n - 1], s[n]) ELSE kept[n - 1]
  IN kept[Len(s)]

\* The functions of a device are tried only when function 0 answers, and the others
\* only when its header says there are more.
Answering ==
  {p \in ToSet(Machine.pci) :
     \/ p.at[3] = 0
     \/ \E first \in ToSet(Machine.pci) : first.at = [p.at EXCEPT ![3] = 0] /\ first.multi}

PciObserved ==
  LET scan == Among(Machine.pci, Answering)
  IN [n \in DOMAIN scan |-> scan[n].at \o scan[n].ids]

\* MemoryKind, in the order of the enum.
MemoryKind(type) ==
  CASE type = "CONVENTIONAL" -> 0
    [] type \in {"RESERVED", "UNUSABLE"} -> 1
    [] type \in {"LOADER_CODE", "LOADER_DATA", "BOOT_SERVICES_CODE", "BOOT_SERVICES_DATA"} -> 2
    [] type \in {"ACPI_RECLAIM", "ACPI_NON_VOLATILE"} -> 3
    [] type \in {"MMIO", "MMIO_PORT_SPACE"} -> 4
    [] OTHER -> 5

\* Addresses in pages; descriptors of no page are skipped.
MemoryObserved ==
  LET used == Among(Machine.memory, {d \in ToSet(Machine.memory) : d.pages > 0})
  IN [n \in DOMAIN used |-> [start |-> used[n].start, end |-> used[n].start + used[n].pages,
                             kind |-> MemoryKind(used[n].type)]]

(***************************************************************************)
(* Genesis: a node for everything observed, and one that holds them all.   *)
(***************************************************************************)
CpuNode == <<Tag.HwCpu, CpuObserved.vendor, CpuObserved.brand>>

FeatureNodes ==
  [n \in DOMAIN CpuObserved.features |-> <<Tag.HwCpuFeature, CpuObserved.features[n]>>]

\* Regions of less than a page are skipped.
MemoryNodes ==
  LET large == Among(MemoryObserved, {r \in ToSet(MemoryObserved) : r.end - r.start >= 1})
  IN [n \in DOMAIN large |-> <<Tag.HwMemoryRegion, large[n].start, large[n].end, large[n].kind>>]

FramebufferNodes ==
  [n \in DOMAIN Machine.display |-> <<Tag.HwFramebuffer>> \o Machine.display[n]]

PciNodes == [n \in DOMAIN PciObserved |-> <<Tag.HwPciDevice>> \o PciObserved[n]]

\* A header's node has address 0: two tables of one name and length are one node.
AcpiNodes ==
  LET table(t, address) == <<Tag.HwAcpiTable, t.signature, address, t.length>>
      each(ts) == [n \in DOMAIN ts |-> table(ts[n], ts[n].address)]
  IN IF ~Machine.rsdp THEN <<>>
     ELSE [n \in DOMAIN Machine.headers |-> table(Machine.headers[n], 0)]
          \o each(Machine.dsdt) \o each(Machine.ssdts)

\* Nodes of these kinds, one after the other; edges from s to these nodes.
CreateAll(f, kinds) ==
  LET made[n \in 0..Len(kinds)] == IF n = 0 THEN f ELSE Create(made[n - 1], kinds[n])
  IN made[Len(kinds)]

LinkAll(f, s, nodes, k) ==
  LET made[n \in 0..Len(nodes)] ==
        IF n = 0 THEN f ELSE Link(made[n - 1], Edge(s, nodes[n], k))
  IN made[Len(nodes)]

Observed ==
  <<CpuNode>> \o FeatureNodes \o MemoryNodes \o FramebufferNodes \o PciNodes \o AcpiNodes

Genesis ==
  LET seen == CreateAll(Empty, Observed)
      root == <<Tag.Genesis, seen.lamport, Len(Observed)>>
      cpu == LinkAll(Create(seen, root), root, <<CpuNode>>, "Contains")
      features == LinkAll(cpu, CpuNode, FeatureNodes, "Contains")
      devices == LinkAll(features, root, MemoryNodes \o PciNodes, "Contains")
      tables == LinkAll(devices, root, AcpiNodes, "Describes")
  IN LinkAll(tables, root, FramebufferNodes, "Contains")

\* The disk that was picked: its node is not linked to the others.
WithStorage(f, device) == Create(f, <<Tag.HwStorage, device.label, device.blocks, device.size>>)

(***************************************************************************)
(* What the kernel's loop adds.                                            *)
(***************************************************************************)
Exchange(f, line, answer) ==
  LET asked == Tick(f)
      intent == <<Tag.OperatorIntent, line, asked.lamport>>
      answered == Tick(Create(asked, intent))
      response == <<Tag.FabricResponse, answer, answered.lamport>>
  IN Link(Create(answered, response), Edge(intent, response, "Causes"))

Event(f, text) == Create(f, <<Tag.SystemEvent, text, f.lamport>>)

Model == 0
Storage == 1
Learned(f, driver, blob) ==
  Create(f, <<Tag.LearnedDriver, driver, Len(blob), 0>> \o blob)

(***************************************************************************)
(* The snapshot's body.                                                    *)
(***************************************************************************)
Words(s) == [n \in DOMAIN s |-> <<s[n]>>]
Header(f) == <<<<Len(f.nodes)>>, <<Len(f.edges)>>, <<f.lamport>>>>

\* A LearnedDriver's params follow their number.
EncodeNode(n) ==
  <<n.id, <<n.created>>>>
  \o IF n.kind[1] = Tag.LearnedDriver
     THEN Words(SubSeq(n.kind, 1, 4) \o <<Len(Params(n.kind))>> \o Params(n.kind))
     ELSE Words(n.kind)

EncodeEdge(e) == <<e.source, e.target, <<EdgeTag[e.kind]>>>>

EncodeSnapshot(f) ==
  Header(f) \o FlattenSeq([n \in DOMAIN f.nodes |-> EncodeNode(f.nodes[n])])
            \o FlattenSeq([n \in DOMAIN f.edges |-> EncodeEdge(f.edges[n])])

\* How many fields follow each tag but the last.
Layout == <<2, 2, 1, 3, 8, 3, 4, 3, 2, 2, 2>>

Failing == [ok |-> FALSE, off |-> 0, items |-> <<>>]

\* The n fields at a reader's place, and past it.
Have(body, r, n) == r.ok /\ r.off + n <= Len(body)
Word(body, r, n) == body[r.off + n][1]
Past(r, n, item) == [r EXCEPT !.off = @ + n, !.items = Append(@, item)]

DecodeNode(body, r) ==
  LET node(n, kind) == Past(r, n, [id |-> body[r.off + 1], created |-> Word(body, r, 2), kind |-> kind])
      words(a, b) == [m \in 1..(b - a + 1) |-> Word(body, r, a + m - 1)]
  IN IF ~Have(body, r, 3) THEN Failing
     ELSE LET tag == Word(body, r, 3) IN
       IF tag + 1 \in DOMAIN Layout
       THEN IF Have(body, r, 3 + Layout[tag + 1])
            THEN node(3 + Layout[tag + 1], words(3, 3 + Layout[tag + 1])) ELSE Failing
       ELSE IF tag = Tag.LearnedDriver /\ Have(body, r, 7) /\ Have(body, r, 7 + Word(body, r, 7))
            THEN node(7 + Word(body, r, 7), words(3, 6) \o words(8, 7 + Word(body, r, 7)))
            ELSE Failing

DecodeEdge(body, r) ==
  IF ~Have(body, r, 3) \/ \A k \in DOMAIN EdgeTag : EdgeTag[k] # Word(body, r, 3) THEN Failing
  ELSE Past(r, 3, [source |-> body[r.off + 1], target |-> body[r.off + 2],
                   kind |-> CHOOSE k \in DOMAIN EdgeTag : EdgeTag[k] = Word(body, r, 3)])

\* What a reader is after that many nodes, or edges.
DecodeNodes(body, start, count) ==
  LET read[n \in 0..count] == IF n = 0 THEN start ELSE DecodeNode(body, read[n - 1])
  IN read[count]

DecodeEdges(body, start, count) ==
  LET read[n \in 0..count] == IF n = 0 THEN start ELSE DecodeEdge(body, read[n - 1])
  IN read[count]

\* A sequence of at most one fabric: none when the body cannot be read.
DecodeSnapshot(body) ==
  LET start == [ok |-> TRUE, off |-> 3, items |-> <<>>]
      nodes == DecodeNodes(body, start, body[1][1])
      edges == DecodeEdges(body, [nodes EXCEPT !.items = <<>>], body[2][1])
  IN IF Len(body) < 3 \/ ~edges.ok THEN <<>>
     ELSE <<[nodes |-> nodes.items, edges |-> edges.items, lamport |-> body[3][1]]>>

\* What every fabric is: ids and times tell its nodes apart, none is newer than the
\* clock, and no edge dangles.
IsSound(f) ==
  /\ Cardinality(Ids(f)) = Len(f.nodes)
  /\ Cardinality({f.nodes[n].created : n \in DOMAIN f.nodes}) = Len(f.nodes)
  /\ \A n \in DOMAIN f.nodes : f.nodes[n].created <= f.lamport /\ f.nodes[n].id = Id(f.nodes[n].kind)
  /\ \A n \in DOMAIN f.edges : {f.edges[n].source, f.edges[n].target} \subseteq Ids(f)
=============================================================================
