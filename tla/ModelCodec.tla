----------------------------- MODULE ModelCodec -----------------------------
(***************************************************************************)
(* The generative model as the blob of a LearnedDriver node, and back.     *)
(*                                                                         *)
(* A blob is the sequence of its fields, a number or a string each; lists  *)
(* and the blobs of the regions are preceded by their length.  A reader    *)
(* takes fields off the front; when too few are left it fails for good.    *)
(***************************************************************************)
EXTENDS GenerativeModel

Magic == "EC0C0DEFABC0FFE"
Version == 3

Reading(blob) == [ok |-> TRUE, rest |-> blob, val |-> <<>>]
Failing == [ok |-> FALSE, rest |-> <<>>, val |-> <<>>]

Fields(r, n) ==
  IF r.ok /\ n <= Len(r.rest)
  THEN [ok |-> TRUE, rest |-> SubSeq(r.rest, n + 1, Len(r.rest)), val |-> SubSeq(r.rest, 1, n)]
  ELSE Failing

Counted(s) == <<Len(s)>> \o s
Block(r) ==
  LET n == Fields(r, 1) IN IF n.ok THEN Fields(n, n.val[1]) ELSE Failing

\* Rows of one width, preceded by how many there are.
Table(rows) == <<Len(rows)>> \o FlattenSeq(rows)
Rows(r, width) ==
  LET n == Fields(r, 1)
      all == Fields(n, n.val[1] * width)
  IN IF n.ok /\ all.ok
     THEN [all EXCEPT !.val = [i \in 1..n.val[1] |-> SubSeq(@, (i - 1) * width + 1, i * width)]]
     ELSE Failing

Each(s, F(_)) == [i \in DOMAIN s |-> F(s[i])]

(***************************************************************************)
(* Discrete models.  A region keeps the model it has when the blob is not  *)
(* one of its own dimensions.                                              *)
(***************************************************************************)
EncodeDiscrete(d) == <<1>> \o d.dims \o <<d.seen>>

NoDiscrete == [dims |-> <<>>]
DecodeDiscrete(blob) ==
  LET r == Fields(Reading(blob), 5)
  IN IF r.ok /\ r.val[1] = 1 THEN [dims |-> SubSeq(r.val, 2, 4), seen |-> r.val[5]]
     ELSE NoDiscrete

RestoreFromBytes(region, blob) ==
  LET d == DecodeDiscrete(blob)
  IN IF d.dims = region.model.dims THEN [region EXCEPT !.model = d] ELSE region

EncodeDevices(devices) ==
  <<Len(devices)>> \o FlattenSeq(Each(devices,
     LAMBDA d : <<d.label, "storage">> \o Counted(EncodeDiscrete(d.model))))

DecodeDevices(r) ==
  LET n == Fields(r, 1)
      Device(acc) ==
        LET names == Fields(acc, 2)
            blob == Block(names)
        IN IF ~blob.ok THEN Failing
           ELSE [blob EXCEPT !.val =
                   IF names.val[2] = "storage"
                   THEN Append(acc.val, RestoreFromBytes(StorageAgent(names.val[1]), @))
                   ELSE acc.val]
      read[i \in 0..n.val[1]] ==
        IF i = 0 THEN [n EXCEPT !.val = <<>>] ELSE Device(read[i - 1])
  IN IF n.ok THEN read[n.val[1]] ELSE Failing

(***************************************************************************)
(* The parts that follow the regions.                                      *)
(***************************************************************************)
EncodeGraph(g) ==
  Table(Each(g.nodes, LAMBDA n : <<n.id, n.label, n.region, n.observations>>))
  \o Table(Each(g.edges, LAMBDA e : <<e.cause, e.effect, e.observations>>))
  \o <<g.next>>

DecodeGraph(r) ==
  LET nodes == Rows(r, 4)
      edges == Rows(nodes, 3)
      next == Fields(edges, 1)
  IN IF ~next.ok THEN Failing
     ELSE [next EXCEPT !.val =
       [nodes |-> Each(nodes.val, LAMBDA v : [id |-> v[1], label |-> v[2], region |-> v[3],
                                              observations |-> v[4]]),
        edges |-> Each(edges.val, LAMBDA v : [cause |-> v[1], effect |-> v[2],
                                              observations |-> v[3]]),
        next |-> @[1]]]

EncodeConstitution(c) ==
  <<c.substrate.addressed, c.substrate.redirected, c.substrate.rendered,
    c.substrate.notAddressed, c.surprisability.updated, c.surprisability.novel,
    c.surprisability.locked>>

DecodeConstitution(v) ==
  [substrate |-> [addressed |-> v[1], redirected |-> v[2], rendered |-> v[3],
                  notAddressed |-> v[4]],
   surprisability |-> [updated |-> v[5], novel |-> v[6], locked |-> v[7]]]

EncodePreferences(p) == p.questions \o EncodeConstitution(p.constitution)
DecodePreferences(r) ==
  LET questions == Fields(r, 8)
      constitution == Fields(questions, 7)
  IN IF ~constitution.ok THEN Failing
     ELSE [constitution EXCEPT !.val = [questions |-> questions.val,
                                        constitution |-> DecodeConstitution(@)]]

EncodeCounts(c) ==
  <<c.substrate, c.surprisability, c.addressed, c.rendered, c.updated, c.novel>>
DecodeCounts(r) ==
  LET f == Fields(r, 6)
  IN IF ~f.ok THEN Failing
     ELSE [f EXCEPT !.val = [substrate |-> @[1], surprisability |-> @[2],
                             addressed |-> @[3], rendered |-> @[4],
                             updated |-> @[5], novel |-> @[6]]]

Nobody32 == "u32::MAX"
EncodeAgent(a) ==
  <<a.id, a.name, a.cadence, a.lastTick, a.spawnedAt,
    IF a.spawnedBy = NobodySpawned THEN Nobody32 ELSE a.spawnedBy, a.state>>

DecodeAgent(v) ==
  [id |-> v[1], name |-> v[2], cadence |-> v[3], lastTick |-> v[4], spawnedAt |-> v[5],
   spawnedBy |-> IF v[6] = Nobody32 THEN NobodySpawned ELSE v[6], state |-> v[7]]

EncodeRegistry(a) == Table(Each(a.agents, EncodeAgent)) \o <<a.next>>
DecodeRegistry(r) ==
  LET agents == Rows(r, 7)
      next == Fields(agents, 1)
  IN IF ~next.ok THEN Failing
     ELSE [next EXCEPT !.val = [agents |-> Each(agents.val, DecodeAgent), next |-> @[1]]]

EncodeHistory(h) ==
  Counted(h.fe) \o Table(Each(h.surprises, LAMBDA s : <<s.lamport, s.region, s.surprise>>))

DecodeHistory(r) ==
  LET fe == Block(r)
      surprises == Rows(fe, 3)
  IN IF ~surprises.ok THEN Failing
     ELSE [surprises EXCEPT !.val =
       [fe |-> fe.val,
        surprises |-> Each(@, LAMBDA v : [lamport |-> v[1], region |-> v[2], surprise |-> v[3]])]]

(***************************************************************************)
(* The model.                                                              *)
(***************************************************************************)
Encode(m) ==
  LET p == m.persistence
      o == m.operator
  IN <<Magic, Version, m.lamport, m.boots, m.total, m.learned, m.risk>>
     \o EncodeDevices(m.devices)
     \o Counted(EncodeDiscrete(p.model))
     \o <<p.persists, p.failedPersists, p.restores, p.failedRestores, p.threshold>>
     \o Counted(EncodeDiscrete(o.model))
     \o <<o.intents, o.help, o.unknown>>
     \o Counted(EncodeDiscrete(m.meta.model))
     \o <<m.meta.assessments, m.meta.state>>
     \o EncodeGraph(m.graph) \o <<m.hypotheses>> \o EncodePreferences(m.preferences)
     \o EncodeCounts(m.counts) \o EncodeRegistry(m.agents) \o EncodeHistory(m.history)

Unreadable == [boots |-> 0]

\* The header: the format, and the counters of the whole model.
Header(blob) ==
  LET v == Fields(Reading(blob), 7)
  IN IF ~v.ok \/ SubSeq(v.val, 1, 2) # <<Magic, Version>> THEN Unreadable
     ELSE [lamport |-> v.val[3], boots |-> v.val[4], total |-> v.val[5],
           learned |-> v.val[6], risk |-> v.val[7]]

Decode(blob) ==
  LET devices == DecodeDevices(Fields(Reading(blob), 7))
      p == Block(devices)
      pc == Fields(p, 5)
      o == Block(pc)
      oc == Fields(o, 3)
      meta == Block(oc)
      mc == Fields(meta, 2)
      graph == DecodeGraph(mc)
      pattern == Fields(graph, 1)
      preferences == DecodePreferences(pattern)
      counts == DecodeCounts(preferences)
      agents == DecodeRegistry(counts)
      history == DecodeHistory(agents)
      header == Header(blob)
  IN IF header = Unreadable \/ ~history.ok THEN Unreadable
     ELSE [lamport |-> header.lamport, boots |-> header.boots, total |-> header.total,
           learned |-> header.learned, risk |-> header.risk,
           devices |-> devices.val,
           persistence |->
             [RestoreFromBytes(Persistence, p.val) EXCEPT
                !.persists = pc.val[1], !.failedPersists = pc.val[2],
                !.restores = pc.val[3], !.failedRestores = pc.val[4], !.threshold = pc.val[5]],
           operator |->
             [RestoreFromBytes(Operator, o.val) EXCEPT
                !.intents = oc.val[1], !.help = oc.val[2], !.unknown = oc.val[3]],
           meta |->
             [RestoreFromBytes(MetaRegion, meta.val) EXCEPT
                !.assessments = mc.val[1], !.state = mc.val[2]],
           graph |-> graph.val, hypotheses |-> pattern.val[1],
           preferences |-> preferences.val, counts |-> counts.val,
           agents |-> agents.val, history |-> history.val]
=============================================================================
