----------------------- MODULE KernelSnapshot_proofs -----------------------
(***************************************************************************)
(* Theorems of KernelSnapshot, for any machine, list of devices, size of a *)
(* block and interval of flushes.                                          *)
(***************************************************************************)
EXTENDS KernelSnapshot, FiniteSetTheorems, NaturalsInduction, WellFoundedInduction, TLAPS

-----------------------------------------------------------------------------
(***************************************************************************)
(* Numbers, and functions defined by recursion over them.                  *)
(***************************************************************************)
LEMMA NatsHaveLeast ==
  ASSUME NEW T \in SUBSET Nat, T # {}
  PROVE  \E n \in T : \A m \in T : n <= m
<1>1. PICK n \in T : \A m \in T : ~ (<<m, n>> \in OpToRel(<, Nat))
  BY NatLessThanWellFounded, WFMin
<1>2. \A m \in T : ~ (m < n)
  BY <1>1 DEF OpToRel
<1>3. QED
  BY <1>2

LEMMA NatSetInduction ==
  ASSUME NEW P \in SUBSET Nat, 0 \in P, \A n \in P : n + 1 \in P
  PROVE  P = Nat
<1>1. SUFFICES ASSUME Nat \ P # {}
               PROVE  FALSE
  OBVIOUS
<1>2. PICK n \in Nat \ P : \A m \in Nat \ P : n <= m
  BY <1>1, NatsHaveLeast
<1>3. n - 1 \in Nat /\ n - 1 \in P
  BY <1>2
<1>4. QED
  BY <1>2, <1>3

\* What is true at 0 and stays true up to len is true up to len.
LEMMA UpTo ==
  ASSUME NEW len \in Nat, NEW T, 0 \in T, \A n \in 1..len : n - 1 \in T => n \in T
  PROVE  \A n \in 0..len : n \in T
<1> DEFINE P == {n \in Nat : n <= len => n \in T}
<1>1. 0 \in P
  OBVIOUS
<1>2. ASSUME NEW n \in P
      PROVE  n + 1 \in P
  <2>1. n \in Nat /\ (n <= len => n \in T)
    OBVIOUS
  <2>2. n + 1 <= len => n + 1 \in 1..len /\ (n + 1) - 1 = n /\ n <= len
    BY <2>1
  <2>3. n + 1 <= len => n + 1 \in T
    BY <2>1, <2>2
  <2>4. QED
    BY <2>1, <2>3
<1> HIDE DEF P
<1>3. P = Nat
  <2>1. P \in SUBSET Nat
    BY DEF P
  <2>2. QED
    BY <1>1, <1>2, <2>1, NatSetInduction
<1>4. QED
  BY <1>3 DEF P

\* g is a value of X for each number up to len, each made by a step from the one before it.
StepsOn(X, len) == [1..len -> [X -> X]]
Follows(g, X, x, len, step) ==
  /\ g \in [0..len -> X] /\ g[0] = x
  /\ \A n \in 1..len : g[n] = step[n][g[n - 1]]

LEMMA Recursion ==
  ASSUME NEW X, NEW x \in X, NEW len \in Nat, NEW step \in StepsOn(X, len)
  PROVE  \E g : Follows(g, X, x, len, step)
<1> DEFINE Climbs(g, k) == g[0] = x /\ \A n \in 1..k : g[n] = step[n][g[n - 1]]
           T == {k \in 0..len : \E g \in [0..k -> X] : Climbs(g, k)}
<1>1. 0 \in T
  <2>1. PICK g : g = [n \in {0} |-> x]
    OBVIOUS
  <2>2. g \in [0..0 -> X] /\ Climbs(g, 0)
    BY <2>1
  <2>3. QED
    BY <2>2
<1>2. ASSUME NEW k \in 1..len, k - 1 \in T
      PROVE  k \in T
  <2>1. PICK g \in [0..(k - 1) -> X] : Climbs(g, k - 1)
    BY <1>2
  <2>2. step[k] \in [X -> X]
    BY DEF StepsOn
  <2>3. k - 1 \in 0..(k - 1) /\ g[k - 1] \in X
    OBVIOUS
  <2>10. step[k][g[k - 1]] \in X
    BY <2>2, <2>3
  <2>4. PICK h : h = [n \in 0..k |-> IF n = k THEN step[k][g[k - 1]] ELSE g[n]]
    OBVIOUS
  <2>5. h \in [0..k -> X]
    <3>1. ASSUME NEW n \in 0..k, n # k
          PROVE  g[n] \in X
      <4>1. n \in 0..(k - 1)
        BY <3>1
      <4>2. QED
        BY <4>1
    <3>2. QED
      BY <2>10, <2>4, <3>1
  <2>6. ASSUME NEW n \in 1..k
        PROVE  h[n] = step[n][h[n - 1]]
    <3>1. CASE n = k
      <4>1. n - 1 \in 0..k /\ n - 1 # k
        BY <3>1
      <4>2. h[n - 1] = g[n - 1] /\ h[n] = step[k][g[k - 1]]
        BY <2>4, <3>1, <4>1
      <4>3. QED
        BY <3>1, <4>2
    <3>2. CASE n # k
      <4>1. n \in 1..(k - 1) /\ n \in 0..k /\ n - 1 \in 0..k /\ n - 1 # k
        BY <3>2
      <4>2. h[n] = g[n] /\ h[n - 1] = g[n - 1]
        BY <2>4, <3>2, <4>1
      <4>3. QED
        BY <2>1, <4>1, <4>2
    <3>3. QED
      BY <3>1, <3>2
  <2>7. h[0] = x
    BY <2>1, <2>4
  <2>8. Climbs(h, k)
    BY <2>6, <2>7
  <2> HIDE DEF Climbs
  <2>9. QED
    BY <2>5, <2>8
<1> HIDE DEF T
<1>3. len \in T
  <2>1. \A n \in 0..len : n \in T
    BY <1>1, <1>2, UpTo
  <2>2. QED
    BY <2>1
<1>4. QED
  BY <1>3 DEF T, Follows

-----------------------------------------------------------------------------
(***************************************************************************)
(* Fabrics: their types, and what is true of every fabric.                 *)
(***************************************************************************)
Kinds == {k \in Seq(Nat) :
  \/ Len(k) >= 1 /\ k[1] + 1 \in DOMAIN Layout /\ Len(k) = 1 + Layout[k[1] + 1]
  \/ Len(k) >= 4 /\ k[1] = Tag.LearnedDriver}
Nodes == {n \in [id : Kinds, created : Nat, kind : Kinds] : n.id = n.kind}
Edges == [source : Kinds, target : Kinds, kind : DOMAIN EdgeTag]
Fabrics == [nodes : Seq(Nodes), edges : Seq(Edges), lamport : Nat]

Sound(f) ==
  /\ f \in Fabrics
  /\ \A n \in DOMAIN f.nodes : f.nodes[n].created <= f.lamport
  /\ \A m, n \in DOMAIN f.nodes :
       m < n => f.nodes[m].created < f.nodes[n].created /\ f.nodes[m].id # f.nodes[n].id
  /\ \A n \in DOMAIN f.edges : f.edges[n].source \in Ids(f) /\ f.edges[n].target \in Ids(f)

LEMMA FabricParts ==
  ASSUME NEW f \in Fabrics
  PROVE  /\ f.nodes \in Seq(Nodes) /\ f.edges \in Seq(Edges) /\ f.lamport \in Nat
         /\ f = [nodes |-> f.nodes, edges |-> f.edges, lamport |-> f.lamport]
BY DEF Fabrics

LEMMA NodeParts ==
  ASSUME NEW f \in Fabrics, NEW n \in DOMAIN f.nodes
  PROVE  /\ f.nodes[n].id \in Kinds /\ f.nodes[n].created \in Nat
         /\ f.nodes[n] = [id |-> f.nodes[n].id, created |-> f.nodes[n].created,
                          kind |-> f.nodes[n].id]
<1>1. f.nodes \in Seq(Nodes)
  BY FabricParts
<1>2. f.nodes[n] \in Nodes
  BY <1>1
<1>3. QED
  BY <1>2 DEF Nodes

LEMMA EmptySound == Sound(Empty)
BY DEF Sound, Empty, Fabrics

LEMMA TickSound ==
  ASSUME NEW f, Sound(f)
  PROVE  /\ Sound(Tick(f)) /\ Ids(Tick(f)) = Ids(f)
         /\ \A n \in DOMAIN f.nodes : f.nodes[n].created < Tick(f).lamport
<1>1. f \in Fabrics /\ f.lamport \in Nat
  BY FabricParts DEF Sound
<1>2. Tick(f) = [nodes |-> f.nodes, edges |-> f.edges, lamport |-> f.lamport + 1]
  BY <1>1 DEF Tick, Fabrics
<1>3. Tick(f) \in Fabrics
  BY <1>1, <1>2 DEF Fabrics
<1>4. Ids(Tick(f)) = Ids(f)
  BY <1>2 DEF Ids
<1>5. \A n \in DOMAIN f.nodes : f.nodes[n].created \in Nat
  BY <1>1, NodeParts
<1>6. \A n \in DOMAIN f.nodes : f.nodes[n].created <= f.lamport /\ f.nodes[n].created \in Nat
  BY <1>5 DEF Sound
<1>7. \A n \in DOMAIN f.nodes : /\ f.nodes[n].created <= f.lamport + 1
                                /\ f.nodes[n].created < f.lamport + 1
  BY <1>1, <1>6
<1>8. QED
  BY <1>2, <1>3, <1>4, <1>7 DEF Sound

\* A node that is made anew.
Fresh(f, kind) == [id |-> Id(kind), created |-> Tick(f).lamport, kind |-> kind]

LEMMA CreateIs ==
  ASSUME NEW f \in Fabrics, NEW kind
  PROVE  /\ kind \in Ids(f) => Create(f, kind) = f
         /\ kind \notin Ids(f) => Create(f, kind) =
              [nodes |-> Append(f.nodes, Fresh(f, kind)), edges |-> f.edges, lamport |-> f.lamport + 1]
BY DEF Create, Tick, Id, Fresh, Fabrics

LEMMA CreateTyped ==
  ASSUME NEW f \in Fabrics, NEW kind \in Kinds
  PROVE  Create(f, kind) \in Fabrics
<1>1. f.nodes \in Seq(Nodes) /\ f.edges \in Seq(Edges) /\ f.lamport \in Nat
  BY FabricParts
<1>2. Tick(f).lamport = f.lamport + 1
  BY DEF Tick, Fabrics
<1>3. Fresh(f, kind) \in Nodes
  BY <1>1, <1>2 DEF Fresh, Nodes, Id
<1>4. Append(f.nodes, Fresh(f, kind)) \in Seq(Nodes)
  BY <1>1, <1>3
<1>5. CASE kind \in Ids(f)
  BY <1>5, CreateIs
<1>6. CASE kind \notin Ids(f)
  <2>1. Create(f, kind) =
          [nodes |-> Append(f.nodes, Fresh(f, kind)), edges |-> f.edges, lamport |-> f.lamport + 1]
    BY <1>6, CreateIs
  <2>2. QED
    BY <1>1, <1>4, <2>1 DEF Fabrics
<1>7. QED
  BY <1>5, <1>6

LEMMA CreateSound ==
  ASSUME NEW f, Sound(f), NEW kind \in Kinds
  PROVE  /\ Sound(Create(f, kind))
         /\ kind \in Ids(Create(f, kind)) /\ Ids(f) \subseteq Ids(Create(f, kind))
         /\ f.lamport <= Create(f, kind).lamport
<1>1. f \in Fabrics /\ f.nodes \in Seq(Nodes) /\ f.lamport \in Nat
  BY FabricParts DEF Sound
<1>2. CASE kind \in Ids(f)
  BY <1>1, <1>2, CreateIs
<1>3. CASE kind \notin Ids(f)
  <2> DEFINE g == Create(f, kind)
             x == Fresh(f, kind)
             len == Len(f.nodes)
  <2>1. g = [nodes |-> Append(f.nodes, x), edges |-> f.edges, lamport |-> f.lamport + 1]
    BY <1>1, <1>3, CreateIs
  <2>2. g \in Fabrics
    BY <1>1, CreateTyped
  <2>3. x.id = kind /\ x.created = f.lamport + 1
    BY <1>1 DEF Fresh, Id, Tick, Fabrics
  <2> HIDE DEF g, x
  <2>4. /\ len \in Nat /\ DOMAIN f.nodes = 1..len /\ DOMAIN g.nodes = 1..(len + 1)
        /\ g.nodes[len + 1] = x /\ \A n \in 1..len : g.nodes[n] = f.nodes[n]
    BY <1>1, <2>1
  <2> HIDE DEF len
  <2>5. \A n \in 1..len : f.nodes[n].created \in Nat /\ f.nodes[n].created <= f.lamport
    BY <1>1, <2>4, NodeParts DEF Sound
  <2>6. \A n \in 1..len : f.nodes[n].id # kind
    BY <1>3, <2>4 DEF Ids
  <2>7. Ids(g) = Ids(f) \cup {kind}
    <3>1. \A y : y \in Ids(g) <=> \E n \in 1..(len + 1) : y = g.nodes[n].id
      BY <2>4 DEF Ids
    <3>2. \A y : y \in Ids(f) <=> \E n \in 1..len : y = f.nodes[n].id
      BY <2>4 DEF Ids
    <3>3. \A n : n \in 1..(len + 1) <=> n \in 1..len \/ n = len + 1
      BY <2>4
    <3>4. ASSUME NEW y \in Ids(g)
          PROVE  y \in Ids(f) \cup {kind}
      <4>1. PICK n \in 1..(len + 1) : y = g.nodes[n].id
        BY <3>1
      <4>2. CASE n = len + 1
        BY <2>3, <2>4, <4>1, <4>2
      <4>3. CASE n \in 1..len
        BY <2>4, <3>2, <4>1, <4>3
      <4>4. QED
        BY <3>3, <4>2, <4>3
    <3>5. ASSUME NEW y \in Ids(f) \cup {kind}
          PROVE  y \in Ids(g)
      <4>1. CASE y = kind
        <5>1. len + 1 \in 1..(len + 1)
          BY <2>4
        <5>2. QED
          BY <2>3, <2>4, <3>1, <4>1, <5>1
      <4>2. CASE y \in Ids(f)
        <5>1. PICK n \in 1..len : y = f.nodes[n].id
          BY <3>2, <4>2
        <5>2. n \in 1..(len + 1) /\ y = g.nodes[n].id
          BY <2>4, <3>3, <5>1
        <5>3. QED
          BY <3>1, <5>2
      <4>3. QED
        BY <4>1, <4>2
    <3>6. QED
      BY <3>4, <3>5
  <2>8. g.edges = f.edges /\ g.lamport = f.lamport + 1
    BY <2>1
  <2>9. \A n \in 1..(len + 1) : g.nodes[n].created <= g.lamport
    <3>1. SUFFICES ASSUME NEW n \in 1..(len + 1)
                   PROVE  g.nodes[n].created <= g.lamport
      OBVIOUS
    <3>2. CASE n \in 1..len
      <4>1. f.nodes[n].created \in Nat /\ f.nodes[n].created <= f.lamport
        BY <2>5, <3>2
      <4>2. g.nodes[n] = f.nodes[n]
        BY <2>4, <3>2
      <4>3. QED
        BY <1>1, <2>8, <4>1, <4>2
    <3>3. CASE n = len + 1
      BY <1>1, <2>3, <2>4, <2>8, <3>3
    <3>4. QED
      BY <2>4, <3>2, <3>3
  <2>10. ASSUME NEW m \in 1..(len + 1), NEW n \in 1..(len + 1), m < n
         PROVE  g.nodes[m].created < g.nodes[n].created /\ g.nodes[m].id # g.nodes[n].id
    <3>1. m \in 1..len /\ (n \in 1..len \/ n = len + 1)
      BY <2>4, <2>10
    <3>2. CASE n \in 1..len
      <4>1. g.nodes[m] = f.nodes[m] /\ g.nodes[n] = f.nodes[n]
        BY <2>4, <3>1, <3>2
      <4>2. m \in DOMAIN f.nodes /\ n \in DOMAIN f.nodes
        BY <2>4, <3>1, <3>2
      <4>3. QED
        BY <2>10, <4>1, <4>2 DEF Sound
    <3>3. CASE n = len + 1
      <4>1. f.nodes[m].created \in Nat /\ f.nodes[m].created <= f.lamport /\ f.nodes[m].id # kind
        BY <2>5, <2>6, <3>1
      <4>2. g.nodes[m] = f.nodes[m] /\ g.nodes[n] = x
        BY <2>4, <3>1, <3>3
      <4>3. QED
        BY <1>1, <2>3, <4>1, <4>2
    <3>4. QED
      BY <3>1, <3>2, <3>3
  <2>11. \A n \in DOMAIN g.edges : g.edges[n].source \in Ids(g) /\ g.edges[n].target \in Ids(g)
    BY <2>7, <2>8 DEF Sound
  <2>12. Sound(g)
    BY <2>2, <2>4, <2>9, <2>10, <2>11 DEF Sound
  <2>13. f.lamport <= g.lamport
    BY <1>1, <2>8
  <2>14. QED
    BY <2>7, <2>12, <2>13 DEF g
<1>4. QED
  BY <1>2, <1>3

LEMMA LinkIs ==
  ASSUME NEW f \in Fabrics, NEW e
  PROVE  \/ Link(f, e) = f
         \/ Link(f, e) = [nodes |-> f.nodes, edges |-> Append(f.edges, e), lamport |-> f.lamport]
BY DEF Link, Fabrics

LEMMA LinkTyped ==
  ASSUME NEW f \in Fabrics, NEW e \in Edges
  PROVE  Link(f, e) \in Fabrics
<1>1. f.nodes \in Seq(Nodes) /\ f.edges \in Seq(Edges) /\ f.lamport \in Nat
  BY FabricParts
<1>2. Append(f.edges, e) \in Seq(Edges)
  BY <1>1
<1>3. CASE Link(f, e) = f
  BY <1>3
<1>4. CASE Link(f, e) = [nodes |-> f.nodes, edges |-> Append(f.edges, e), lamport |-> f.lamport]
  BY <1>1, <1>2, <1>4 DEF Fabrics
<1>5. QED
  BY <1>3, <1>4, LinkIs

LEMMA LinkSound ==
  ASSUME NEW f, Sound(f), NEW s \in Kinds, NEW t \in Kinds, s \in Ids(f), t \in Ids(f),
         NEW k \in DOMAIN EdgeTag
  PROVE  /\ Edge(s, t, k) \in Edges
         /\ Sound(Link(f, Edge(s, t, k))) /\ Ids(Link(f, Edge(s, t, k))) = Ids(f)
<1>1. f \in Fabrics /\ f.edges \in Seq(Edges)
  BY FabricParts DEF Sound
<1> DEFINE e == Edge(s, t, k)
           g == Link(f, e)
<1>2. e \in Edges /\ e.source = s /\ e.target = t
  BY DEF Edge, Edges, Id
<1> HIDE DEF e
<1>3. g \in Fabrics
  BY <1>1, <1>2, LinkTyped
<1>4. CASE g = f
  BY <1>2, <1>4 DEF e
<1>5. CASE g = [nodes |-> f.nodes, edges |-> Append(f.edges, e), lamport |-> f.lamport]
  <2> HIDE DEF g
  <2>1. g.nodes = f.nodes /\ g.lamport = f.lamport /\ Ids(g) = Ids(f)
    BY <1>5 DEF Ids
  <2>2. /\ Len(f.edges) \in Nat /\ DOMAIN f.edges = 1..Len(f.edges)
        /\ DOMAIN g.edges = 1..(Len(f.edges) + 1) /\ g.edges[Len(f.edges) + 1] = e
        /\ \A n \in 1..Len(f.edges) : g.edges[n] = f.edges[n]
    BY <1>1, <1>5
  <2>3. \A n \in DOMAIN g.edges : n \in DOMAIN f.edges \/ n = Len(f.edges) + 1
    BY <2>2
  <2>4. \A n \in DOMAIN g.edges : g.edges[n].source \in Ids(g) /\ g.edges[n].target \in Ids(g)
    BY <1>2, <2>1, <2>2, <2>3 DEF Sound
  <2>5. Sound(g)
    BY <1>3, <2>1, <2>4 DEF Sound
  <2>6. QED
    BY <1>2, <2>1, <2>5 DEF e, g
<1>6. QED
  BY <1>1, <1>4, <1>5, LinkIs

LEMMA CreateAllSound ==
  ASSUME NEW f, Sound(f), NEW kinds \in Seq(Kinds)
  PROVE  /\ Sound(CreateAll(f, kinds)) /\ Ids(f) \subseteq Ids(CreateAll(f, kinds))
         /\ \A n \in DOMAIN kinds : kinds[n] \in Ids(CreateAll(f, kinds))
<1> DEFINE len == Len(kinds)
           Made(g) == g = [n \in 0..len |-> IF n = 0 THEN f ELSE Create(g[n - 1], kinds[n])]
<1>1. len \in Nat /\ DOMAIN kinds = 1..len /\ \A n \in 1..len : kinds[n] \in Kinds
  OBVIOUS
<1> HIDE DEF len
<1>2. \E g : Made(g)
  <2>1. PICK step : step = [n \in 1..len |-> [h \in Fabrics |-> Create(h, kinds[n])]]
    OBVIOUS
  <2>2. step \in StepsOn(Fabrics, len)
    BY <1>1, <2>1, CreateTyped DEF StepsOn
  <2>3. f \in Fabrics
    BY DEF Sound
  <2>4. PICK g : Follows(g, Fabrics, f, len, step)
    BY <1>1, <2>2, <2>3, Recursion
  <2>5. ASSUME NEW n \in 0..len
        PROVE  g[n] = IF n = 0 THEN f ELSE Create(g[n - 1], kinds[n])
    <3>1. CASE n = 0
      BY <2>4, <3>1 DEF Follows
    <3>2. CASE n # 0
      <4>1. n \in 1..len /\ n - 1 \in 0..len
        BY <1>1, <3>2
      <4>2. g[n] = step[n][g[n - 1]] /\ g[n - 1] \in Fabrics
        BY <2>4, <4>1 DEF Follows
      <4>3. QED
        BY <2>1, <3>2, <4>1, <4>2
    <3>3. QED
      BY <3>1, <3>2
  <2>6. PICK again : again = [n \in 0..len |-> IF n = 0 THEN f ELSE Create(g[n - 1], kinds[n])]
    OBVIOUS
  <2>7. g = again
    BY <2>4, <2>5, <2>6 DEF Follows
  <2>8. QED
    BY <2>6, <2>7
<1>3. PICK made : made = CHOOSE g : Made(g)
  OBVIOUS
<1>4. Made(made)
  BY <1>2, <1>3
<1>5. CreateAll(f, kinds) = made[len]
  BY <1>3 DEF CreateAll, len
<1>6. made[0] = f /\ \A n \in 1..len : made[n] = Create(made[n - 1], kinds[n])
  <2>1. 0 \in 0..len /\ \A n \in 1..len : n \in 0..len /\ n # 0
    BY <1>1
  <2>2. QED
    BY <1>4, <2>1
<1> HIDE DEF Made
<1> DEFINE Holds(n) == /\ Sound(made[n]) /\ Ids(f) \subseteq Ids(made[n])
                       /\ \A m \in 1..n : kinds[m] \in Ids(made[n])
           T == {n \in 0..len : Holds(n)}
<1>7. 0 \in T
  BY <1>1, <1>6
<1>8. ASSUME NEW n \in 1..len, n - 1 \in T
      PROVE  n \in T
  <2>1. Holds(n - 1)
    BY <1>8
  <2>2. made[n] = Create(made[n - 1], kinds[n]) /\ kinds[n] \in Kinds
    BY <1>1, <1>6
  <2>3. /\ Sound(made[n]) /\ kinds[n] \in Ids(made[n]) /\ Ids(made[n - 1]) \subseteq Ids(made[n])
    BY <2>1, <2>2, CreateSound
  <2>4. \A m \in 1..n : m \in 1..(n - 1) \/ m = n
    OBVIOUS
  <2>5. Holds(n)
    BY <2>1, <2>3, <2>4
  <2> HIDE DEF Holds
  <2>6. n \in 0..len
    OBVIOUS
  <2>7. QED
    BY <2>5, <2>6
<1> HIDE DEF T
<1>9. len \in T
  <2>1. \A n \in 0..len : n \in T
    BY <1>1, <1>7, <1>8, UpTo
  <2>2. QED
    BY <1>1, <2>1
<1>10. QED
  BY <1>1, <1>5, <1>9 DEF T

LEMMA LinkAllSound ==
  ASSUME NEW f, Sound(f), NEW s \in Kinds, s \in Ids(f), NEW nodes \in Seq(Kinds),
         \A n \in DOMAIN nodes : nodes[n] \in Ids(f), NEW k \in DOMAIN EdgeTag
  PROVE  Sound(LinkAll(f, s, nodes, k)) /\ Ids(LinkAll(f, s, nodes, k)) = Ids(f)
<1> DEFINE len == Len(nodes)
           Made(g) == g = [n \in 0..len |-> IF n = 0 THEN f ELSE Link(g[n - 1], Edge(s, nodes[n], k))]
<1>1. len \in Nat /\ DOMAIN nodes = 1..len /\ \A n \in 1..len : nodes[n] \in Kinds /\ nodes[n] \in Ids(f)
  OBVIOUS
<1> HIDE DEF len
<1>2. \E g : Made(g)
  <2>1. PICK step : step = [n \in 1..len |-> [h \in Fabrics |-> Link(h, Edge(s, nodes[n], k))]]
    OBVIOUS
  <2>2. \A n \in 1..len : Edge(s, nodes[n], k) \in Edges
    BY <1>1, LinkSound
  <2>3. step \in StepsOn(Fabrics, len)
    BY <1>1, <2>1, <2>2, LinkTyped DEF StepsOn
  <2>4. f \in Fabrics
    BY DEF Sound
  <2>5. PICK g : Follows(g, Fabrics, f, len, step)
    BY <1>1, <2>3, <2>4, Recursion
  <2>6. ASSUME NEW n \in 0..len
        PROVE  g[n] = IF n = 0 THEN f ELSE Link(g[n - 1], Edge(s, nodes[n], k))
    <3>1. CASE n = 0
      BY <2>5, <3>1 DEF Follows
    <3>2. CASE n # 0
      <4>1. n \in 1..len /\ n - 1 \in 0..len
        BY <1>1, <3>2
      <4>2. g[n] = step[n][g[n - 1]] /\ g[n - 1] \in Fabrics
        BY <2>5, <4>1 DEF Follows
      <4>3. QED
        BY <2>1, <3>2, <4>1, <4>2
    <3>3. QED
      BY <3>1, <3>2
  <2>7. PICK again : again = [n \in 0..len |-> IF n = 0 THEN f ELSE Link(g[n - 1], Edge(s, nodes[n], k))]
    OBVIOUS
  <2>8. g = again
    BY <2>5, <2>6, <2>7 DEF Follows
  <2>9. QED
    BY <2>7, <2>8
<1>3. PICK made : made = CHOOSE g : Made(g)
  OBVIOUS
<1>4. Made(made)
  BY <1>2, <1>3
<1>5. LinkAll(f, s, nodes, k) = made[len]
  BY <1>3 DEF LinkAll, len
<1>6. made[0] = f /\ \A n \in 1..len : made[n] = Link(made[n - 1], Edge(s, nodes[n], k))
  <2>1. 0 \in 0..len /\ \A n \in 1..len : n \in 0..len /\ n # 0
    BY <1>1
  <2>2. QED
    BY <1>4, <2>1
<1> HIDE DEF Made
<1> DEFINE T == {n \in 0..len : Sound(made[n]) /\ Ids(made[n]) = Ids(f)}
<1>7. 0 \in T
  BY <1>1, <1>6
<1>8. ASSUME NEW n \in 1..len, n - 1 \in T
      PROVE  n \in T
  <2>1. Sound(made[n - 1]) /\ Ids(made[n - 1]) = Ids(f)
    BY <1>8
  <2>2. Sound(made[n]) /\ Ids(made[n]) = Ids(f)
    BY <1>1, <1>6, <2>1, LinkSound
  <2>3. n \in 0..len
    OBVIOUS
  <2>4. QED
    BY <2>2, <2>3
<1> HIDE DEF T
<1>9. len \in T
  <2>1. \A n \in 0..len : n \in T
    BY <1>1, <1>7, <1>8, UpTo
  <2>2. QED
    BY <1>1, <2>1
<1>10. QED
  BY <1>5, <1>9 DEF T

\* A part of a sequence holds what the sequence holds.
LEMMA AmongTyped ==
  ASSUME NEW X, NEW s \in Seq(X), NEW S
  PROVE  Among(s, S) \in Seq(X) /\ \A n \in DOMAIN Among(s, S) : Among(s, S)[n] \in S
<1> DEFINE len == Len(s)
           Y == {x \in X : x \in S}
           Kept(g) == g = [n \in 0..len |->
             IF n = 0 THEN <<>> ELSE IF s[n] \in S THEN Append(g[n - 1], s[n]) ELSE g[n - 1]]
<1>1. len \in Nat /\ \A n \in 1..len : s[n] \in X
  OBVIOUS
<1> HIDE DEF len
<1>2. PICK step : step = [n \in 1..len |-> [t \in Seq(Y) |-> IF s[n] \in S THEN Append(t, s[n]) ELSE t]]
  OBVIOUS
<1>3. step \in StepsOn(Seq(Y), len)
  <2>1. ASSUME NEW n \in 1..len, NEW t \in Seq(Y)
        PROVE  (IF s[n] \in S THEN Append(t, s[n]) ELSE t) \in Seq(Y)
    <3>1. s[n] \in S => s[n] \in Y
      BY <1>1
    <3> HIDE DEF Y
    <3>2. s[n] \in Y => Append(t, s[n]) \in Seq(Y)
      OBVIOUS
    <3>3. QED
      BY <3>1, <3>2
  <2> HIDE DEF Y
  <2>2. QED
    BY <1>2, <2>1 DEF StepsOn
<1> HIDE DEF Y
<1>4. PICK g : Follows(g, Seq(Y), <<>>, len, step)
  <2>1. <<>> \in Seq(Y)
    OBVIOUS
  <2>2. QED
    BY <1>1, <1>3, <2>1, Recursion
<1>5. ASSUME NEW n \in 0..len
      PROVE  g[n] = IF n = 0 THEN <<>> ELSE IF s[n] \in S THEN Append(g[n - 1], s[n]) ELSE g[n - 1]
  <2>1. CASE n = 0
    BY <1>4, <2>1 DEF Follows
  <2>2. CASE n # 0
    <3>1. n \in 1..len /\ n - 1 \in 0..len
      BY <1>1, <2>2
    <3>2. g[n] = step[n][g[n - 1]] /\ g[n - 1] \in Seq(Y)
      BY <1>4, <3>1 DEF Follows
    <3>3. QED
      BY <1>2, <2>2, <3>1, <3>2
  <2>3. QED
    BY <2>1, <2>2
<1>6. \E h : Kept(h)
  <2>1. PICK again : again = [n \in 0..len |->
             IF n = 0 THEN <<>> ELSE IF s[n] \in S THEN Append(g[n - 1], s[n]) ELSE g[n - 1]]
    OBVIOUS
  <2>2. g = again
    BY <1>4, <1>5, <2>1 DEF Follows
  <2>3. QED
    BY <2>1, <2>2
<1>7. PICK kept : kept = CHOOSE h : Kept(h)
  OBVIOUS
<1>8. Kept(kept)
  BY <1>6, <1>7
<1>9. Among(s, S) = kept[len]
  BY <1>7 DEF Among, len
<1>10. \A n \in 0..len : kept[n] = IF n = 0 THEN <<>>
                                  ELSE IF s[n] \in S THEN Append(kept[n - 1], s[n]) ELSE kept[n - 1]
  BY <1>8
<1> HIDE DEF Kept
<1> DEFINE T == {n \in 0..len : kept[n] \in Seq(Y)}
<1>11. 0 \in T
  <2>1. 0 \in 0..len
    BY <1>1
  <2>2. kept[0] = <<>> /\ <<>> \in Seq(Y)
    BY <1>10, <2>1
  <2>3. QED
    BY <2>1, <2>2
<1>12. ASSUME NEW n \in 1..len, n - 1 \in T
       PROVE  n \in T
  <2>1. kept[n - 1] \in Seq(Y) /\ n \in 0..len /\ n # 0
    BY <1>12
  <2>2. s[n] \in S => s[n] \in Y
    BY <1>1 DEF Y
  <2>3. s[n] \in Y => Append(kept[n - 1], s[n]) \in Seq(Y)
    BY <2>1
  <2>4. kept[n] \in Seq(Y)
    BY <1>10, <2>1, <2>2, <2>3
  <2>5. QED
    BY <2>1, <2>4
<1> HIDE DEF T
<1>13. len \in T
  <2>1. \A n \in 0..len : n \in T
    BY <1>1, <1>11, <1>12, UpTo
  <2>2. QED
    BY <1>1, <2>1
<1>14. kept[len] \in Seq(Y)
  BY <1>13 DEF T
<1>15. kept[len] \in Seq(X) /\ \A n \in DOMAIN kept[len] : kept[len][n] \in S
  BY <1>14 DEF Y
<1>16. QED
  BY <1>9, <1>15

-----------------------------------------------------------------------------
(***************************************************************************)
(* What genesis and the loop make.                                         *)
(***************************************************************************)
LEMMA LayoutIs ==
  /\ DOMAIN Layout = 1..11 /\ Layout \in [1..11 -> Nat]
  /\ Layout[1] = 2 /\ Layout[2] = 2 /\ Layout[3] = 1 /\ Layout[4] = 3 /\ Layout[5] = 8
  /\ Layout[6] = 3 /\ Layout[7] = 4 /\ Layout[8] = 3 /\ Layout[9] = 2 /\ Layout[10] = 2
  /\ Layout[11] = 2
BY DEF Layout

\* Of each tag, how long a kind is.
KindLength == [tag \in 0..10 |-> 1 + Layout[tag + 1]]

LEMMA KindLengths ==
  /\ KindLength[0] = 3 /\ KindLength[1] = 3 /\ KindLength[2] = 2 /\ KindLength[3] = 4
  /\ KindLength[4] = 9 /\ KindLength[5] = 4 /\ KindLength[6] = 5 /\ KindLength[7] = 4
  /\ KindLength[8] = 3 /\ KindLength[9] = 3 /\ KindLength[10] = 3
BY LayoutIs DEF KindLength

LEMMA KindIs ==
  ASSUME NEW tag \in 0..10, NEW k \in Seq(Nat), k[1] = tag, Len(k) = KindLength[tag]
  PROVE  k \in Kinds
<1>1. tag + 1 \in 1..11 /\ KindLength[tag] = 1 + Layout[tag + 1]
  BY DEF KindLength
<1>2. Layout[tag + 1] \in Nat /\ tag + 1 \in DOMAIN Layout
  BY <1>1, LayoutIs
<1>3. Len(k) = 1 + Layout[tag + 1]
  BY <1>1
<1>4. Len(k) >= 1
  BY <1>2, <1>3
<1>5. k[1] + 1 \in DOMAIN Layout /\ Len(k) = 1 + Layout[k[1] + 1]
  BY <1>2, <1>3
<1>6. QED
  BY <1>4, <1>5 DEF Kinds

LEMMA KindsAre ==
  ASSUME NEW k \in Seq(Nat)
  PROVE  /\ k[1] \in {0, 1, 8, 9, 10} /\ Len(k) = 3 => k \in Kinds
         /\ k[1] = 2 /\ Len(k) = 2 => k \in Kinds
         /\ k[1] \in {3, 5, 7} /\ Len(k) = 4 => k \in Kinds
         /\ k[1] = 4 /\ Len(k) = 9 => k \in Kinds
         /\ k[1] = 6 /\ Len(k) = 5 => k \in Kinds
<1>1. ASSUME k[1] \in 0..10, Len(k) = KindLength[k[1]]
      PROVE  k \in Kinds
  <2>1. PICK tag \in 0..10 : tag = k[1]
    BY <1>1
  <2>2. k[1] = tag /\ Len(k) = KindLength[tag]
    BY <1>1, <2>1
  <2>3. QED
    BY <2>2, KindIs
<1>2. k[1] \in {0, 1, 8, 9, 10} /\ Len(k) = 3 => k[1] \in 0..10 /\ Len(k) = KindLength[k[1]]
  BY KindLengths
<1>3. k[1] \in {3, 5, 7} /\ Len(k) = 4 => k[1] \in 0..10 /\ Len(k) = KindLength[k[1]]
  BY KindLengths
<1>4. k[1] = 2 /\ Len(k) = 2 => k[1] \in 0..10 /\ Len(k) = KindLength[k[1]]
  BY KindLengths
<1>5. k[1] = 4 /\ Len(k) = 9 => k[1] \in 0..10 /\ Len(k) = KindLength[k[1]]
  BY KindLengths
<1>6. k[1] = 6 /\ Len(k) = 5 => k[1] \in 0..10 /\ Len(k) = KindLength[k[1]]
  BY KindLengths
<1>7. QED
  BY <1>1, <1>2, <1>3, <1>4, <1>5, <1>6

LEMMA TupleIsSeq ==
  ASSUME NEW len \in Nat, NEW s \in [1..len -> Nat]
  PROVE  s \in Seq(Nat) /\ Len(s) = len
OBVIOUS

LEMMA Joined ==
  ASSUME NEW X, NEW s \in Seq(X), NEW t \in Seq(X)
  PROVE  /\ s \o t \in Seq(X) /\ Len(s \o t) = Len(s) + Len(t)
         /\ Len(s) \in Nat /\ Len(t) \in Nat /\ DOMAIN (s \o t) = 1..(Len(s) + Len(t))
         /\ \A n \in 1..Len(s) : (s \o t)[n] = s[n]
         /\ \A n \in 1..Len(t) : (s \o t)[Len(s) + n] = t[n]
OBVIOUS

\* A sequence made of another, element by element.
LEMMA EachTyped ==
  ASSUME NEW X, NEW Y, NEW s \in Seq(X), NEW t, DOMAIN t = DOMAIN s,
         t = [n \in DOMAIN s |-> t[n]], \A n \in DOMAIN s : s[n] \in X => t[n] \in Y
  PROVE  t \in Seq(Y) /\ Len(t) = Len(s)
<1>1. Len(s) \in Nat /\ DOMAIN s = 1..Len(s) /\ \A n \in 1..Len(s) : s[n] \in X
  OBVIOUS
<1>2. t \in [1..Len(s) -> Y]
  BY <1>1
<1>3. QED
  BY <1>1, <1>2

LEMMA CpuTyped == CpuNode \in Kinds
<1>1. Machine.vendor \in Nat /\ Machine.brand \in Nat
  BY MachineAssumption
<1>2. CpuNode = <<1, Machine.vendor, Machine.brand>>
  BY DEF CpuNode, CpuObserved, Tag
<1>3. CpuNode \in Seq(Nat) /\ Len(CpuNode) = 3 /\ CpuNode[1] = 1
  BY <1>1, <1>2
<1>4. QED
  BY <1>3, KindsAre

LEMMA FeaturesTyped == FeatureNodes \in Seq(Kinds)
<1>1. Machine.features \in Seq(Nat)
  BY MachineAssumption
<1>2. FeatureNodes = [n \in DOMAIN Machine.features |-> <<2, Machine.features[n]>>]
  BY DEF FeatureNodes, CpuObserved, Tag
<1>3. ASSUME NEW n \in DOMAIN Machine.features, Machine.features[n] \in Nat
      PROVE  FeatureNodes[n] \in Kinds
  <2>1. FeatureNodes[n] = <<2, Machine.features[n]>>
    BY <1>2
  <2>2. FeatureNodes[n] \in Seq(Nat) /\ Len(FeatureNodes[n]) = 2 /\ FeatureNodes[n][1] = 2
    BY <1>3, <2>1
  <2>3. QED
    BY <2>2, KindsAre
<1>4. QED
  BY <1>1, <1>2, <1>3, EachTyped

MemoryRegions == [start : Nat, end : Nat, kind : Nat]

LEMMA MemoryTyped == MemoryNodes \in Seq(Kinds)
<1> DEFINE D == [type : STRING, start : Nat, pages : Nat]
           used == Among(Machine.memory, {d \in ToSet(Machine.memory) : d.pages > 0})
           large == Among(MemoryObserved, {r \in ToSet(MemoryObserved) : r.end - r.start >= 1})
<1>1. used \in Seq(D)
  <2>1. Machine.memory \in Seq(D)
    BY MachineAssumption
  <2>2. QED
    BY <2>1, AmongTyped
<1>2. MemoryObserved = [n \in DOMAIN used |-> [start |-> used[n].start, end |-> used[n].start + used[n].pages,
                                               kind |-> MemoryKind(used[n].type)]]
  BY DEF MemoryObserved
<1> HIDE DEF used
<1>3. MemoryObserved \in Seq(MemoryRegions)
  <2>1. \A x : MemoryKind(x) \in Nat
    BY DEF MemoryKind
  <2>2. ASSUME NEW n \in DOMAIN used, used[n] \in D
        PROVE  MemoryObserved[n] \in MemoryRegions
    BY <1>2, <2>1, <2>2 DEF MemoryRegions
  <2> HIDE DEF D
  <2>3. QED
    BY <1>1, <1>2, <2>2, EachTyped
<1>4. large \in Seq(MemoryRegions)
  BY <1>3, AmongTyped
<1>5. MemoryNodes = [n \in DOMAIN large |-> <<3, large[n].start, large[n].end, large[n].kind>>]
  BY DEF MemoryNodes, Tag
<1> HIDE DEF large
<1>6. ASSUME NEW n \in DOMAIN large, large[n] \in MemoryRegions
      PROVE  MemoryNodes[n] \in Kinds
  <2>1. MemoryNodes[n] = <<3, large[n].start, large[n].end, large[n].kind>>
    BY <1>5
  <2>2. large[n].start \in Nat /\ large[n].end \in Nat /\ large[n].kind \in Nat
    BY <1>6 DEF MemoryRegions
  <2>3. MemoryNodes[n] \in Seq(Nat) /\ Len(MemoryNodes[n]) = 4 /\ MemoryNodes[n][1] = 3
    BY <2>1, <2>2
  <2>4. QED
    BY <2>3, KindsAre
<1>7. QED
  BY <1>4, <1>5, <1>6, EachTyped

LEMMA FramebufferTyped == FramebufferNodes \in Seq(Kinds)
<1> DEFINE X == [1..4 -> Nat]
<1>1. Machine.display \in Seq(X)
  BY MachineAssumption
<1>2. FramebufferNodes = [n \in DOMAIN Machine.display |-> <<6>> \o Machine.display[n]]
  BY DEF FramebufferNodes, Tag
<1>3. ASSUME NEW n \in DOMAIN Machine.display, Machine.display[n] \in X
      PROVE  FramebufferNodes[n] \in Kinds
  <2>1. PICK s : s = Machine.display[n]
    OBVIOUS
  <2>2. s \in Seq(Nat)
    BY <1>3, <2>1, TupleIsSeq
  <2>3. Len(s) = 4
    BY <1>3, <2>1, TupleIsSeq
  <2>4. PICK k : k = <<6>> \o s
    OBVIOUS
  <2>5. k \in Seq(Nat) /\ Len(k) = 1 + Len(s) /\ k[1] = 6
    BY <2>2, <2>4
  <2>6. k \in Kinds
    BY <2>3, <2>5, KindsAre
  <2>7. QED
    BY <1>2, <2>1, <2>4, <2>6
<1> HIDE DEF X
<1>4. QED
  BY <1>1, <1>2, <1>3, EachTyped

LEMMA PciTyped == PciNodes \in Seq(Kinds)
<1> DEFINE F == [at : [1..3 -> Nat], ids : [1..5 -> Nat], multi : BOOLEAN]
           scan == Among(Machine.pci, Answering)
           T == [1..8 -> Nat]
<1>1. scan \in Seq(F)
  <2>1. Machine.pci \in Seq(F)
    BY MachineAssumption
  <2>2. QED
    BY <2>1, AmongTyped
<1>2. PciObserved = [n \in DOMAIN scan |-> scan[n].at \o scan[n].ids]
  BY DEF PciObserved
<1>3. PciNodes = [n \in DOMAIN PciObserved |-> <<4>> \o PciObserved[n]]
  BY DEF PciNodes, Tag
<1> HIDE DEF scan
<1>4. ASSUME NEW n \in DOMAIN scan, scan[n] \in F
      PROVE  PciNodes[n] \in Kinds
  <2>1. PICK at, ids : at = scan[n].at /\ ids = scan[n].ids
    OBVIOUS
  <2>2. at \in [1..3 -> Nat] /\ ids \in [1..5 -> Nat]
    BY <1>4, <2>1
  <2>3. at \in Seq(Nat) /\ ids \in Seq(Nat)
    BY <2>2, TupleIsSeq
  <2>4. Len(at) = 3 /\ Len(ids) = 5
    BY <2>2, TupleIsSeq
  <2>5. PICK s : s = at \o ids
    OBVIOUS
  <2>6. s \in Seq(Nat) /\ Len(s) = Len(at) + Len(ids)
    BY <2>3, <2>5
  <2>7. PICK k : k = <<4>> \o s
    OBVIOUS
  <2>8. k \in Seq(Nat) /\ Len(k) = 1 + Len(s) /\ k[1] = 4
    BY <2>6, <2>7
  <2>9. k \in Kinds
    BY <2>4, <2>6, <2>8, KindsAre
  <2>10. PciNodes[n] = k
    BY <1>2, <1>3, <2>1, <2>5, <2>7
  <2>11. QED
    BY <2>9, <2>10
<1> HIDE DEF F
<1>5. DOMAIN PciNodes = DOMAIN scan /\ PciNodes = [n \in DOMAIN scan |-> PciNodes[n]]
  BY <1>2, <1>3
<1>6. QED
  BY <1>1, <1>4, <1>5, EachTyped

LEMMA AcpiTyped == AcpiNodes \in Seq(Kinds)
<1> DEFINE H == [signature : Nat, length : Nat]
           T == [signature : Nat, address : Nat, length : Nat]
           headers == [n \in DOMAIN Machine.headers |->
                         <<5, Machine.headers[n].signature, 0, Machine.headers[n].length>>]
           dsdt == [n \in DOMAIN Machine.dsdt |->
                      <<5, Machine.dsdt[n].signature, Machine.dsdt[n].address, Machine.dsdt[n].length>>]
           ssdts == [n \in DOMAIN Machine.ssdts |->
                       <<5, Machine.ssdts[n].signature, Machine.ssdts[n].address, Machine.ssdts[n].length>>]
<1>1. Machine.headers \in Seq(H) /\ Machine.dsdt \in Seq(T) /\ Machine.ssdts \in Seq(T)
  BY MachineAssumption
<1>2. AcpiNodes = IF ~ Machine.rsdp THEN <<>> ELSE headers \o dsdt \o ssdts
  BY DEF AcpiNodes, Tag
<1>3. ASSUME NEW a \in Nat, NEW b \in Nat, NEW c \in Nat
      PROVE  <<5, a, b, c>> \in Kinds
  <2>1. PICK k : k = <<5, a, b, c>>
    OBVIOUS
  <2>2. k \in Seq(Nat) /\ Len(k) = 4 /\ k[1] = 5
    BY <2>1
  <2>3. k \in Kinds
    BY <2>2, KindsAre
  <2>4. QED
    BY <2>1, <2>3
<1>4. headers \in Seq(Kinds)
  <2>1. \A n \in DOMAIN Machine.headers : Machine.headers[n] \in H => headers[n] \in Kinds
    BY <1>3
  <2> HIDE DEF H
  <2>2. DOMAIN headers = DOMAIN Machine.headers /\ headers = [n \in DOMAIN Machine.headers |-> headers[n]]
    OBVIOUS
  <2> HIDE DEF headers
  <2>3. QED
    BY <1>1, <2>1, <2>2, EachTyped
<1>5. dsdt \in Seq(Kinds)
  <2>1. \A n \in DOMAIN Machine.dsdt : Machine.dsdt[n] \in T => dsdt[n] \in Kinds
    BY <1>3
  <2> HIDE DEF T
  <2>2. DOMAIN dsdt = DOMAIN Machine.dsdt /\ dsdt = [n \in DOMAIN Machine.dsdt |-> dsdt[n]]
    OBVIOUS
  <2> HIDE DEF dsdt
  <2>3. QED
    BY <1>1, <2>1, <2>2, EachTyped
<1>6. ssdts \in Seq(Kinds)
  <2>1. \A n \in DOMAIN Machine.ssdts : Machine.ssdts[n] \in T => ssdts[n] \in Kinds
    BY <1>3
  <2> HIDE DEF T
  <2>2. DOMAIN ssdts = DOMAIN Machine.ssdts /\ ssdts = [n \in DOMAIN Machine.ssdts |-> ssdts[n]]
    OBVIOUS
  <2> HIDE DEF ssdts
  <2>3. QED
    BY <1>1, <2>1, <2>2, EachTyped
<1> HIDE DEF headers, dsdt, ssdts
<1>7. headers \o dsdt \o ssdts \in Seq(Kinds) /\ <<>> \in Seq(Kinds)
  BY <1>4, <1>5, <1>6
<1>8. QED
  BY <1>2, <1>7

\* The elements of a sequence are in S.
Within(s, S) == \A n \in DOMAIN s : s[n] \in S

LEMMA PartsWithin ==
  ASSUME NEW X, NEW s \in Seq(X), NEW t \in Seq(X), NEW S
  PROVE  /\ s \o t \in Seq(X)
         /\ Within(s \o t, S) <=> Within(s, S) /\ Within(t, S)
<1>1. PICK u : u = s \o t
  OBVIOUS
<1>2. u \in Seq(X) /\ Len(u) = Len(s) + Len(t)
  BY <1>1
<1>3. /\ Len(s) \in Nat /\ Len(t) \in Nat
      /\ DOMAIN s = 1..Len(s) /\ DOMAIN t = 1..Len(t) /\ DOMAIN u = 1..(Len(s) + Len(t))
      /\ \A n \in 1..Len(s) : u[n] = s[n] /\ n \in DOMAIN u
      /\ \A n \in 1..Len(t) : u[Len(s) + n] = t[n] /\ Len(s) + n \in DOMAIN u
  BY <1>1
<1>4. ASSUME Within(u, S)
      PROVE  Within(s, S) /\ Within(t, S)
  BY <1>3, <1>4 DEF Within
<1>5. ASSUME Within(s, S), Within(t, S)
      PROVE  Within(u, S)
  <2>1. SUFFICES ASSUME NEW n \in DOMAIN u
                 PROVE  u[n] \in S
    BY DEF Within
  <2>2. CASE n \in 1..Len(s)
    BY <1>3, <1>5, <2>2 DEF Within
  <2>3. CASE n \notin 1..Len(s)
    <3>1. n - Len(s) \in 1..Len(t) /\ Len(s) + (n - Len(s)) = n
      BY <1>3, <2>3
    <3>2. u[n] = t[n - Len(s)]
      BY <1>3, <3>1
    <3>3. QED
      BY <1>3, <1>5, <3>1, <3>2 DEF Within
  <2>4. QED
    BY <2>2, <2>3
<1>6. QED
  BY <1>1, <1>2, <1>4, <1>5

LEMMA GenesisSound == Sound(Genesis)
<1> DEFINE seen == CreateAll(Empty, Observed)
           root == <<Tag.Genesis, seen.lamport, Len(Observed)>>
           rooted == Create(seen, root)
           cpu == LinkAll(rooted, root, <<CpuNode>>, "Contains")
           features == LinkAll(cpu, CpuNode, FeatureNodes, "Contains")
           devices == LinkAll(features, root, MemoryNodes \o PciNodes, "Contains")
           tables == LinkAll(devices, root, AcpiNodes, "Describes")
           end == LinkAll(tables, root, FramebufferNodes, "Contains")
           P == Ids(rooted)
<1>1. Genesis = end
  BY DEF Genesis
<1> DEFINE a == <<CpuNode>>
           b == a \o FeatureNodes
           c == b \o MemoryNodes
           d == c \o FramebufferNodes
           e == d \o PciNodes
<1>2. a \in Seq(Kinds) /\ CpuNode \in Kinds
  BY CpuTyped
<1> HIDE DEF a
<1>3. b \in Seq(Kinds) /\ FeatureNodes \in Seq(Kinds)
  BY <1>2, FeaturesTyped, PartsWithin
<1> HIDE DEF b
<1>4. c \in Seq(Kinds) /\ MemoryNodes \in Seq(Kinds)
  BY <1>3, MemoryTyped, PartsWithin
<1> HIDE DEF c
<1>5. d \in Seq(Kinds) /\ FramebufferNodes \in Seq(Kinds)
  BY <1>4, FramebufferTyped, PartsWithin
<1> HIDE DEF d
<1>6. e \in Seq(Kinds) /\ PciNodes \in Seq(Kinds)
  BY <1>5, PciTyped, PartsWithin
<1> HIDE DEF e
<1>7. Observed = e \o AcpiNodes /\ AcpiNodes \in Seq(Kinds)
  BY AcpiTyped DEF Observed, a, b, c, d, e
<1>8. Observed \in Seq(Kinds)
  BY <1>6, <1>7, PartsWithin
<1>9. Sound(seen) /\ \A n \in DOMAIN Observed : Observed[n] \in Ids(seen)
  BY <1>8, EmptySound, CreateAllSound
<1>10. root \in Kinds
  <2>1. seen.lamport \in Nat /\ Len(Observed) \in Nat
    BY <1>8, <1>9, FabricParts DEF Sound
  <2> HIDE DEF seen
  <2>2. PICK k : k = root
    OBVIOUS
  <2>3. k \in Seq(Nat) /\ Len(k) = 3 /\ k[1] = 0
    BY <2>1, <2>2 DEF Tag
  <2>4. QED
    BY <2>2, <2>3, KindsAre
<1> HIDE DEF seen, root
<1>11. Sound(rooted) /\ root \in P /\ Ids(seen) \subseteq P
  BY <1>9, <1>10, CreateSound
<1> HIDE DEF rooted
<1>12. Within(Observed, P)
  BY <1>9, <1>11 DEF Within
<1>13. /\ Within(a, P) /\ Within(FeatureNodes, P) /\ Within(MemoryNodes, P)
       /\ Within(FramebufferNodes, P) /\ Within(PciNodes, P) /\ Within(AcpiNodes, P)
  <2>1. Within(e, P) /\ Within(AcpiNodes, P)
    BY <1>6, <1>7, <1>12, PartsWithin
  <2>2. Within(d, P) /\ Within(PciNodes, P)
    BY <1>5, <1>6, <2>1, PartsWithin DEF e
  <2>3. Within(c, P) /\ Within(FramebufferNodes, P)
    BY <1>4, <1>5, <2>2, PartsWithin DEF d
  <2>4. Within(b, P) /\ Within(MemoryNodes, P)
    BY <1>3, <1>4, <2>3, PartsWithin DEF c
  <2>5. Within(a, P) /\ Within(FeatureNodes, P)
    BY <1>2, <1>3, <2>4, PartsWithin DEF b
  <2>6. QED
    BY <2>1, <2>2, <2>3, <2>4, <2>5
<1>14. CpuNode \in P
  BY <1>13 DEF Within, a
<1> HIDE DEF P
<1>15. "Contains" \in DOMAIN EdgeTag /\ "Describes" \in DOMAIN EdgeTag
  BY DEF EdgeTag
<1>16. ASSUME NEW f, Sound(f), Ids(f) = P, NEW s \in Kinds, s \in P, NEW nodes \in Seq(Kinds),
              Within(nodes, P), NEW k \in DOMAIN EdgeTag
       PROVE  Sound(LinkAll(f, s, nodes, k)) /\ Ids(LinkAll(f, s, nodes, k)) = P
  BY <1>16, LinkAllSound DEF Within
<1>17. Sound(cpu) /\ Ids(cpu) = P
  BY <1>2, <1>10, <1>11, <1>13, <1>15, <1>16 DEF P, a
<1> HIDE DEF cpu
<1>18. Sound(features) /\ Ids(features) = P
  BY <1>2, <1>3, <1>13, <1>14, <1>15, <1>16, <1>17
<1> HIDE DEF features
<1>19. MemoryNodes \o PciNodes \in Seq(Kinds) /\ Within(MemoryNodes \o PciNodes, P)
  BY <1>4, <1>6, <1>13, PartsWithin
<1>20. Sound(devices) /\ Ids(devices) = P
  BY <1>10, <1>11, <1>15, <1>16, <1>18, <1>19
<1> HIDE DEF devices
<1>21. Sound(tables) /\ Ids(tables) = P
  BY <1>7, <1>10, <1>11, <1>13, <1>15, <1>16, <1>20
<1> HIDE DEF tables
<1>22. Sound(end)
  BY <1>5, <1>10, <1>11, <1>13, <1>15, <1>16, <1>21
<1>23. QED
  BY <1>1, <1>22

LEMMA WithStorageSound ==
  ASSUME NEW f, Sound(f), NEW d, {d.label, d.blocks, d.size} \subseteq Nat
  PROVE  Sound(WithStorage(f, d))
<1>1. PICK k : k = <<Tag.HwStorage, d.label, d.blocks, d.size>>
  OBVIOUS
<1>2. k \in Seq(Nat) /\ Len(k) = 4 /\ k[1] = 7
  BY <1>1 DEF Tag
<1>3. k \in Kinds
  BY <1>2, KindsAre
<1>4. QED
  BY <1>1, <1>3, CreateSound DEF WithStorage

LEMMA TextTyped ==
  ASSUME NEW tag \in {8, 9, 10}, NEW text \in Nat, NEW lamport \in Nat
  PROVE  <<tag, text, lamport>> \in Kinds
<1>1. PICK k : k = <<tag, text, lamport>>
  OBVIOUS
<1>2. k \in Seq(Nat) /\ Len(k) = 3 /\ k[1] \in {0, 1, 8, 9, 10}
  BY <1>1
<1>3. QED
  BY <1>1, <1>2, KindsAre

LEMMA EventSound ==
  ASSUME NEW f, Sound(f), NEW text \in Nat
  PROVE  Sound(Event(f, text))
<1>1. f.lamport \in Nat
  BY FabricParts DEF Sound
<1>2. <<10, text, f.lamport>> \in Kinds
  BY <1>1, TextTyped
<1>3. Event(f, text) = Create(f, <<10, text, f.lamport>>)
  BY DEF Event, Tag
<1>4. QED
  BY <1>2, <1>3, CreateSound

LEMMA ExchangeSound ==
  ASSUME NEW f, Sound(f), NEW line \in Nat, NEW answer \in Nat
  PROVE  Sound(Exchange(f, line, answer))
<1> DEFINE asked == Tick(f)
           intent == <<8, line, asked.lamport>>
           answered == Tick(Create(asked, intent))
           response == <<9, answer, answered.lamport>>
           g == Create(answered, response)
<1>1. Exchange(f, line, answer) = Link(g, Edge(intent, response, "Causes"))
  BY DEF Exchange, Tag
<1>2. Sound(asked) /\ asked.lamport \in Nat
  BY TickSound, FabricParts DEF Sound
<1> HIDE DEF asked
<1>3. intent \in Kinds
  BY <1>2, TextTyped
<1> HIDE DEF intent
<1>4. Sound(Create(asked, intent)) /\ intent \in Ids(Create(asked, intent))
  BY <1>2, <1>3, CreateSound
<1>5. Sound(answered) /\ intent \in Ids(answered) /\ answered.lamport \in Nat
  <2>1. Sound(answered) /\ Ids(answered) = Ids(Create(asked, intent))
    BY <1>4, TickSound
  <2> HIDE DEF answered
  <2>2. QED
    BY <1>4, <2>1, FabricParts DEF Sound
<1> HIDE DEF answered
<1>6. response \in Kinds
  BY <1>5, TextTyped
<1> HIDE DEF response
<1>7. Sound(g) /\ response \in Ids(g) /\ intent \in Ids(g)
  BY <1>5, <1>6, CreateSound
<1>8. "Causes" \in DOMAIN EdgeTag
  BY DEF EdgeTag
<1> HIDE DEF g
<1>9. QED
  BY <1>1, <1>3, <1>6, <1>7, <1>8, LinkSound

LEMMA LearnedSound ==
  ASSUME NEW f, Sound(f), NEW driver \in Nat, NEW blob \in Seq(Nat)
  PROVE  Sound(Learned(f, driver, blob))
<1>1. PICK head : head = <<Tag.LearnedDriver, driver, Len(blob), 0>>
  OBVIOUS
<1>2. head \in Seq(Nat) /\ head[1] = Tag.LearnedDriver
  BY <1>1 DEF Tag
<1>3. Len(head) = 4
  BY <1>1
<1>4. PICK k : k = head \o blob
  OBVIOUS
<1>5. k \in Seq(Nat) /\ Len(k) = Len(head) + Len(blob) /\ Len(blob) \in Nat
  BY <1>2, <1>4
<1>6. k[1] = Tag.LearnedDriver
  <2>1. \A n \in 1..Len(head) : (head \o blob)[n] = head[n]
    BY <1>2
  <2>2. QED
    BY <1>2, <1>3, <1>4, <2>1
<1>7. k \in Kinds
  BY <1>3, <1>5, <1>6 DEF Kinds
<1>8. QED
  BY <1>1, <1>4, <1>7, CreateSound DEF Learned

-----------------------------------------------------------------------------
(***************************************************************************)
(* The codec: what encode_snapshot makes of a fabric is decoded to it.     *)
(***************************************************************************)

\* The sequences of seqs lie in flat one behind the other, the n-th from start[n - 1] on.
LaidOut(flat, seqs, start) ==
  /\ start \in [0..Len(seqs) -> Nat] /\ start[0] = 0 /\ start[Len(seqs)] = Len(flat)
  /\ \A n \in 1..Len(seqs) :
       /\ start[n] = start[n - 1] + Len(seqs[n]) /\ start[n] <= Len(flat)
       /\ \A m \in 1..Len(seqs[n]) : flat[start[n - 1] + m] = seqs[n][m]

\* The sequence s lies in fields behind the first o of them.
Placed(fields, o, s) ==
  o + Len(s) <= Len(fields) /\ \A m \in 1..Len(s) : fields[o + m] = s[m]

LEMMA FlattenIs ==
  ASSUME NEW X, NEW seqs \in Seq(Seq(X))
  PROVE  FlattenSeq(seqs) \in Seq(X) /\ \E start : LaidOut(FlattenSeq(seqs), seqs, start)
<1> DEFINE len == Len(seqs)
           Y == Seq(X)
           Flat(g) == g = [i \in 1..len |-> IF i = 1 THEN seqs[i] ELSE g[i - 1] \o seqs[i]]
<1>1. len \in Nat /\ DOMAIN seqs = 1..len /\ \A n \in 1..len : seqs[n] \in Y
  OBVIOUS
<1>2. len = 0 => seqs = <<>>
  OBVIOUS
<1> HIDE DEF len
<1>3. \A s, t \in Y : /\ s \o t \in Y /\ Len(s) \in Nat /\ Len(t) \in Nat
                      /\ Len(s \o t) = Len(s) + Len(t)
                      /\ \A m \in 1..Len(s) : (s \o t)[m] = s[m]
                      /\ \A m \in 1..Len(t) : (s \o t)[Len(s) + m] = t[m]
  OBVIOUS
<1>4. <<>> \in Y /\ Len(<<>>) = 0 /\ \A s \in Y : <<>> \o s = s
  OBVIOUS
<1> HIDE DEF Y
<1>5. PICK step : step = [n \in 1..len |-> [t \in Y |-> t \o seqs[n]]]
  OBVIOUS
<1>6. step \in StepsOn(Y, len)
  BY <1>1, <1>3, <1>5 DEF StepsOn
<1>7. PICK g : Follows(g, Y, <<>>, len, step)
  BY <1>1, <1>4, <1>6, Recursion
<1>8. /\ g \in [0..len -> Y] /\ g[0] = <<>>
      /\ \A n \in 1..len : g[n] = g[n - 1] \o seqs[n] /\ n - 1 \in 0..len /\ n \in 0..len
  <2>1. \A n \in 1..len : n - 1 \in 0..len /\ n \in 0..len
    BY <1>1
  <2>2. QED
    BY <1>5, <1>7, <2>1 DEF Follows
<1>9. FlattenSeq(seqs) = g[len]
  <2>1. CASE len = 0
    BY <1>2, <1>8, <2>1 DEF FlattenSeq, len
  <2>2. CASE len # 0
    <3>1. \E h : Flat(h)
      <4>1. PICK h : h = [i \in 1..len |-> g[i]]
        OBVIOUS
      <4>2. ASSUME NEW i \in 1..len
            PROVE  h[i] = IF i = 1 THEN seqs[i] ELSE h[i - 1] \o seqs[i]
        <5>1. CASE i = 1
          BY <1>1, <1>4, <1>8, <4>1, <5>1
        <5>2. CASE i # 1
          <6>1. i - 1 \in 1..len
            BY <1>1, <5>2
          <6>2. QED
            BY <1>8, <4>1, <5>2, <6>1
        <5>3. QED
          BY <5>1, <5>2
      <4>3. PICK again : again = [i \in 1..len |-> IF i = 1 THEN seqs[i] ELSE h[i - 1] \o seqs[i]]
        OBVIOUS
      <4>4. h = again
        BY <4>1, <4>2, <4>3
      <4>5. QED
        BY <4>3, <4>4
    <3>2. PICK flat : flat = CHOOSE h : Flat(h)
      OBVIOUS
    <3>3. Flat(flat)
      BY <3>1, <3>2
    <3>4. FlattenSeq(seqs) = flat[len]
      BY <2>2, <3>2 DEF FlattenSeq, len
    <3>5. \A i \in 1..len : flat[i] = IF i = 1 THEN seqs[i] ELSE flat[i - 1] \o seqs[i]
      BY <3>3
    <3> HIDE DEF Flat
    <3> DEFINE T == {n \in 0..len : n # 0 => flat[n] = g[n]}
    <3>6. 0 \in T
      BY <1>1
    <3>7. ASSUME NEW n \in 1..len, n - 1 \in T
          PROVE  n \in T
      <4>1. CASE n = 1
        <5>1. 1 \in 1..len /\ 1 \in 0..len /\ 1 - 1 = 0
          BY <1>1, <4>1
        <5>2. g[1] = <<>> \o seqs[1] /\ seqs[1] \in Y
          BY <1>1, <1>8, <5>1
        <5>3. flat[1] = g[1]
          BY <1>4, <3>5, <5>1, <5>2
        <5>4. QED
          BY <4>1, <5>1, <5>3
      <4>2. CASE n # 1
        <5>1. n - 1 # 0 /\ flat[n - 1] = g[n - 1]
          BY <3>7, <4>2
        <5>2. flat[n] = g[n] /\ n \in 0..len
          BY <1>8, <3>5, <4>2, <5>1
        <5>3. QED
          BY <5>2
      <4>3. QED
        BY <4>1, <4>2
    <3> HIDE DEF T
    <3>8. \A n \in 0..len : n \in T
      BY <1>1, <3>6, <3>7, UpTo
    <3>9. len \in T
      BY <1>1, <3>8
    <3>10. flat[len] = g[len]
      BY <2>2, <3>9 DEF T
    <3>11. QED
      BY <3>4, <3>10
  <2>3. QED
    BY <2>1, <2>2
<1>10. PICK start : start = [n \in 0..len |-> Len(g[n])]
  OBVIOUS
<1>11. start \in [0..len -> Nat] /\ start[0] = 0 /\ start[len] = Len(g[len])
  <2>1. \A n \in 0..len : g[n] \in Y /\ Len(g[n]) \in Nat
    BY <1>3, <1>8
  <2>2. 0 \in 0..len /\ len \in 0..len
    BY <1>1
  <2>3. QED
    BY <1>4, <1>8, <1>10, <2>1, <2>2
<1>12. ASSUME NEW n \in 1..len
       PROVE  start[n] = start[n - 1] + Len(seqs[n])
  <2>1. g[n - 1] \in Y /\ seqs[n] \in Y /\ g[n] = g[n - 1] \o seqs[n]
    BY <1>1, <1>8
  <2>2. Len(g[n]) = Len(g[n - 1]) + Len(seqs[n])
    BY <1>3, <2>1
  <2>3. QED
    BY <1>8, <1>10, <2>2
<1> DEFINE Behind(k) == \A n \in 1..k :
             /\ start[n] <= Len(g[k])
             /\ \A m \in 1..Len(seqs[n]) : g[k][start[n - 1] + m] = seqs[n][m]
           U == {k \in 0..len : Behind(k)}
<1>13. 0 \in U
  BY <1>1
<1>14. ASSUME NEW k \in 1..len, k - 1 \in U
       PROVE  k \in U
  <2>1. PICK a, b, c : a = g[k - 1] /\ b = seqs[k] /\ c = g[k]
    OBVIOUS
  <2>2. a \in Y /\ b \in Y /\ c = a \o b
    BY <1>1, <1>8, <2>1
  <2>3. /\ Len(a) \in Nat /\ Len(b) \in Nat /\ Len(c) = Len(a) + Len(b)
        /\ \A m \in 1..Len(a) : c[m] = a[m]
        /\ \A m \in 1..Len(b) : c[Len(a) + m] = b[m]
    BY <1>3, <2>2
  <2>4. start[k - 1] = Len(a) /\ start[k] = Len(c)
    BY <1>8, <1>10, <2>1
  <2>5. \A n \in 1..(k - 1) : /\ start[n] <= Len(a)
                              /\ \A m \in 1..Len(seqs[n]) : a[start[n - 1] + m] = seqs[n][m]
    BY <1>14, <2>1
  <2>6. ASSUME NEW n \in 1..k
        PROVE  /\ start[n] <= Len(c)
               /\ \A m \in 1..Len(seqs[n]) : c[start[n - 1] + m] = seqs[n][m]
    <3>1. CASE n = k
      <4>1. start[n] = Len(c) /\ start[n - 1] = Len(a) /\ seqs[n] = b
        BY <2>1, <2>4, <3>1
      <4>2. Len(c) <= Len(c)
        BY <2>3
      <4>3. \A m \in 1..Len(b) : c[Len(a) + m] = b[m]
        BY <2>3
      <4>4. QED
        BY <4>1, <4>2, <4>3
    <3>2. CASE n # k
      <4>1. n \in 1..(k - 1) /\ n \in 1..len /\ n \in 0..len /\ n - 1 \in 0..len
        BY <1>1, <3>2
      <4>2. start[n] <= Len(a)
        BY <2>5, <4>1
      <4>3. PICK u, v, l : u = start[n - 1] /\ v = start[n] /\ l = Len(seqs[n])
        OBVIOUS
      <4>4. u \in Nat /\ v \in Nat /\ v = u + l /\ l \in Nat /\ v <= Len(a)
        BY <1>1, <1>3, <1>11, <1>12, <4>1, <4>2, <4>3
      <4>5. v <= Len(c)
        BY <2>3, <4>4
      <4>6. ASSUME NEW m \in 1..l
            PROVE  c[u + m] = seqs[n][m]
        <5>1. u + m \in 1..Len(a)
          BY <2>3, <4>4
        <5>2. c[u + m] = a[u + m]
          BY <2>3, <5>1
        <5>3. QED
          BY <2>5, <4>1, <4>3, <5>2
      <4>7. QED
        BY <4>3, <4>5, <4>6
    <3>3. QED
      BY <3>1, <3>2
  <2>7. k \in 0..len
    OBVIOUS
  <2>8. QED
    BY <2>1, <2>6, <2>7
<1> HIDE DEF U
<1>15. len \in U
  <2>1. \A k \in 0..len : k \in U
    BY <1>1, <1>13, <1>14, UpTo
  <2>2. QED
    BY <1>1, <2>1
<1>16. Behind(len)
  BY <1>15 DEF U
<1>17. LaidOut(g[len], seqs, start)
  BY <1>11, <1>12, <1>16 DEF LaidOut, len
<1>18. g[len] \in Seq(X)
  <2>1. len \in 0..len
    BY <1>1
  <2>2. QED
    BY <1>8, <2>1 DEF Y
<1>19. QED
  BY <1>9, <1>17, <1>18

\* What follows the id and the time of a node.
Rest(k) ==
  IF k[1] = Tag.LearnedDriver THEN SubSeq(k, 1, 4) \o <<Len(Params(k))>> \o Params(k) ELSE k

LEMMA RestIs ==
  ASSUME NEW k \in Kinds
  PROVE  /\ Rest(k) \in Seq(Nat) /\ Len(Rest(k)) \in Nat \ {0} /\ Rest(k)[1] = k[1]
         /\ k \in Seq(Nat) /\ Len(k) \in Nat
         /\ k[1] # Tag.LearnedDriver =>
              Rest(k) = k /\ k[1] + 1 \in DOMAIN Layout /\ Len(k) = 1 + Layout[k[1] + 1]
         /\ k[1] = Tag.LearnedDriver =>
              /\ Len(k) >= 4 /\ Len(Rest(k)) = Len(k) + 1
              /\ \A m \in 1..4 : Rest(k)[m] = k[m]
              /\ Rest(k)[5] = Len(k) - 4 /\ Len(k) - 4 \in Nat
              /\ \A m \in 1..(Len(k) - 4) : Rest(k)[5 + m] = k[4 + m]
<1>1. k \in Seq(Nat) /\ Len(k) \in Nat
  BY DEF Kinds
<1>2. CASE k[1] # Tag.LearnedDriver
  <2>1. Len(k) >= 1 /\ k[1] + 1 \in DOMAIN Layout /\ Len(k) = 1 + Layout[k[1] + 1]
    BY <1>2 DEF Kinds
  <2>2. Rest(k) = k
    BY <1>2 DEF Rest
  <2>3. QED
    BY <1>1, <1>2, <2>1, <2>2
<1>3. CASE k[1] = Tag.LearnedDriver
  <2>1. Len(k) >= 4
    <3>1. ~ (k[1] + 1 \in DOMAIN Layout)
      BY <1>3, LayoutIs DEF Tag
    <3>2. QED
      BY <3>1 DEF Kinds
  <2>2. PICK head : head = SubSeq(k, 1, 4)
    OBVIOUS
  <2>3. PICK tail : tail = SubSeq(k, 5, Len(k))
    OBVIOUS
  <2>4. /\ head \in Seq(Nat) /\ Len(head) = 4 /\ \A m \in 1..4 : head[m] = k[m]
    BY <1>1, <2>1, <2>2
  <2>5. /\ tail \in Seq(Nat) /\ Len(tail) = Len(k) - 4 /\ Len(k) - 4 \in Nat
        /\ \A m \in 1..(Len(k) - 4) : tail[m] = k[4 + m]
    <3>1. PICK l : l = Len(k)
      OBVIOUS
    <3>2. l \in Nat /\ l >= 4 /\ tail = SubSeq(k, 5, l) /\ DOMAIN k = 1..l
      BY <1>1, <2>1, <2>3, <3>1
    <3>3. tail \in Seq(Nat)
      BY <1>1, <3>1, <3>2
    <3>4. Len(tail) = l - 4 /\ l - 4 \in Nat
      BY <1>1, <3>1, <3>2
    <3>5. \A m \in 1..(l - 4) : tail[m] = k[4 + m]
      BY <1>1, <3>1, <3>2
    <3>6. QED
      BY <3>1, <3>3, <3>4, <3>5
  <2>6. Rest(k) = head \o <<Len(tail)>> \o tail
    BY <1>3, <2>2, <2>3 DEF Rest, Params
  <2>7. PICK front : front = head \o <<Len(tail)>>
    OBVIOUS
  <2>8. /\ front \in Seq(Nat) /\ Len(front) = Len(head) + 1
        /\ front[Len(head) + 1] = Len(tail) /\ \A m \in 1..Len(head) : front[m] = head[m]
    <3>1. Len(tail) \in Nat /\ head \in Seq(Nat)
      BY <2>4, <2>5
    <3>2. QED
      BY <2>7, <3>1
  <2>9. Rest(k) = front \o tail
    BY <2>6, <2>7
  <2>10. /\ Rest(k) \in Seq(Nat) /\ Len(Rest(k)) = Len(front) + Len(tail)
         /\ \A m \in 1..Len(front) : Rest(k)[m] = front[m]
         /\ \A m \in 1..Len(tail) : Rest(k)[Len(front) + m] = tail[m]
    <3>1. front \in Seq(Nat) /\ tail \in Seq(Nat)
      BY <2>5, <2>8
    <3>2. QED
      BY <2>9, <3>1, Joined
  <2>11. Len(front) = 5 /\ Len(Rest(k)) = Len(k) + 1
    BY <1>1, <2>4, <2>5, <2>8, <2>10
  <2>12. /\ \A m \in 1..4 : Rest(k)[m] = k[m]
         /\ Rest(k)[5] = Len(k) - 4
    <3>1. \A m \in 1..4 : m \in 1..Len(front) /\ m \in 1..Len(head)
      BY <2>4, <2>11
    <3>2. 5 \in 1..Len(front) /\ front[5] = Len(tail)
      BY <2>4, <2>8, <2>11
    <3>3. \A m \in 1..4 : Rest(k)[m] = k[m]
      BY <2>4, <2>8, <2>10, <3>1
    <3>4. QED
      BY <2>5, <2>10, <3>2, <3>3
  <2>13. \A m \in 1..(Len(k) - 4) : Rest(k)[5 + m] = k[4 + m]
    BY <2>5, <2>10, <2>11
  <2>14. Rest(k)[1] = k[1] /\ Len(Rest(k)) \in Nat \ {0}
    BY <1>1, <2>1, <2>11, <2>12
  <2>15. QED
    BY <1>1, <1>3, <2>1, <2>5, <2>10, <2>11, <2>12, <2>13, <2>14
<1>4. QED
  BY <1>2, <1>3

LEMMA WordsAre ==
  ASSUME NEW s \in Seq(Nat)
  PROVE  /\ Words(s) \in Seq(Seq(Nat)) /\ Len(Words(s)) = Len(s)
         /\ \A m \in 1..Len(s) : Words(s)[m] = <<s[m]>>
<1>1. Len(s) \in Nat /\ DOMAIN s = 1..Len(s) /\ \A m \in 1..Len(s) : s[m] \in Nat
  OBVIOUS
<1>2. Words(s) = [m \in 1..Len(s) |-> <<s[m]>>]
  BY <1>1 DEF Words
<1>3. \A m \in 1..Len(s) : <<s[m]>> \in Seq(Nat)
  BY <1>1
<1>4. Words(s) \in [1..Len(s) -> Seq(Nat)]
  BY <1>2, <1>3
<1>5. QED
  BY <1>1, <1>2, <1>4

LEMMA NodeFields ==
  ASSUME NEW node \in Nodes
  PROVE  LET e == EncodeNode(node)
             w == Rest(node.kind) IN
         /\ e \in Seq(Seq(Nat)) /\ Len(e) = 2 + Len(w) /\ Len(w) \in Nat \ {0}
         /\ e[1] = node.id /\ e[2] = <<node.created>>
         /\ \A m \in 1..Len(w) : e[2 + m] = <<w[m]>>
<1>1. node.kind \in Kinds /\ node.id \in Seq(Nat) /\ node.created \in Nat
  BY DEF Nodes, Kinds
<1>2. PICK w : w = Rest(node.kind)
  OBVIOUS
<1>3. w \in Seq(Nat) /\ Len(w) \in Nat \ {0}
  BY <1>1, <1>2, RestIs
<1>4. PICK x : x = Words(w)
  OBVIOUS
<1>5. x \in Seq(Seq(Nat)) /\ Len(x) = Len(w) /\ \A m \in 1..Len(w) : x[m] = <<w[m]>>
  BY <1>3, <1>4, WordsAre
<1>6. PICK h : h = <<node.id, <<node.created>>>>
  OBVIOUS
<1>7. h \in Seq(Seq(Nat)) /\ h[1] = node.id /\ h[2] = <<node.created>>
  BY <1>1, <1>6
<1>8. Len(h) = 2
  BY <1>6
<1>9. EncodeNode(node) = h \o x
  BY <1>2, <1>4, <1>6 DEF EncodeNode, Rest
<1>10. /\ h \o x \in Seq(Seq(Nat)) /\ Len(h \o x) = Len(h) + Len(x)
       /\ \A n \in 1..Len(h) : (h \o x)[n] = h[n]
       /\ \A n \in 1..Len(x) : (h \o x)[Len(h) + n] = x[n]
  <2>1. h \in Seq(Seq(Nat)) /\ x \in Seq(Seq(Nat))
    BY <1>5, <1>7
  <2> HIDE <1>8
  <2>2. QED
    BY <2>1, Joined
<1>11. /\ EncodeNode(node) \in Seq(Seq(Nat)) /\ Len(EncodeNode(node)) = 2 + Len(w)
       /\ EncodeNode(node)[1] = node.id /\ EncodeNode(node)[2] = <<node.created>>
  BY <1>5, <1>7, <1>8, <1>9, <1>10
<1>12. \A m \in 1..Len(w) : EncodeNode(node)[2 + m] = <<w[m]>>
  BY <1>5, <1>8, <1>9, <1>10
<1>13. QED
  BY <1>2, <1>3, <1>11, <1>12

Reader(o, items) == [ok |-> TRUE, off |-> o, items |-> items]

LEMMA PastIs ==
  ASSUME NEW o, NEW done, NEW n, NEW item
  PROVE  Past(Reader(o, done), n, item) = Reader(o + n, Append(done, item))
<1>1. PICK q, s : q = Append(done, item) /\ s = o + n
  OBVIOUS
<1>2. PICK r : r = [ok |-> TRUE, off |-> o, items |-> done]
  OBVIOUS
<1>3. r.off = o /\ r.items = done
  BY <1>2
<1>4. Past(r, n, item) = [r EXCEPT !.off = s, !.items = q]
  BY <1>1, <1>3 DEF Past
<1>5. [r EXCEPT !.off = s, !.items = q] = [ok |-> TRUE, off |-> s, items |-> q]
  <2>1. PICK u, v : u = [r EXCEPT !.off = s, !.items = q] /\ v = [ok |-> TRUE, off |-> s, items |-> q]
    OBVIOUS
  <2>2. u.ok = TRUE /\ u.off = s /\ u.items = q /\ u = [m \in {"ok", "off", "items"} |-> u[m]]
    BY <1>2, <2>1
  <2>3. v.ok = TRUE /\ v.off = s /\ v.items = q /\ v = [m \in {"ok", "off", "items"} |-> v[m]]
    BY <2>1
  <2>4. QED
    BY <2>1, <2>2, <2>3
<1>6. QED
  BY <1>1, <1>2, <1>4, <1>5 DEF Reader

LEMMA NodeDecoded ==
  ASSUME NEW fields \in Seq(Seq(Nat)), NEW node \in Nodes, NEW o \in Nat, NEW items,
         Placed(fields, o, EncodeNode(node))
  PROVE  DecodeNode(fields, Reader(o, items)) =
           Reader(o + Len(EncodeNode(node)), Append(items, node))
<1> DEFINE e == EncodeNode(node)
           k == node.kind
           r == Reader(o, items)
           len == Len(fields)
           W(m) == fields[o + m][1]
           Go(n, kind) == Past(r, n, [id |-> fields[o + 1], created |-> W(2), kind |-> kind])
           Ws(a, b) == [m \in 1..(b - a + 1) |-> W(a + m - 1)]
<1>1. PICK w : w = Rest(k)
  OBVIOUS
<1>2. /\ Len(e) = 2 + Len(w) /\ Len(w) \in Nat \ {0} /\ e[1] = node.id /\ e[2] = <<node.created>>
      /\ \A m \in 1..Len(w) : e[2 + m] = <<w[m]>>
  BY <1>1, NodeFields
<1> HIDE DEF e
<1>3. o + Len(e) <= len /\ (\A m \in 1..Len(e) : fields[o + m] = e[m]) /\ len \in Nat
  <2>1. len \in Nat
    OBVIOUS
  <2>2. Placed(fields, o, e)
    BY DEF e
  <2>3. QED
    BY <2>1, <2>2 DEF Placed
<1>4. fields[o + 1] = node.id /\ W(2) = node.created
  <2>1. 1 \in 1..Len(e) /\ 2 \in 1..Len(e)
    BY <1>2
  <2>2. fields[o + 1] = node.id /\ fields[o + 2] = <<node.created>>
    BY <1>2, <1>3, <2>1
  <2>3. QED
    BY <2>2
<1>5. ASSUME NEW m \in 1..Len(w)
      PROVE  W(2 + m) = w[m]
  <2>1. 2 + m \in 1..Len(e)
    BY <1>2
  <2>2. fields[o + (2 + m)] = <<w[m]>>
    BY <1>2, <1>3, <2>1
  <2>3. QED
    BY <2>2
<1>6. r.ok /\ r.off = o /\ r.items = items
  BY DEF Reader
<1>7. DecodeNode(fields, r) =
        IF ~ (o + 3 <= len) THEN Failing
        ELSE IF W(3) + 1 \in DOMAIN Layout
             THEN IF o + (3 + Layout[W(3) + 1]) <= len
                  THEN Go(3 + Layout[W(3) + 1], Ws(3, 3 + Layout[W(3) + 1])) ELSE Failing
             ELSE IF W(3) = Tag.LearnedDriver /\ o + 7 <= len /\ o + (7 + W(7)) <= len
                  THEN Go(7 + W(7), Ws(3, 6) \o Ws(8, 7 + W(7)))
                  ELSE Failing
  BY <1>6 DEF DecodeNode, Have, Word
<1>8. ASSUME NEW n \in Nat, n = Len(e), NEW kind, kind = k
      PROVE  Go(n, kind) = Reader(o + Len(e), Append(items, node))
  <2>1. node = [id |-> node.id, created |-> node.created, kind |-> k]
    BY DEF Nodes
  <2>2. PICK made : made = [id |-> fields[o + 1], created |-> W(2), kind |-> kind]
    OBVIOUS
  <2>3. made = node
    BY <1>4, <1>8, <2>1, <2>2
  <2>4. Go(n, kind) = Past(Reader(o, items), n, node)
    BY <2>2, <2>3
  <2>5. QED
    BY <1>8, <2>4, PastIs
<1> HIDE DEF Go, r, len
<1>9. o + 3 <= len /\ W(3) = k[1]
  <2>1. 1 \in 1..Len(w) /\ w[1] = k[1]
    BY <1>1, <1>2, RestIs DEF Nodes
  <2>2. W(2 + 1) = w[1]
    BY <1>5, <2>1
  <2>3. QED
    BY <1>2, <1>3, <2>1, <2>2
<1>10. k \in Kinds /\ k \in Seq(Nat) /\ Len(k) \in Nat
  BY RestIs DEF Nodes
<1>11. CASE k[1] # Tag.LearnedDriver
  <2>1. w = k /\ k[1] + 1 \in DOMAIN Layout /\ Len(k) = 1 + Layout[k[1] + 1]
    BY <1>1, <1>10, <1>11, RestIs
  <2>2. PICK l : l = Layout[k[1] + 1]
    OBVIOUS
  <2>3. l \in Nat /\ 3 + l = Len(e) /\ Len(k) = 1 + l
    <3>1. PICK t : t = k[1] + 1
      OBVIOUS
    <3>2. l \in Nat
      BY <2>1, <2>2, <3>1, LayoutIs
    <3>3. Len(k) = 1 + l /\ Len(e) = 2 + Len(k)
      BY <1>2, <2>1, <2>2
    <3>4. QED
      BY <3>2, <3>3
  <2>4. Ws(3, 3 + l) = k
    <3>1. (3 + l) - 3 + 1 = Len(k)
      BY <2>3
    <3>2. PICK x : x = Ws(3, 3 + l)
      OBVIOUS
    <3>3. x = [m \in 1..Len(k) |-> W(3 + m - 1)]
      BY <3>1, <3>2
    <3>4. \A m \in 1..Len(k) : 3 + m - 1 = 2 + m
      BY <1>10
    <3>5. \A m \in 1..Len(k) : x[m] = k[m]
      BY <1>5, <2>1, <3>3, <3>4
    <3>6. PICK y : y = k
      OBVIOUS
    <3>7. x = k
      <4>1. y = [m \in 1..Len(y) |-> y[m]]
        BY <1>10, <3>6
      <4>2. QED
        BY <3>3, <3>5, <3>6, <4>1
    <3>8. QED
      BY <3>2, <3>7
  <2> HIDE DEF Ws
  <2>5. DecodeNode(fields, r) = Go(3 + l, Ws(3, 3 + l))
    BY <1>3, <1>7, <1>9, <2>1, <2>2, <2>3
  <2>6. QED
    BY <1>8, <2>3, <2>4, <2>5 DEF r, e
<1>12. CASE k[1] = Tag.LearnedDriver
  <2>1. PICK l : l = Len(k)
    OBVIOUS
  <2>2. /\ l >= 4 /\ l \in Nat /\ Len(w) = l + 1 /\ (\A m \in 1..4 : w[m] = k[m])
        /\ w[5] = l - 4 /\ l - 4 \in Nat /\ \A m \in 1..(l - 4) : w[5 + m] = k[4 + m]
    BY <1>1, <1>10, <1>12, <2>1, RestIs
  <2>3. Len(e) = 3 + l /\ W(7) = l - 4 /\ 7 + W(7) = 3 + l
    <3>1. 5 \in 1..Len(w)
      BY <2>2
    <3>2. W(2 + 5) = w[5]
      BY <1>5, <3>1
    <3>3. W(7) = w[5]
      BY <3>2
    <3>4. PICK v : v = W(7)
      OBVIOUS
    <3>5. v = l - 4 /\ 7 + v = 3 + l
      BY <2>2, <3>3, <3>4
    <3>6. Len(e) = 3 + l
      BY <1>2, <2>2
    <3>7. QED
      BY <3>4, <3>5, <3>6
  <2>4. Ws(3, 6) \o Ws(8, 3 + l) = k
    <3>1. PICK x, y : x = Ws(3, 6) /\ y = Ws(8, 3 + l)
      OBVIOUS
    <3>2. \A m \in 1..4 : m \in 1..Len(w) /\ 3 + m - 1 = 2 + m
      BY <2>2
    <3>3. x = [m \in 1..4 |-> W(3 + m - 1)]
      BY <3>1
    <3>4. \A m \in 1..4 : x[m] = k[m]
      BY <1>5, <2>2, <3>2, <3>3
    <3>5. \A m \in 1..(l - 4) : 5 + m \in 1..Len(w) /\ 8 + m - 1 = 2 + (5 + m)
      BY <2>2
    <3>6. (3 + l) - 8 + 1 = l - 4
      BY <2>2
    <3>7. y = [m \in 1..(l - 4) |-> W(8 + m - 1)]
      BY <3>1, <3>6
    <3>8. \A m \in 1..(l - 4) : y[m] = k[4 + m]
      BY <1>5, <2>2, <3>5, <3>7
    <3>9. DOMAIN k = 1..l /\ \A m \in 1..l : k[m] \in Nat
      BY <1>10, <2>1
    <3>10. x \in [1..4 -> Nat] /\ y \in [1..(l - 4) -> Nat]
      <4>1. \A m \in 1..4 : m \in 1..l
        BY <2>2
      <4>2. \A m \in 1..(l - 4) : 4 + m \in 1..l
        BY <2>2
      <4>3. QED
        BY <3>3, <3>4, <3>7, <3>8, <3>9, <4>1, <4>2
    <3>11. x \in Seq(Nat) /\ Len(x) = 4 /\ y \in Seq(Nat) /\ Len(y) = l - 4
      BY <2>2, <3>10, TupleIsSeq
    <3>12. PICK z : z = x \o y
      OBVIOUS
    <3>13. /\ z \in Seq(Nat) /\ Len(z) = Len(x) + Len(y)
           /\ \A n \in 1..Len(x) : z[n] = x[n]
           /\ \A n \in 1..Len(y) : z[Len(x) + n] = y[n]
      <4>1. x \in Seq(Nat) /\ y \in Seq(Nat)
        BY <3>11
      <4>2. QED
        BY <3>12, <4>1, Joined
    <3>14. Len(z) = l
      BY <2>2, <3>11, <3>13
    <3>15. ASSUME NEW n \in 1..l
           PROVE  z[n] = k[n]
      <4>1. CASE n \in 1..4
        BY <3>4, <3>11, <3>13, <4>1
      <4>2. CASE n \notin 1..4
        <5>1. n - 4 \in 1..(l - 4) /\ 4 + (n - 4) = n
          BY <2>2, <4>2
        <5>2. z[4 + (n - 4)] = y[n - 4]
          BY <3>11, <3>13, <5>1
        <5>3. y[n - 4] = k[4 + (n - 4)]
          BY <3>8, <5>1
        <5>4. QED
          BY <5>1, <5>2, <5>3
      <4>3. QED
        BY <4>1, <4>2
    <3>16. PICK q : q = k
      OBVIOUS
    <3>17. z = k
      <4>1. q = [n \in 1..l |-> q[n]]
        BY <1>10, <2>1, <3>16
      <4>2. z = [n \in 1..l |-> z[n]]
        BY <3>13, <3>14
      <4>3. QED
        BY <3>15, <3>16, <4>1, <4>2
    <3>18. QED
      BY <3>1, <3>12, <3>17
  <2>5. ~ (W(3) + 1 \in DOMAIN Layout) /\ W(3) = Tag.LearnedDriver
    BY <1>9, <1>12, LayoutIs DEF Tag
  <2>6. o + 7 <= len /\ o + (7 + W(7)) <= len
    <3>1. PICK v : v = 7 + W(7)
      OBVIOUS
    <3>2. v = 3 + l /\ o + (3 + l) <= len
      BY <1>3, <2>3, <3>1
    <3>3. o + 7 <= len
      BY <1>3, <2>2, <3>2
    <3>4. QED
      BY <3>1, <3>2, <3>3
  <2> HIDE DEF Ws
  <2>7. DecodeNode(fields, r) = Go(3 + l, Ws(3, 6) \o Ws(8, 3 + l))
    BY <1>7, <1>9, <2>3, <2>5, <2>6
  <2>8. 3 + l \in Nat /\ 3 + l = Len(e)
    BY <2>2, <2>3
  <2>9. Go(3 + l, Ws(3, 6) \o Ws(8, 3 + l)) = Reader(o + Len(e), Append(items, node))
    BY <1>8, <2>4, <2>8
  <2>10. QED
    BY <2>7, <2>9 DEF r, e
<1>13. QED
  BY <1>11, <1>12

LEMMA EdgeFields ==
  ASSUME NEW edge \in Edges
  PROVE  LET e == EncodeEdge(edge) IN
         /\ e \in Seq(Seq(Nat)) /\ Len(e) = 3
         /\ e[1] = edge.source /\ e[2] = edge.target /\ e[3] = <<EdgeTag[edge.kind]>>
<1>1. edge.source \in Seq(Nat) /\ edge.target \in Seq(Nat) /\ EdgeTag[edge.kind] \in Nat
  BY DEF Edges, Kinds, EdgeTag
<1>2. <<EdgeTag[edge.kind]>> \in Seq(Nat)
  BY <1>1
<1>3. QED
  BY <1>1, <1>2 DEF EncodeEdge

LEMMA TagsDiffer ==
  ASSUME NEW k \in DOMAIN EdgeTag, NEW l \in DOMAIN EdgeTag, EdgeTag[k] = EdgeTag[l]
  PROVE  k = l
BY DEF EdgeTag

LEMMA EdgeDecoded ==
  ASSUME NEW fields \in Seq(Seq(Nat)), NEW edge \in Edges, NEW o \in Nat, NEW items,
         Placed(fields, o, EncodeEdge(edge))
  PROVE  DecodeEdge(fields, Reader(o, items)) =
           Reader(o + Len(EncodeEdge(edge)), Append(items, edge))
<1> DEFINE r == Reader(o, items)
           len == Len(fields)
           w == fields[o + 3][1]
<1>1. PICK e : e = EncodeEdge(edge)
  OBVIOUS
<1>2. Len(e) = 3 /\ e[1] = edge.source /\ e[2] = edge.target /\ e[3] = <<EdgeTag[edge.kind]>>
  BY <1>1, EdgeFields
<1>3. o + Len(e) <= len /\ \A m \in 1..Len(e) : fields[o + m] = e[m]
  BY <1>1 DEF Placed
<1>4. /\ o + 3 <= len /\ fields[o + 1] = edge.source /\ fields[o + 2] = edge.target
      /\ fields[o + 3] = <<EdgeTag[edge.kind]>>
  <2>1. 1 \in 1..Len(e) /\ 2 \in 1..Len(e) /\ 3 \in 1..Len(e)
    BY <1>2
  <2>2. QED
    BY <1>2, <1>3, <2>1
<1>5. w = EdgeTag[edge.kind]
  BY <1>4
<1>6. edge.kind \in DOMAIN EdgeTag
  BY DEF Edges
<1>7. (CHOOSE k \in DOMAIN EdgeTag : EdgeTag[k] = w) = edge.kind
  <2>1. \A k \in DOMAIN EdgeTag : EdgeTag[k] = w <=> k = edge.kind
    BY <1>5, <1>6, TagsDiffer
  <2>2. QED
    BY <1>6, <2>1
<1>8. r.ok /\ r.off = o /\ r.items = items
  BY DEF Reader
<1> HIDE DEF r
<1>9. DecodeEdge(fields, r) =
        IF ~ (o + 3 <= len) \/ \A k \in DOMAIN EdgeTag : EdgeTag[k] # w THEN Failing
        ELSE [r EXCEPT !.off = @ + 3,
                       !.items = Append(@, [source |-> fields[o + 1], target |-> fields[o + 2],
                                            kind |-> CHOOSE k \in DOMAIN EdgeTag : EdgeTag[k] = w])]
  BY <1>8 DEF DecodeEdge, Have, Word, Past
<1>10. edge = [source |-> edge.source, target |-> edge.target, kind |-> edge.kind]
  BY DEF Edges
<1>11. DecodeEdge(fields, r) =
         [r EXCEPT !.off = @ + 3,
                   !.items = Append(@, [source |-> fields[o + 1], target |-> fields[o + 2],
                                        kind |-> CHOOSE k \in DOMAIN EdgeTag : EdgeTag[k] = w])]
  <2>1. ~ \A k \in DOMAIN EdgeTag : EdgeTag[k] # w
    BY <1>5, <1>6
  <2>2. QED
    BY <1>4, <1>9, <2>1
<1>12. DecodeEdge(fields, r) = [r EXCEPT !.off = @ + 3, !.items = Append(@, edge)]
  BY <1>4, <1>7, <1>10, <1>11
<1>13. QED
  BY <1>1, <1>2, <1>12 DEF r, Reader

LEMMA PrefixIs ==
  ASSUME NEW X, NEW s \in Seq(X)
  PROVE  /\ SubSeq(s, 1, 0) = <<>> /\ SubSeq(s, 1, Len(s)) = s
         /\ \A n \in 1..Len(s) : SubSeq(s, 1, n) = Append(SubSeq(s, 1, n - 1), s[n])
<1>1. Len(s) \in Nat /\ s = [m \in 1..Len(s) |-> s[m]]
  OBVIOUS
<1>2. SubSeq(s, 1, 0) = <<>>
  OBVIOUS
<1>3. SubSeq(s, 1, Len(s)) = s
  <2>1. PICK t : t = SubSeq(s, 1, Len(s))
    OBVIOUS
  <2>2. t = [m \in 1..Len(s) |-> s[m]]
    BY <1>1, <2>1
  <2>3. QED
    BY <1>1, <2>1, <2>2
<1>4. ASSUME NEW n \in 1..Len(s)
      PROVE  SubSeq(s, 1, n) = Append(SubSeq(s, 1, n - 1), s[n])
  <2>1. PICK a, b, c : a = SubSeq(s, 1, n) /\ b = SubSeq(s, 1, n - 1) /\ c = Append(b, s[n])
    OBVIOUS
  <2>2. a = [m \in 1..n |-> s[m]] /\ b = [m \in 1..(n - 1) |-> s[m]]
    BY <1>1, <2>1
  <2>3. b \in Seq(X) /\ Len(b) = n - 1
    <3>1. PICK l : l = n - 1
      OBVIOUS
    <3>2. l \in Nat /\ \A m \in 1..l : m \in 1..Len(s) /\ s[m] \in X
      BY <1>1, <3>1
    <3>3. b \in [1..l -> X]
      BY <2>2, <3>1, <3>2
    <3>4. QED
      BY <3>1, <3>2, <3>3
  <2>4. c = [m \in 1..n |-> c[m]] /\ c[n] = s[n] /\ \A m \in 1..(n - 1) : c[m] = b[m]
    BY <2>1, <2>3
  <2>5. \A m \in 1..n : c[m] = s[m]
    <3>1. \A m \in 1..n : m = n \/ m \in 1..(n - 1)
      OBVIOUS
    <3>2. QED
      BY <2>2, <2>4, <3>1
  <2>6. a = c
    BY <2>2, <2>4, <2>5
  <2>7. QED
    BY <2>1, <2>6
<1>5. QED
  BY <1>2, <1>3, <1>4

\* The sequences code[1], code[2] ... lie in fields behind the first o of them, the
\* n-th from start[n - 1] on.
Laid(fields, o, code, len, start) ==
  /\ start \in [0..len -> Nat] /\ start[0] = 0
  /\ \A n \in 1..len : start[n] = start[n - 1] + Len(code[n]) /\ Placed(fields, o + start[n - 1], code[n])

LEMMA NodesDecoded ==
  ASSUME NEW fields \in Seq(Seq(Nat)), NEW nodes \in Seq(Nodes), NEW o \in Nat, NEW start,
         Laid(fields, o, [n \in DOMAIN nodes |-> EncodeNode(nodes[n])], Len(nodes), start)
  PROVE  DecodeNodes(fields, Reader(o, <<>>), Len(nodes)) = Reader(o + start[Len(nodes)], nodes)
<1>1. PICK len : len = Len(nodes)
  OBVIOUS
<1>2. len \in Nat /\ DOMAIN nodes = 1..len /\ \A n \in 1..len : nodes[n] \in Nodes
  BY <1>1
<1>3. /\ start \in [0..len -> Nat] /\ start[0] = 0
      /\ \A n \in 1..len : /\ start[n] = start[n - 1] + Len(EncodeNode(nodes[n]))
                           /\ Placed(fields, o + start[n - 1], EncodeNode(nodes[n]))
  BY <1>1, <1>2 DEF Laid
<1> DEFINE Reads(g) == g = [n \in 0..len |->
                              IF n = 0 THEN Reader(o, <<>>) ELSE DecodeNode(fields, g[n - 1])]
<1>4. PICK h : h = [n \in 0..len |-> Reader(o + start[n], SubSeq(nodes, 1, n))]
  OBVIOUS
<1>5. 0 \in 0..len /\ len \in 0..len /\ \A n \in 1..len : n \in 0..len /\ n - 1 \in 0..len /\ n # 0
  BY <1>2
<1>6. h[0] = Reader(o, <<>>) /\ h[len] = Reader(o + start[len], nodes)
  <2>1. SubSeq(nodes, 1, 0) = <<>> /\ SubSeq(nodes, 1, len) = nodes
    BY <1>1, PrefixIs
  <2>2. o + start[0] = o
    BY <1>3
  <2>3. QED
    BY <1>4, <1>5, <2>1, <2>2
<1>7. ASSUME NEW n \in 1..len
      PROVE  DecodeNode(fields, h[n - 1]) = h[n]
  <2>1. PICK p, node : p = SubSeq(nodes, 1, n - 1) /\ node = nodes[n]
    OBVIOUS
  <2>2. PICK s : s = o + start[n - 1]
    OBVIOUS
  <2>3. node \in Nodes /\ s \in Nat /\ Placed(fields, s, EncodeNode(node))
    <3>1. start[n - 1] \in Nat
      BY <1>3, <1>5
    <3>2. Placed(fields, o + start[n - 1], EncodeNode(nodes[n]))
      BY <1>3
    <3>3. QED
      BY <1>2, <2>1, <2>2, <3>1, <3>2
  <2>4. DecodeNode(fields, Reader(s, p)) = Reader(s + Len(EncodeNode(node)), Append(p, node))
    BY <2>3, NodeDecoded
  <2>5. SubSeq(nodes, 1, n) = Append(p, node)
    BY <1>1, <2>1, PrefixIs
  <2>6. s + Len(EncodeNode(node)) = o + start[n]
    <3>1. PICK l : l = Len(EncodeNode(node))
      OBVIOUS
    <3>2. l \in Nat
      BY <2>3, <3>1, NodeFields
    <3>3. PICK u : u = start[n - 1]
      OBVIOUS
    <3>4. u \in Nat /\ start[n] = u + l /\ s = o + u
      BY <1>3, <1>5, <2>1, <2>2, <3>1, <3>3
    <3>5. (o + u) + l = o + (u + l)
      BY <3>2, <3>4
    <3>6. QED
      BY <3>1, <3>4, <3>5
  <2>7. h[n - 1] = Reader(s, p) /\ h[n] = Reader(o + start[n], SubSeq(nodes, 1, n))
    BY <1>4, <1>5, <2>1, <2>2
  <2>8. QED
    BY <2>4, <2>5, <2>6, <2>7
<1>8. Reads(h)
  <2>1. PICK again : again = [n \in 0..len |->
                                IF n = 0 THEN Reader(o, <<>>) ELSE DecodeNode(fields, h[n - 1])]
    OBVIOUS
  <2>2. \A n \in 0..len : n = 0 \/ n \in 1..len
    BY <1>2
  <2>3. \A n \in 0..len : h[n] = IF n = 0 THEN Reader(o, <<>>) ELSE DecodeNode(fields, h[n - 1])
    BY <1>6, <1>7, <2>2
  <2>4. h = again
    BY <1>4, <2>1, <2>3
  <2>5. QED
    BY <2>1, <2>4
<1>9. PICK read : read = CHOOSE g : Reads(g)
  OBVIOUS
<1>10. Reads(read)
  BY <1>8, <1>9
<1>11. DecodeNodes(fields, Reader(o, <<>>), len) = read[len]
  BY <1>9 DEF DecodeNodes
<1>12. read[0] = Reader(o, <<>>) /\ \A n \in 1..len : read[n] = DecodeNode(fields, read[n - 1])
  BY <1>5, <1>10
<1> HIDE DEF Reads
<1> DEFINE T == {n \in 0..len : read[n] = h[n]}
<1>13. 0 \in T
  BY <1>5, <1>6, <1>12
<1>14. \A n \in 1..len : n - 1 \in T => n \in T
  BY <1>5, <1>7, <1>12
<1> HIDE DEF T
<1>15. len \in T
  <2>1. \A n \in 0..len : n \in T
    BY <1>2, <1>13, <1>14, UpTo
  <2>2. QED
    BY <1>5, <2>1
<1>16. read[len] = h[len]
  BY <1>15 DEF T
<1>17. QED
  BY <1>1, <1>6, <1>11, <1>16

LEMMA EdgesDecoded ==
  ASSUME NEW fields \in Seq(Seq(Nat)), NEW edges \in Seq(Edges), NEW o \in Nat, NEW start,
         Laid(fields, o, [n \in DOMAIN edges |-> EncodeEdge(edges[n])], Len(edges), start)
  PROVE  DecodeEdges(fields, Reader(o, <<>>), Len(edges)) = Reader(o + start[Len(edges)], edges)
<1>1. PICK len : len = Len(edges)
  OBVIOUS
<1>2. len \in Nat /\ DOMAIN edges = 1..len /\ \A n \in 1..len : edges[n] \in Edges
  BY <1>1
<1>3. /\ start \in [0..len -> Nat] /\ start[0] = 0
      /\ \A n \in 1..len : /\ start[n] = start[n - 1] + Len(EncodeEdge(edges[n]))
                           /\ Placed(fields, o + start[n - 1], EncodeEdge(edges[n]))
  BY <1>1, <1>2 DEF Laid
<1> DEFINE Reads(g) == g = [n \in 0..len |->
                              IF n = 0 THEN Reader(o, <<>>) ELSE DecodeEdge(fields, g[n - 1])]
<1>4. PICK h : h = [n \in 0..len |-> Reader(o + start[n], SubSeq(edges, 1, n))]
  OBVIOUS
<1>5. 0 \in 0..len /\ len \in 0..len /\ \A n \in 1..len : n \in 0..len /\ n - 1 \in 0..len /\ n # 0
  BY <1>2
<1>6. h[0] = Reader(o, <<>>) /\ h[len] = Reader(o + start[len], edges)
  <2>1. SubSeq(edges, 1, 0) = <<>> /\ SubSeq(edges, 1, len) = edges
    BY <1>1, PrefixIs
  <2>2. o + start[0] = o
    BY <1>3
  <2>3. QED
    BY <1>4, <1>5, <2>1, <2>2
<1>7. ASSUME NEW n \in 1..len
      PROVE  DecodeEdge(fields, h[n - 1]) = h[n]
  <2>1. PICK p, edge : p = SubSeq(edges, 1, n - 1) /\ edge = edges[n]
    OBVIOUS
  <2>2. PICK s : s = o + start[n - 1]
    OBVIOUS
  <2>3. edge \in Edges /\ s \in Nat /\ Placed(fields, s, EncodeEdge(edge))
    <3>1. start[n - 1] \in Nat
      BY <1>3, <1>5
    <3>2. Placed(fields, o + start[n - 1], EncodeEdge(edges[n]))
      BY <1>3
    <3>3. QED
      BY <1>2, <2>1, <2>2, <3>1, <3>2
  <2>4. DecodeEdge(fields, Reader(s, p)) = Reader(s + Len(EncodeEdge(edge)), Append(p, edge))
    BY <2>3, EdgeDecoded
  <2>5. SubSeq(edges, 1, n) = Append(p, edge)
    BY <1>1, <2>1, PrefixIs
  <2>6. s + Len(EncodeEdge(edge)) = o + start[n]
    <3>1. PICK l : l = Len(EncodeEdge(edge))
      OBVIOUS
    <3>2. l \in Nat
      BY <2>3, <3>1, EdgeFields
    <3>3. PICK u : u = start[n - 1]
      OBVIOUS
    <3>4. u \in Nat /\ start[n] = u + l /\ s = o + u
      BY <1>3, <1>5, <2>1, <2>2, <3>1, <3>3
    <3>5. (o + u) + l = o + (u + l)
      BY <3>2, <3>4
    <3>6. QED
      BY <3>1, <3>4, <3>5
  <2>7. h[n - 1] = Reader(s, p) /\ h[n] = Reader(o + start[n], SubSeq(edges, 1, n))
    BY <1>4, <1>5, <2>1, <2>2
  <2>8. QED
    BY <2>4, <2>5, <2>6, <2>7
<1>8. Reads(h)
  <2>1. PICK again : again = [n \in 0..len |->
                                IF n = 0 THEN Reader(o, <<>>) ELSE DecodeEdge(fields, h[n - 1])]
    OBVIOUS
  <2>2. \A n \in 0..len : n = 0 \/ n \in 1..len
    BY <1>2
  <2>3. \A n \in 0..len : h[n] = IF n = 0 THEN Reader(o, <<>>) ELSE DecodeEdge(fields, h[n - 1])
    BY <1>6, <1>7, <2>2
  <2>4. h = again
    BY <1>4, <2>1, <2>3
  <2>5. QED
    BY <2>1, <2>4
<1>9. PICK read : read = CHOOSE g : Reads(g)
  OBVIOUS
<1>10. Reads(read)
  BY <1>8, <1>9
<1>11. DecodeEdges(fields, Reader(o, <<>>), len) = read[len]
  BY <1>9 DEF DecodeEdges
<1>12. read[0] = Reader(o, <<>>) /\ \A n \in 1..len : read[n] = DecodeEdge(fields, read[n - 1])
  BY <1>5, <1>10
<1> HIDE DEF Reads
<1> DEFINE T == {n \in 0..len : read[n] = h[n]}
<1>13. 0 \in T
  BY <1>5, <1>6, <1>12
<1>14. \A n \in 1..len : n - 1 \in T => n \in T
  BY <1>5, <1>7, <1>12
<1> HIDE DEF T
<1>15. len \in T
  <2>1. \A n \in 0..len : n \in T
    BY <1>2, <1>13, <1>14, UpTo
  <2>2. QED
    BY <1>5, <2>1
<1>16. read[len] = h[len]
  BY <1>15 DEF T
<1>17. QED
  BY <1>1, <1>6, <1>11, <1>16

LEMMA LaidFrom ==
  ASSUME NEW X, NEW fields, NEW flat, NEW seqs \in Seq(Seq(X)), NEW o \in Nat, NEW start,
         Len(flat) \in Nat, Len(fields) \in Nat, LaidOut(flat, seqs, start), Placed(fields, o, flat)
  PROVE  Laid(fields, o, seqs, Len(seqs), start)
<1>1. PICK len, top : len = Len(seqs) /\ top = Len(flat)
  OBVIOUS
<1>2. len \in Nat /\ top \in Nat /\ \A n \in 1..len : Len(seqs[n]) \in Nat
  <2>1. \A n \in 1..len : seqs[n] \in Seq(X)
    BY <1>1
  <2>2. QED
    BY <1>1, <2>1
<1>3. /\ start \in [0..len -> Nat] /\ start[0] = 0
      /\ \A n \in 1..len : /\ start[n] = start[n - 1] + Len(seqs[n]) /\ start[n] <= top
                           /\ \A m \in 1..Len(seqs[n]) : flat[start[n - 1] + m] = seqs[n][m]
  BY <1>1 DEF LaidOut
<1>4. o + top <= Len(fields) /\ \A m \in 1..top : fields[o + m] = flat[m]
  BY <1>1 DEF Placed
<1>5. ASSUME NEW n \in 1..len
      PROVE  Placed(fields, o + start[n - 1], seqs[n])
  <2>1. PICK s, l : s = start[n - 1] /\ l = Len(seqs[n])
    OBVIOUS
  <2>2. n - 1 \in 0..len
    BY <1>2
  <2>3. s \in Nat /\ l \in Nat /\ s + l <= top
    BY <1>2, <1>3, <2>1, <2>2
  <2>4. (o + s) + l <= Len(fields)
    BY <1>2, <1>4, <2>3
  <2>5. ASSUME NEW m \in 1..l
        PROVE  fields[(o + s) + m] = seqs[n][m]
    <3>1. s + m \in 1..top /\ o + (s + m) = (o + s) + m
      BY <1>2, <2>3
    <3>2. fields[o + (s + m)] = flat[s + m]
      BY <1>4, <3>1
    <3>3. flat[s + m] = seqs[n][m]
      BY <1>3, <2>1
    <3>4. QED
      BY <3>1, <3>2, <3>3
  <2>6. QED
    BY <2>1, <2>4, <2>5 DEF Placed
<1>6. QED
  BY <1>1, <1>3, <1>5 DEF Laid

LEMMA HeaderIs ==
  ASSUME NEW f \in Fabrics
  PROVE  /\ Header(f) \in Seq(Seq(Nat)) /\ Len(Header(f)) = 3
         /\ Header(f)[1] = <<Len(f.nodes)>> /\ Header(f)[2] = <<Len(f.edges)>>
         /\ Header(f)[3] = <<f.lamport>>
<1>1. PICK a, b, c : a = Len(f.nodes) /\ b = Len(f.edges) /\ c = f.lamport
  OBVIOUS
<1>2. a \in Nat /\ b \in Nat /\ c \in Nat
  BY <1>1, FabricParts
<1>3. <<a>> \in Seq(Nat) /\ <<b>> \in Seq(Nat) /\ <<c>> \in Seq(Nat)
  BY <1>2
<1>4. QED
  BY <1>1, <1>3 DEF Header

LEMMA CodeTyped ==
  ASSUME NEW f \in Fabrics
  PROVE  /\ [n \in DOMAIN f.nodes |-> EncodeNode(f.nodes[n])] \in Seq(Seq(Seq(Nat)))
         /\ Len([n \in DOMAIN f.nodes |-> EncodeNode(f.nodes[n])]) = Len(f.nodes)
         /\ [n \in DOMAIN f.edges |-> EncodeEdge(f.edges[n])] \in Seq(Seq(Seq(Nat)))
         /\ Len([n \in DOMAIN f.edges |-> EncodeEdge(f.edges[n])]) = Len(f.edges)
<1>1. PICK code, links : /\ code = [n \in DOMAIN f.nodes |-> EncodeNode(f.nodes[n])]
                         /\ links = [n \in DOMAIN f.edges |-> EncodeEdge(f.edges[n])]
  OBVIOUS
<1>2. f.nodes \in Seq(Nodes) /\ f.edges \in Seq(Edges)
  BY FabricParts
<1>3. \A n \in DOMAIN f.nodes : f.nodes[n] \in Nodes => code[n] \in Seq(Seq(Nat))
  BY <1>1, NodeFields
<1>4. \A n \in DOMAIN f.edges : f.edges[n] \in Edges => links[n] \in Seq(Seq(Nat))
  BY <1>1, EdgeFields
<1> DEFINE Fields == Seq(Seq(Nat))
<1>5. code \in Seq(Seq(Seq(Nat))) /\ Len(code) = Len(f.nodes)
  <2>1. PICK s : s = f.nodes
    OBVIOUS
  <2>2. s \in Seq(Nodes) /\ \A n \in DOMAIN s : s[n] \in Nodes => code[n] \in Fields
    BY <1>2, <1>3, <2>1
  <2>3. DOMAIN code = DOMAIN s /\ code = [n \in DOMAIN s |-> code[n]]
    BY <1>1, <2>1
  <2> HIDE DEF Fields
  <2>4. code \in Seq(Fields) /\ Len(code) = Len(s)
    BY <2>2, <2>3, EachTyped
  <2>5. QED
    BY <2>1, <2>4 DEF Fields
<1>6. links \in Seq(Seq(Seq(Nat))) /\ Len(links) = Len(f.edges)
  <2>1. PICK s : s = f.edges
    OBVIOUS
  <2>2. s \in Seq(Edges) /\ \A n \in DOMAIN s : s[n] \in Edges => links[n] \in Fields
    BY <1>2, <1>4, <2>1
  <2>3. DOMAIN links = DOMAIN s /\ links = [n \in DOMAIN s |-> links[n]]
    BY <1>1, <2>1
  <2> HIDE DEF Fields
  <2>4. links \in Seq(Fields) /\ Len(links) = Len(s)
    BY <2>2, <2>3, EachTyped
  <2>5. QED
    BY <2>1, <2>4 DEF Fields
<1>7. QED
  BY <1>1, <1>5, <1>6

\* The body of a fabric is the three fields of its header, its nodes and its edges.
LEMMA EncodedIs ==
  ASSUME NEW f \in Fabrics
  PROVE  LET fields == EncodeSnapshot(f) IN
         /\ fields \in Seq(Seq(Nat)) /\ Len(fields) >= 3
         /\ fields[1] = <<Len(f.nodes)>> /\ fields[2] = <<Len(f.edges)>> /\ fields[3] = <<f.lamport>>
         /\ \E start, mid, after :
              /\ Laid(fields, 3, [n \in DOMAIN f.nodes |-> EncodeNode(f.nodes[n])],
                      Len(f.nodes), start)
              /\ mid \in Nat /\ mid = 3 + start[Len(f.nodes)]
              /\ Laid(fields, mid, [n \in DOMAIN f.edges |-> EncodeEdge(f.edges[n])],
                      Len(f.edges), after)
<1>1. PICK code, links : /\ code = [n \in DOMAIN f.nodes |-> EncodeNode(f.nodes[n])]
                         /\ links = [n \in DOMAIN f.edges |-> EncodeEdge(f.edges[n])]
  OBVIOUS
<1>2. /\ code \in Seq(Seq(Seq(Nat))) /\ Len(code) = Len(f.nodes)
      /\ links \in Seq(Seq(Seq(Nat))) /\ Len(links) = Len(f.edges)
  BY <1>1, CodeTyped
<1>3. PICK h, a, b : h = Header(f) /\ a = FlattenSeq(code) /\ b = FlattenSeq(links)
  OBVIOUS
<1>4. PICK start : a \in Seq(Seq(Nat)) /\ LaidOut(a, code, start)
  BY <1>2, <1>3, FlattenIs
<1>5. PICK after : b \in Seq(Seq(Nat)) /\ LaidOut(b, links, after)
  BY <1>2, <1>3, FlattenIs
<1>6. /\ h \in Seq(Seq(Nat)) /\ h[1] = <<Len(f.nodes)>> /\ h[2] = <<Len(f.edges)>>
      /\ h[3] = <<f.lamport>>
  BY <1>3, HeaderIs
<1>7. PICK front, fields : front = h \o a /\ fields = front \o b
  OBVIOUS
<1>8. /\ front \in Seq(Seq(Nat)) /\ Len(front) = Len(h) + Len(a)
      /\ Len(h) \in Nat /\ Len(a) \in Nat
      /\ \A n \in 1..Len(h) : front[n] = h[n]
      /\ \A n \in 1..Len(a) : front[Len(h) + n] = a[n]
  BY <1>4, <1>6, <1>7, Joined
<1>9. /\ fields \in Seq(Seq(Nat)) /\ Len(fields) = Len(front) + Len(b)
      /\ Len(front) \in Nat /\ Len(b) \in Nat
      /\ \A n \in 1..Len(front) : fields[n] = front[n]
      /\ \A n \in 1..Len(b) : fields[Len(front) + n] = b[n]
  <2>1. front \in Seq(Seq(Nat)) /\ b \in Seq(Seq(Nat))
    BY <1>5, <1>8
  <2>2. QED
    BY <1>7, <2>1, Joined
<1>10. fields = EncodeSnapshot(f)
  BY <1>1, <1>3, <1>7 DEF EncodeSnapshot
<1>11. Len(h) = 3
  BY <1>3, HeaderIs
<1>12. PICK mid : mid = Len(front)
  OBVIOUS
<1>13. mid \in Nat /\ mid = 3 + Len(a) /\ Len(fields) = mid + Len(b) /\ Len(fields) >= 3
       /\ Len(fields) \in Nat
  <2>1. PICK u, v, w : u = Len(a) /\ v = Len(b) /\ w = Len(fields)
    OBVIOUS
  <2>2. u \in Nat /\ v \in Nat /\ mid = 3 + u /\ w = mid + v
    BY <1>8, <1>9, <1>11, <1>12, <2>1
  <2>3. mid \in Nat /\ w >= 3 /\ w \in Nat
    BY <2>2
  <2>4. QED
    BY <2>1, <2>2, <2>3
<1>14. fields[1] = h[1] /\ fields[2] = h[2] /\ fields[3] = h[3]
  <2>1. \A n \in 1..3 : n \in 1..Len(h) /\ n \in 1..Len(front)
    BY <1>11, <1>12, <1>13
  <2>2. \A n \in 1..3 : fields[n] = h[n]
    BY <1>8, <1>9, <2>1
  <2>3. QED
    BY <2>2
<1>15. Placed(fields, 3, a)
  <2>1. 3 + Len(a) <= Len(fields)
    BY <1>8, <1>9, <1>13
  <2>2. ASSUME NEW m \in 1..Len(a)
        PROVE  fields[3 + m] = a[m]
    <3>1. 3 + m \in 1..Len(front)
      BY <1>8, <1>12, <1>13
    <3>2. fields[3 + m] = front[3 + m] /\ front[3 + m] = a[m]
      BY <1>8, <1>9, <1>11, <3>1
    <3>3. QED
      BY <3>2
  <2>3. QED
    BY <2>1, <2>2 DEF Placed
<1>16. Placed(fields, mid, b)
  <2>1. mid + Len(b) <= Len(fields)
    BY <1>9, <1>13
  <2>2. QED
    BY <1>9, <1>12, <2>1 DEF Placed
<1>17. Laid(fields, 3, code, Len(code), start)
  BY <1>2, <1>4, <1>8, <1>13, <1>15, LaidFrom
<1>18. Laid(fields, mid, links, Len(links), after)
  BY <1>2, <1>5, <1>9, <1>13, <1>16, LaidFrom
<1>19. start[Len(code)] = Len(a)
  BY <1>4 DEF LaidOut
<1>20. QED
  BY <1>1, <1>2, <1>6, <1>9, <1>10, <1>13, <1>14, <1>17, <1>18, <1>19

\* What is written is read back as it was.
LEMMA SnapshotDecoded ==
  ASSUME NEW f \in Fabrics
  PROVE  EncodeSnapshot(f) \in Seq(Seq(Nat)) /\ DecodeSnapshot(EncodeSnapshot(f)) = <<f>>
<1>1. PICK fields : fields = EncodeSnapshot(f)
  OBVIOUS
<1>2. PICK code, links : /\ code = [n \in DOMAIN f.nodes |-> EncodeNode(f.nodes[n])]
                         /\ links = [n \in DOMAIN f.edges |-> EncodeEdge(f.edges[n])]
  OBVIOUS
<1>3. /\ fields \in Seq(Seq(Nat)) /\ Len(fields) >= 3 /\ Len(fields) \in Nat
      /\ fields[1] = <<Len(f.nodes)>> /\ fields[2] = <<Len(f.edges)>> /\ fields[3] = <<f.lamport>>
  BY <1>1, EncodedIs
<1>4. PICK start, mid, after :
        /\ Laid(fields, 3, code, Len(f.nodes), start)
        /\ mid \in Nat /\ mid = 3 + start[Len(f.nodes)]
        /\ Laid(fields, mid, links, Len(f.edges), after)
  BY <1>1, <1>2, EncodedIs
<1>5. f.nodes \in Seq(Nodes) /\ f.edges \in Seq(Edges)
  BY FabricParts
<1>6. DecodeNodes(fields, Reader(3, <<>>), Len(f.nodes)) = Reader(mid, f.nodes)
  <2>1. PICK nodes : nodes = f.nodes
    OBVIOUS
  <2>2. /\ nodes \in Seq(Nodes)
        /\ Laid(fields, 3, [n \in DOMAIN nodes |-> EncodeNode(nodes[n])], Len(nodes), start)
    BY <1>2, <1>4, <1>5, <2>1
  <2>3. DecodeNodes(fields, Reader(3, <<>>), Len(nodes)) = Reader(3 + start[Len(nodes)], nodes)
    <3>1. PICK three \in Nat : three = 3
      OBVIOUS
    <3>2. Laid(fields, three, [n \in DOMAIN nodes |-> EncodeNode(nodes[n])], Len(nodes), start)
      BY <2>2, <3>1
    <3>3. QED
      BY <1>3, <2>2, <3>1, <3>2, NodesDecoded
  <2>4. QED
    BY <1>4, <2>1, <2>3
<1>7. PICK done : done = mid + after[Len(f.edges)]
  OBVIOUS
<1>8. DecodeEdges(fields, Reader(mid, <<>>), Len(f.edges)) = Reader(done, f.edges)
  BY <1>2, <1>3, <1>4, <1>5, <1>7, EdgesDecoded
<1>9. fields[1][1] = Len(f.nodes) /\ fields[2][1] = Len(f.edges) /\ fields[3][1] = f.lamport
  BY <1>3
<1>10. [Reader(mid, f.nodes) EXCEPT !.items = <<>>] = Reader(mid, <<>>)
  <2>1. PICK none, old : none = <<>> /\ old = f.nodes
    OBVIOUS
  <2>2. PICK r, u, v : /\ r = Reader(mid, old) /\ v = Reader(mid, none)
                       /\ u = [r EXCEPT !.items = none]
    OBVIOUS
  <2>3. /\ u.ok = TRUE /\ u.off = mid /\ u.items = none
        /\ u = [m \in {"ok", "off", "items"} |-> u[m]]
    BY <2>2 DEF Reader
  <2>4. /\ v.ok = TRUE /\ v.off = mid /\ v.items = none
        /\ v = [m \in {"ok", "off", "items"} |-> v[m]]
    BY <2>2 DEF Reader
  <2>5. u = v
    BY <2>3, <2>4
  <2>6. QED
    BY <2>1, <2>2, <2>5
<1>11. [ok |-> TRUE, off |-> 3, items |-> <<>>] = Reader(3, <<>>)
  BY DEF Reader
<1>12. DecodeSnapshot(fields) =
         LET edges == DecodeEdges(fields, [DecodeNodes(fields, Reader(3, <<>>), fields[1][1])
                                           EXCEPT !.items = <<>>], fields[2][1])
         IN IF Len(fields) < 3 \/ ~ edges.ok THEN <<>>
            ELSE <<[nodes |-> DecodeNodes(fields, Reader(3, <<>>), fields[1][1]).items,
                    edges |-> edges.items, lamport |-> fields[3][1]]>>
  BY <1>11 DEF DecodeSnapshot
<1>13. DecodeSnapshot(fields) =
         IF Len(fields) < 3 \/ ~ Reader(done, f.edges).ok THEN <<>>
         ELSE <<[nodes |-> Reader(mid, f.nodes).items, edges |-> Reader(done, f.edges).items,
                 lamport |-> f.lamport]>>
  BY <1>6, <1>8, <1>9, <1>10, <1>12
<1>14. /\ Reader(done, f.edges).ok /\ Reader(done, f.edges).items = f.edges
       /\ Reader(mid, f.nodes).items = f.nodes
  BY DEF Reader
<1>15. ~ (Len(fields) < 3)
  BY <1>3
<1>16. DecodeSnapshot(fields) = <<[nodes |-> f.nodes, edges |-> f.edges, lamport |-> f.lamport]>>
  BY <1>13, <1>14, <1>15
<1>17. QED
  BY <1>1, <1>3, <1>16, FabricParts

-----------------------------------------------------------------------------
(***************************************************************************)
(* A sound fabric is what the runs check of it.                            *)
(***************************************************************************)
LEMMA Counted ==
  ASSUME NEW len \in Nat, NEW g, DOMAIN g = 1..len, \A m, n \in 1..len : m < n => g[m] # g[n]
  PROVE  Cardinality({g[n] : n \in 1..len}) = len
<1>1. PICK S : S = {g[n] : n \in 1..len}
  OBVIOUS
<1>2. PICK h : h = [n \in 1..len |-> g[n]]
  OBVIOUS
<1>3. \A m, n \in 1..len : h[m] = h[n] => m = n
  <2>1. \A m, n \in 1..len : m < n \/ n < m \/ m = n
    OBVIOUS
  <2>2. QED
    BY <1>2, <2>1
<1>4. h \in [1..len -> S] /\ \A x \in S : \E n \in 1..len : h[n] = x
  BY <1>1, <1>2
<1>5. h \in Bijection(1..len, S)
  BY <1>3, <1>4 DEF Bijection, Injection, Surjection, IsInjective
<1>6. ExistsBijection(1..len, S)
  BY <1>5 DEF ExistsBijection
<1>7. QED
  BY <1>1, <1>6, FS_CountingElements

LEMMA SoundIsSound ==
  ASSUME NEW f, Sound(f)
  PROVE  IsSound(f)
<1>1. f \in Fabrics
  BY DEF Sound
<1>2. PICK nodes, len : nodes = f.nodes /\ len = Len(nodes)
  OBVIOUS
<1>3. nodes \in Seq(Nodes) /\ len \in Nat /\ DOMAIN nodes = 1..len
  BY <1>1, <1>2, FabricParts
<1>4. \A m, n \in 1..len : m < n => nodes[m].id # nodes[n].id /\ nodes[m].created < nodes[n].created
  BY <1>2, <1>3 DEF Sound
<1>5. Cardinality(Ids(f)) = len
  <2>1. PICK g : g = [n \in 1..len |-> nodes[n].id]
    OBVIOUS
  <2>2. DOMAIN g = 1..len /\ \A m, n \in 1..len : m < n => g[m] # g[n]
    BY <1>4, <2>1
  <2>3. Ids(f) = {g[n] : n \in 1..len}
    BY <1>2, <1>3, <2>1 DEF Ids
  <2>4. Cardinality({g[n] : n \in 1..len}) = len
    BY <1>3, <2>2, Counted
  <2>5. QED
    BY <2>3, <2>4
<1>6. Cardinality({f.nodes[n].created : n \in DOMAIN f.nodes}) = len
  <2>1. PICK g : g = [n \in 1..len |-> nodes[n].created]
    OBVIOUS
  <2>2. DOMAIN g = 1..len /\ \A m, n \in 1..len : m < n => g[m] # g[n]
    <3>1. ASSUME NEW m \in 1..len, NEW n \in 1..len, m < n
          PROVE  nodes[m].created # nodes[n].created
      <4>1. nodes[m].created \in Nat /\ nodes[n].created \in Nat
        BY <1>3 DEF Nodes
      <4>2. nodes[m].created < nodes[n].created
        BY <1>4, <3>1
      <4>3. QED
        BY <4>1, <4>2
    <3>2. QED
      BY <2>1, <3>1
  <2>3. {f.nodes[n].created : n \in DOMAIN f.nodes} = {g[n] : n \in 1..len}
    BY <1>2, <1>3, <2>1
  <2>4. Cardinality({g[n] : n \in 1..len}) = len
    BY <1>3, <2>2, Counted
  <2>5. QED
    BY <2>3, <2>4
<1>7. \A n \in DOMAIN f.nodes : f.nodes[n].created <= f.lamport /\ f.nodes[n].id = Id(f.nodes[n].kind)
  <2>1. \A n \in DOMAIN f.nodes : f.nodes[n].id = f.nodes[n].kind
    BY <1>2, <1>3 DEF Nodes
  <2>2. QED
    BY <2>1 DEF Sound, Id
<1>8. \A n \in DOMAIN f.edges : {f.edges[n].source, f.edges[n].target} \subseteq Ids(f)
  BY DEF Sound
<1>9. QED
  BY <1>2, <1>5, <1>6, <1>7, <1>8 DEF IsSound

-----------------------------------------------------------------------------
(***************************************************************************)
(* Blocks, and what lies on a medium.                                      *)
(***************************************************************************)
LEMMA GetStored ==
  ASSUME NEW blocks, NEW b, NEW x, NEW c
  PROVE  /\ Get(Store(blocks, b, x), c) = IF c = b THEN x ELSE Get(blocks, c)
         /\ DOMAIN Store(blocks, b, x) = DOMAIN blocks \cup {b}
         /\ Store(blocks, b, x)[b] = x
         /\ c \in DOMAIN blocks /\ c # b => Store(blocks, b, x)[c] = blocks[c]
BY DEF Get, Store

LEMMA GetOver ==
  ASSUME NEW blocks, NEW medium, NEW b
  PROVE  Get(Over(blocks, medium), b) = IF b \in DOMAIN blocks THEN blocks[b] ELSE Get(medium, b)
BY DEF Get, Over

LEMMA Places ==
  ASSUME NEW n \in Nat \ {0}, NEW len \in Nat, n <= len
  PROVE  /\ BlockOf(n) \in 1..((len + BlockFields - 1) \div BlockFields)
         /\ Offset(n) \in 1..BlockFields
         /\ (BlockOf(n) - 1) * BlockFields + Offset(n) = n
<1> DEFINE B == BlockFields
           q == (n - 1) \div B
           r == (n - 1) % B
           t == (len + B - 1) \div B
<1>1. B \in Nat \ {0}
  BY SnapshotAssumption
<1>2. q \in Nat /\ r \in 0..(B - 1) /\ n - 1 = B * q + r
  BY <1>1
<1>3. t \in Nat /\ len + B - 1 < B * (t + 1)
  BY <1>1
<1> QED
  BY <1>1, <1>2, <1>3 DEF BlockOf, Offset

\* A body that is on the medium behind its superblock is found there.
LEMMA FoundBehindItsName ==
  ASSUME NEW f, EncodeSnapshot(f) \in Seq(Seq(Nat)), NEW medium,
         Get(medium, 0) = Superblock(f),
         \A b \in DOMAIN Blocks(f) : Get(medium, b) = Blocks(f)[b]
  PROVE  Found(medium) = DecodeSnapshot(EncodeSnapshot(f))
<1> DEFINE e == EncodeSnapshot(f)
           len == Len(e)
           sb == Get(medium, 0)
           fields == [n \in 1..len |-> Get(medium, BlockOf(n))[Offset(n)]]
<1>1. len \in Nat /\ DOMAIN e = 1..len /\ e = [n \in 1..len |-> e[n]]
  OBVIOUS
<1>2. sb[1] = Magic /\ sb[2] = Version /\ sb[6][1] = len /\ sb[7] = e
  BY DEF Superblock
<1> HIDE DEF e
<1>3. Blocks(f) = [b \in 1..((len + BlockFields - 1) \div BlockFields) |->
                    [n \in 1..BlockFields |->
                      LET m == (b - 1) * BlockFields + n IN IF m \in DOMAIN e THEN e[m] ELSE <<0>>]]
  BY DEF Blocks, e
<1> HIDE DEF len, sb
<1>4. ASSUME NEW n \in 1..len
      PROVE  Get(medium, BlockOf(n))[Offset(n)] = e[n]
  <2>0. n \in Nat \ {0} /\ n <= len /\ len \in Nat
    BY <1>1, <1>4
  <2>1. /\ BlockOf(n) \in 1..((len + BlockFields - 1) \div BlockFields)
        /\ Offset(n) \in 1..BlockFields
        /\ (BlockOf(n) - 1) * BlockFields + Offset(n) = n
    BY <2>0, Places
  <2>2. Get(medium, BlockOf(n)) = Blocks(f)[BlockOf(n)]
    BY <1>3, <2>1
  <2>3. QED
    BY <1>1, <1>3, <2>1, <2>2
<1>5. fields = e
  BY <1>1, <1>4
<1>6. Found(medium) =
        IF sb[1] # Magic \/ sb[2] # Version \/ ~ Checked(sb[7], [n \in 1..sb[6][1] |-> Get(medium, BlockOf(n))[Offset(n)]])
        THEN <<>> ELSE DecodeSnapshot([n \in 1..sb[6][1] |-> Get(medium, BlockOf(n))[Offset(n)]])
  BY DEF Found, sb
<1>7. Found(medium) = DecodeSnapshot(e)
  BY <1>2, <1>5, <1>6 DEF Checked
<1>8. QED
  BY <1>7 DEF e

\* What is found is what the superblock is the checksum of.
LEMMA FoundIsNamed ==
  ASSUME NEW medium, Found(medium) # <<>>
  PROVE  /\ 0 \in DOMAIN medium
         /\ Found(medium) = DecodeSnapshot(medium[0][7])
<1> DEFINE sb == Get(medium, 0)
           fields == [n \in 1..sb[6][1] |-> Get(medium, BlockOf(n))[Offset(n)]]
<1>1. Found(medium) = IF sb[1] # Magic \/ sb[2] # Version \/ ~ Checked(sb[7], fields)
                      THEN <<>> ELSE DecodeSnapshot(fields)
  BY DEF Found
<1> HIDE DEF fields
<1>2. sb[1] = Magic /\ Found(medium) = DecodeSnapshot(sb[7])
  BY <1>1 DEF Checked
<1>3. Zero[1] # Magic
  BY SnapshotAssumption DEF Zero, Magic
<1>4. 0 \in DOMAIN medium
  BY <1>2, <1>3 DEF Get
<1>5. QED
  BY <1>2, <1>4 DEF Get

-----------------------------------------------------------------------------
(***************************************************************************)
(* Sequences of fabrics, whose values are not known.                       *)
(***************************************************************************)
Elements(s) == {s[n] : n \in DOMAIN s}
IsSequence(s) == s \in Seq(Elements(s))

LEMMA Appended ==
  ASSUME NEW s, IsSequence(s), NEW x
  PROVE  LET t == Append(s, x) IN
         /\ IsSequence(t) /\ Len(s) \in Nat /\ Len(t) = Len(s) + 1
         /\ t[Len(t)] = x /\ \A n \in 1..Len(s) : t[n] = s[n]
<1> DEFINE S == Elements(s) \cup {x}
           t == Append(s, x)
<1>1. s \in Seq(S) /\ x \in S
  BY DEF IsSequence
<1> HIDE DEF S
<1>2. /\ t \in Seq(S) /\ Len(s) \in Nat /\ Len(t) = Len(s) + 1 /\ DOMAIN t = 1..(Len(s) + 1)
      /\ t[Len(s) + 1] = x /\ \A n \in 1..Len(s) : t[n] = s[n]
  BY <1>1
<1>3. IsSequence(t)
  BY <1>2 DEF IsSequence, Elements
<1>4. QED
  BY <1>2, <1>3

-----------------------------------------------------------------------------
(***************************************************************************)
(* The disk a boot picks is one of those listed: what is largest exists.   *)
(***************************************************************************)
LEMMA NatsHaveGreatest ==
  ASSUME NEW len \in Nat, NEW S \in SUBSET 1..len, S # {}
  PROVE  \E n \in S : \A m \in S : m <= n
<1> DEFINE T == {b \in Nat : \A m \in S : m <= b}
<1>1. T \in SUBSET Nat /\ len \in T
  OBVIOUS
<1>2. PICK b \in T : \A c \in T : b <= c
  BY <1>1, NatsHaveLeast
<1>3. CASE b \in S
  BY <1>3
<1>4. CASE b \notin S
  <2>1. \A m \in S : m <= b /\ m # b /\ m \in Nat \ {0}
    BY <1>4
  <2>2. b \in Nat /\ b # 0
    <3>1. PICK m \in S : TRUE
      OBVIOUS
    <3>2. b \in Nat /\ m <= b /\ m \in Nat \ {0}
      BY <2>1
    <3>3. QED
      BY <3>2
  <2>3. b - 1 \in Nat /\ \A m \in S : m <= b - 1
    BY <2>1, <2>2
  <2>4. b - 1 \in T /\ ~ (b <= b - 1)
    BY <2>2, <2>3
  <2>5. QED
    BY <1>2, <2>4
<1>5. QED
  BY <1>3, <1>4

LEMMA BoundedTotals ==
  ASSUME NEW len \in Nat, NEW total, \A n \in 1..len : total[n] \in Nat
  PROVE  \E b \in Nat : \A n \in 1..len : total[n] <= b
<1> DEFINE P == {k \in Nat : k <= len => \E b \in Nat : \A n \in 1..k : total[n] <= b}
<1>1. 0 \in P
  OBVIOUS
<1>2. \A k \in P : k + 1 \in P
  <2>1. SUFFICES ASSUME NEW k \in Nat, k \in P, k + 1 <= len
                 PROVE  \E b \in Nat : \A n \in 1..(k + 1) : total[n] <= b
    <3>1. ASSUME NEW k \in P
          PROVE  k \in Nat /\ (k + 1 \in P <=>
                   (k + 1 <= len => \E b \in Nat : \A n \in 1..(k + 1) : total[n] <= b))
      OBVIOUS
    <3> HIDE DEF P
    <3>2. QED
      BY <3>1
  <2>2. PICK b \in Nat : \A n \in 1..k : total[n] <= b
    BY <2>1
  <2>3. total[k + 1] \in Nat
    BY <2>1
  <2>4. PICK c \in Nat : c >= b /\ c >= total[k + 1]
    BY <2>2, <2>3
  <2>5. \A n \in 1..(k + 1) : total[n] <= c
    <3>1. SUFFICES ASSUME NEW n \in 1..(k + 1)
                   PROVE  total[n] <= c
      OBVIOUS
    <3>2. CASE n = k + 1
      BY <2>4, <3>2
    <3>3. CASE n # k + 1
      <4>1. n \in 1..k /\ n \in 1..len
        BY <2>1, <3>3
      <4>2. total[n] \in Nat /\ total[n] <= b
        BY <2>2, <4>1
      <4>3. QED
        BY <2>4, <4>2
    <3>4. QED
      BY <3>2, <3>3
  <2>6. QED
    BY <2>5
<1> HIDE DEF P
<1>3. P = Nat
  <2>1. P \in SUBSET Nat
    BY DEF P
  <2>2. QED
    BY <1>1, <1>2, <2>1, NatSetInduction
<1>4. QED
  BY <1>3 DEF P

LEMMA PickedIsListed ==
  ASSUME NEW inv \in Inventories
  PROVE  Picked(inv) = NoDevice \/ \E n \in DOMAIN inv : Picked(inv) = inv[n]
<1> DEFINE E == Eligible(inv)
           Best(n) == \A m \in E \ {n} : \/ Total(inv[m]) < Total(inv[n])
                                         \/ Total(inv[m]) = Total(inv[n]) /\ n < m
           len == Len(inv)
           total == [n \in 1..len |-> Total(inv[n])]
<1>1. len \in Nat /\ DOMAIN inv = 1..len /\ E \in SUBSET 1..len
  BY SnapshotAssumption DEF Eligible
<1>2. \A n \in 1..len : total[n] \in Nat /\ total[n] = Total(inv[n])
  <2>1. \A n \in 1..len : inv[n].blocks \in Nat /\ inv[n].size \in Nat
    BY <1>1, SnapshotAssumption
  <2>2. QED
    BY <2>1 DEF Total
<1>3. Picked(inv) = IF E = {} THEN NoDevice ELSE inv[CHOOSE n \in E : Best(n)]
  BY DEF Picked
<1> HIDE DEF E, total, len
<1>4. ASSUME E # {}
      PROVE  \E n \in E : Best(n)
  <2> DEFINE T == {t \in Nat : \E n \in E : total[n] = t}
             U == {b \in Nat : \A n \in E : total[n] <= b}
  <2>1. U # {}
    BY <1>1, <1>2, BoundedTotals
  <2>2. PICK b \in U : \A c \in U : b <= c
    BY <2>1, NatsHaveLeast
  <2>3. \E n \in E : total[n] = b
    <3>1. SUFFICES ASSUME \A n \in E : total[n] # b
                   PROVE  FALSE
      OBVIOUS
    <3>2. \A n \in E : total[n] \in Nat /\ total[n] < b
      BY <1>1, <1>2, <3>1
    <3>3. PICK n \in E : TRUE
      BY <1>4
    <3>4. b \in Nat /\ b # 0
      BY <3>2, <3>3
    <3>5. b - 1 \in U /\ ~ (b <= b - 1)
      BY <3>2, <3>4
    <3>6. QED
      BY <2>2, <3>5
  <2>4. PICK n \in {m \in E : total[m] = b} : \A m \in {k \in E : total[k] = b} : n <= m
    <3>1. {m \in E : total[m] = b} \in SUBSET Nat
      <4>1. \A m \in E : m \in Nat
        BY <1>1
      <4>2. QED
        BY <4>1
    <3>2. {m \in E : total[m] = b} # {}
      BY <2>3
    <3>3. QED
      BY <3>1, <3>2, NatsHaveLeast
  <2>5. ASSUME NEW m \in E \ {n}
        PROVE  \/ Total(inv[m]) < Total(inv[n])
               \/ Total(inv[m]) = Total(inv[n]) /\ n < m
    <3>1. m \in Nat /\ n \in Nat /\ b \in Nat /\ total[m] \in Nat /\ total[m] <= b
      BY <1>1, <1>2, <2>2
    <3>2. total[m] = b => n < m
      BY <2>4, <3>1
    <3>3. total[m] = Total(inv[m]) /\ total[n] = Total(inv[n]) /\ total[n] = b
      BY <1>1, <1>2, <2>4
    <3>4. QED
      BY <3>1, <3>2, <3>3
  <2>6. QED
    BY <2>4, <2>5
<1>5. QED
  BY <1>1, <1>3, <1>4

PickedNames == {Picked(inv).name : inv \in {i \in Inventories : Picked(i) # NoDevice}}

LEMMA PickedAreNames == PickedNames \subseteq Names
<1>1. ASSUME NEW inv \in Inventories, Picked(inv) # NoDevice
      PROVE  Picked(inv).name \in Names
  <2>1. PICK n \in DOMAIN inv : Picked(inv) = inv[n]
    BY <1>1, PickedIsListed
  <2>2. inv[n].name \in {inv[m].name : m \in DOMAIN inv}
    OBVIOUS
  <2>3. QED
    BY <2>1, <2>2 DEF Names
<1>2. QED
  BY <1>1 DEF PickedNames

-----------------------------------------------------------------------------
(***************************************************************************)
(* The frame: types, which steps have a device, a fabric and an image, and *)
(* that what persist writes is the encoding of the image.                  *)
(***************************************************************************)
Persisting == {"body", "flush", "flushBody", "super", "flushSuper", "readback"}
Idle == {"off", "boot"}

Typed ==
  /\ pc \in Steps /\ IsSequence(past) /\ clean \in BOOLEAN /\ DOMAIN disk = Names
  /\ fabric \in 0..Len(past) /\ image \in 0..Len(past) /\ acked \in 0..Len(past)
  /\ lba \in Nat \ {0}

Phased ==
  /\ storage # NoDevice =>
       storage.name \in PickedNames /\ {storage.label, storage.blocks, storage.size} \subseteq Nat
  /\ storage = NoDevice => pc \in {"off", "boot", "run"} /\ image = 0
  /\ storage = NoDevice \/ pc \in Idle => DOMAIN cache = {}
  /\ pc \in Idle => fabric = 0 /\ image = 0
  /\ pc \notin Idle => fabric # 0
  /\ pc \in Persisting => image # 0
  /\ image # 0 => body = Blocks(past[image])

Framed == Typed /\ Phased

\* What a step does to the history, when it has a fabric afterwards.
Grows ==
  /\ IsSequence(past') /\ Len(past) \in Nat /\ Len(past') \in {Len(past), Len(past) + 1}
  /\ \A v \in 1..Len(past) : past'[v] = past[v]

LEMMA BecomesGrows ==
  ASSUME Typed, NEW f, Becomes(f)
  PROVE  /\ Grows /\ fabric' \in 1..Len(past') /\ past'[fabric'] = f
         /\ fabric' = fabric \/ fabric' > Len(past)
<1>1. IsSequence(past) /\ Len(past) \in Nat /\ fabric \in 0..Len(past)
  BY DEF Typed, IsSequence
<1>2. CASE fabric # 0 /\ past[fabric] = f
  BY <1>1, <1>2 DEF Becomes, Grows
<1>3. CASE ~ (fabric # 0 /\ past[fabric] = f)
  <2>1. past' = Append(past, f) /\ fabric' = Len(past')
    BY <1>3 DEF Becomes
  <2>2. PICK t : t = Append(past, f)
    OBVIOUS
  <2>3. /\ IsSequence(t) /\ Len(t) = Len(past) + 1 /\ t[Len(t)] = f
        /\ \A n \in 1..Len(past) : t[n] = past[n]
    BY <1>1, <2>2, Appended
  <2>4. past' = t /\ fabric' = Len(t) /\ Len(t) \in Nat
    BY <1>1, <2>1, <2>2, <2>3
  <2>5. QED
    BY <1>1, <2>3, <2>4 DEF Grows
<1>4. QED
  BY <1>2, <1>3

LEMMA LoadsGrows ==
  ASSUME Typed, NEW f, Loads(f)
  PROVE  /\ Grows /\ fabric' \in 1..Len(past')
         /\ \A v \in 1..Len(past) : past[v] = f => v <= fabric'
<1> DEFINE same == {v \in DOMAIN past : past[v] = f}
<1>1. IsSequence(past) /\ Len(past) \in Nat /\ DOMAIN past = 1..Len(past)
  BY DEF Typed, IsSequence
<1>2. /\ same = {} => past' = Append(past, f) /\ fabric' = Len(past) + 1
      /\ same # {} => past' = past /\ fabric' = CHOOSE v \in same : \A w \in same : w <= v
  BY DEF Loads
<1> HIDE DEF same
<1>3. CASE same = {}
  <2>1. PICK t : t = Append(past, f)
    OBVIOUS
  <2>2. /\ IsSequence(t) /\ Len(t) = Len(past) + 1
        /\ \A n \in 1..Len(past) : t[n] = past[n]
    BY <1>1, <2>1, Appended
  <2>3. past' = t /\ fabric' = Len(past) + 1
    BY <1>2, <1>3, <2>1
  <2>4. Len(past') = Len(past) + 1
    BY <2>2, <2>3
  <2>5. Grows
    BY <1>1, <2>2, <2>3, <2>4 DEF Grows
  <2>6. fabric' \in 1..Len(past') /\ \A v \in 1..Len(past) : v <= fabric'
    BY <1>1, <2>3, <2>4
  <2>7. QED
    BY <2>5, <2>6
<1>4. CASE same # {}
  <2>1. same \in SUBSET 1..Len(past)
    BY <1>1 DEF same
  <2>2. \E v \in same : \A w \in same : w <= v
    BY <1>1, <1>4, <2>1, NatsHaveGreatest
  <2>3. fabric' \in same /\ past' = past /\ \A w \in same : w <= fabric'
    BY <1>2, <1>4, <2>2
  <2>4. QED
    BY <1>1, <2>1, <2>3 DEF Grows, same
<1>5. QED
  BY <1>3, <1>4

LEMMA FramedStarts ==
  ASSUME Init
  PROVE  Framed
<1>1. /\ storage = NoDevice /\ disk = [name \in Names |-> <<>>] /\ cache = <<>> /\ pc = "off"
      /\ past = <<>> /\ fabric = 0 /\ image = 0 /\ lba = 1 /\ clean = TRUE /\ acked = 0
  BY DEF Init
<1>2. IsSequence(past) /\ Len(past) = 0
  BY <1>1 DEF IsSequence, Elements
<1>3. Typed
  BY <1>1, <1>2 DEF Typed, Steps
<1>4. DOMAIN cache = {}
  BY <1>1
<1>5. Phased
  BY <1>1, <1>4 DEF Phased, Idle, Persisting
<1>6. QED
  BY <1>3, <1>5 DEF Framed

\* A step that begins to persist the fabric it leaves in memory.
Begins ==
  /\ Grows /\ fabric' \in 1..Len(past')
  /\ storage # NoDevice /\ UNCHANGED <<device, acked>>
  /\ image' = fabric' /\ body' = Blocks(past'[image']) /\ clean' = TRUE /\ lba' = 1
  /\ pc' = "body"

LEMMA BeginsAre ==
  ASSUME Framed
  PROVE  /\ Restore => Begins
         /\ FreshGenesis /\ storage # NoDevice => Begins
         /\ \A blob : Persist(blob) => Begins
<1>1. Typed
  BY DEF Framed
<1>2. ASSUME Restore
      PROVE  Begins
  <2>1. PICK f : Loads(f)
    BY <1>2 DEF Restore
  <2>2. Grows /\ fabric' \in 1..Len(past')
    BY <1>1, <2>1, LoadsGrows
  <2>3. QED
    BY <1>2, <2>2 DEF Restore, StartPersist, Goto, Begins
<1>3. ASSUME FreshGenesis, storage # NoDevice
      PROVE  Begins
  <2>1. PICK f : Becomes(f)
    BY <1>3 DEF FreshGenesis
  <2>2. Grows /\ fabric' \in 1..Len(past')
    BY <1>1, <2>1, BecomesGrows
  <2>3. QED
    BY <1>3, <2>2 DEF FreshGenesis, StartPersist, Goto, Begins
<1>4. ASSUME NEW blob, Persist(blob)
      PROVE  Begins
  <2>1. PICK f : Becomes(f)
    BY <1>4 DEF Persist
  <2>2. Grows /\ fabric' \in 1..Len(past')
    BY <1>1, <2>1, BecomesGrows
  <2>3. QED
    BY <1>4, <2>2 DEF Persist, StartPersist, Goto, Begins
<1>5. QED
  BY <1>2, <1>3, <1>4

LEMMA BeginsFramed ==
  ASSUME Framed, Begins
  PROVE  Framed'
<1>1. Typed'
  <2>1. acked' \in 0..Len(past')
    BY DEF Framed, Typed, Begins, Grows
  <2>2. QED
    BY <2>1 DEF Framed, Typed, Begins, Grows, Steps, device
<1>2. Phased'
  BY DEF Framed, Typed, Phased, Begins, Idle, Persisting, device
<1>3. QED
  BY <1>1, <1>2 DEF Framed

\* A step of the main loop that only changes the fabric, and what is cached.
Loops ==
  /\ Grows /\ fabric' \in 1..Len(past')
  /\ pc \in {"boot", "run"} /\ pc' = "run"
  /\ pc = "boot" => storage = NoDevice
  /\ storage = NoDevice => UNCHANGED cache
  /\ clean' \in BOOLEAN
  /\ UNCHANGED <<storage, disk, writing, acked>>

LEMMA LoopsAre ==
  ASSUME Framed
  PROVE  /\ FreshGenesis /\ storage = NoDevice => Loops
         /\ \A line : Submit(line) \/ Report(line) => Loops
         /\ \A b, text : AgentWrite(b, text) => Loops
<1>1. Typed /\ clean \in BOOLEAN
  BY DEF Framed, Typed
<1>2. ASSUME FreshGenesis, storage = NoDevice
      PROVE  Loops
  <2>1. PICK f : Becomes(f)
    BY <1>2 DEF FreshGenesis
  <2>2. Grows /\ fabric' \in 1..Len(past')
    BY <1>1, <2>1, BecomesGrows
  <2>3. QED
    BY <1>1, <1>2, <2>2 DEF FreshGenesis, Goto, Loops, device, writing
<1>3. ASSUME NEW line, Submit(line) \/ Report(line)
      PROVE  Loops
  <2>1. PICK f : Becomes(f)
    BY <1>3 DEF Submit, Report
  <2>2. Grows /\ fabric' \in 1..Len(past')
    BY <1>1, <2>1, BecomesGrows
  <2>3. QED
    BY <1>1, <1>3, <2>2 DEF Submit, Report, Loops, device
<1>4. ASSUME NEW b, NEW text, AgentWrite(b, text)
      PROVE  Loops
  <2>1. Grows /\ fabric' \in 1..Len(past')
    <3>1. CASE Len(past) < MaxVersions
      <4>1. PICK f : Becomes(f)
        BY <1>4, <3>1 DEF AgentWrite
      <4>2. QED
        BY <1>1, <4>1, BecomesGrows
    <3>2. CASE ~ (Len(past) < MaxVersions)
      <4>1. past' = past /\ fabric' = fabric /\ pc = "run"
        BY <1>4, <3>2 DEF AgentWrite
      <4>2. IsSequence(past) /\ Len(past) \in Nat /\ fabric \in 1..Len(past)
        BY <1>1, <4>1 DEF Framed, Typed, Phased, IsSequence, Idle
      <4>3. QED
        BY <4>1, <4>2 DEF Grows
    <3>3. QED
      BY <3>1, <3>2
  <2>2. clean' \in BOOLEAN
    BY <1>1, <1>4 DEF AgentWrite
  <2>3. QED
    BY <1>4, <2>1, <2>2 DEF AgentWrite, Loops
<1>5. QED
  BY <1>2, <1>3, <1>4

LEMMA LoopsFramed ==
  ASSUME Framed, Loops
  PROVE  Framed'
<1>1. /\ image' \in 0..Len(past') /\ acked' \in 0..Len(past')
      /\ image' # 0 => body' = Blocks(past'[image'])
  BY DEF Framed, Typed, Phased, Loops, Grows, writing
<1>2. Typed'
  BY <1>1 DEF Framed, Typed, Loops, Grows, Steps, writing
<1>3. Phased'
  BY <1>1 DEF Framed, Typed, Phased, Loops, Idle, Persisting, writing
<1>4. QED
  BY <1>2, <1>3 DEF Framed

\* A step of persist.
Advances ==
  /\ pc \in Persisting /\ pc' \in Persisting \cup {"run"}
  /\ UNCHANGED <<storage, past, fabric, image, body>>
  /\ DOMAIN disk' = DOMAIN disk /\ clean' \in BOOLEAN
  /\ lba' \in {lba, lba + 1} /\ acked' \in {acked, image}

PersistStep == WriteBody \/ BodyWritten \/ WriteSuperblock \/ WriteFails \/ Flush \/ ReadBack

LEMMA AdvancesAre ==
  ASSUME Framed, PersistStep
  PROVE  Advances
<1>1. clean \in BOOLEAN
  BY DEF Framed, Typed
<1>2. CASE WriteBody
  BY <1>1, <1>2 DEF WriteBody, NextAfterBlock, Goto, Advances, Persisting
<1>3. CASE BodyWritten
  BY <1>1, <1>3 DEF BodyWritten, FlushFirst, Goto, Advances, Persisting, device, writing
<1>4. CASE WriteSuperblock
  BY <1>1, <1>4 DEF WriteSuperblock, FlushLast, Goto, Advances, Persisting, writing
<1>5. CASE WriteFails
  BY <1>5 DEF WriteFails, Goto, Advances, Persisting, device, writing
<1>6. CASE Flush
  <2>1. DOMAIN disk' = DOMAIN disk /\ clean' \in BOOLEAN
    BY <1>1, <1>6 DEF Flush, Flushed
  <2>2. pc \in {"flush", "flushBody", "flushSuper"} /\ pc' \in {"body", "super", "readback"}
    BY <1>6 DEF Flush, AfterFlush, Goto
  <2>3. QED
    BY <1>6, <2>1, <2>2 DEF Flush, Advances, Persisting, writing
<1>7. CASE ReadBack
  BY <1>1, <1>7 DEF ReadBack, Goto, Advances, Persisting, device, writing
<1>8. QED
  BY <1>2, <1>3, <1>4, <1>5, <1>6, <1>7 DEF PersistStep

LEMMA AdvancesFramed ==
  ASSUME Framed, Advances
  PROVE  Framed'
<1>1. Typed'
  BY DEF Framed, Typed, Advances, Persisting, Steps
<1>2. Phased'
  BY DEF Framed, Typed, Phased, Advances, Persisting, Idle
<1>3. QED
  BY <1>1, <1>2 DEF Framed

LEMMA DeviceFramed ==
  ASSUME Framed
  PROVE  /\ PowerOn => Framed'
         /\ \A b \in DOMAIN cache : WriteBack(b) => Framed'
         /\ Crash => Framed'
<1>1. ASSUME PowerOn
      PROVE  Framed'
  <2>1. PICK inv \in Inventories : storage' = Picked(inv)
    BY <1>1 DEF PowerOn
  <2>2. storage' # NoDevice =>
          /\ storage'.name \in PickedNames
          /\ {storage'.label, storage'.blocks, storage'.size} \subseteq Nat
    <3>1. SUFFICES ASSUME Picked(inv) # NoDevice
                   PROVE  /\ Picked(inv).name \in PickedNames
                          /\ {Picked(inv).label, Picked(inv).blocks, Picked(inv).size} \subseteq Nat
      BY <2>1
    <3>2. PICK n \in DOMAIN inv : Picked(inv) = inv[n]
      BY <3>1, PickedIsListed
    <3>3. {inv[n].label, inv[n].blocks, inv[n].size} \subseteq Nat
      BY SnapshotAssumption
    <3>4. QED
      BY <3>1, <3>2, <3>3 DEF PickedNames
  <2>3. Typed'
    BY <1>1 DEF PowerOn, Goto, Framed, Typed, Steps, writing
  <2>4. Phased'
    BY <1>1, <2>2 DEF PowerOn, Goto, Framed, Typed, Phased, Idle, Persisting, writing
  <2>5. QED
    BY <2>3, <2>4 DEF Framed
<1>2. ASSUME NEW b \in DOMAIN cache, WriteBack(b)
      PROVE  Framed'
  <2>1. DOMAIN disk' = DOMAIN disk /\ DOMAIN cache' \subseteq DOMAIN cache
    BY <1>2 DEF WriteBack
  <2>2. UNCHANGED <<storage, pc, past, fabric, image, body, lba, clean, acked>>
    BY <1>2 DEF WriteBack, writing
  <2>3. QED
    BY <2>1, <2>2 DEF Framed, Typed, Phased
<1>3. ASSUME Crash
      PROVE  Framed'
  <2>1. DOMAIN cache' = {}
    BY <1>3 DEF Crash
  <2>2. Typed'
    BY <1>3 DEF Crash, Framed, Typed, Steps, IsSequence
  <2>3. Phased'
    BY <1>3, <2>1 DEF Crash, Framed, Typed, Phased, Idle, Persisting
  <2>4. QED
    BY <2>2, <2>3 DEF Framed
<1>4. QED
  BY <1>1, <1>2, <1>3

\* What a step is, seen by the invariants that follow.
StepCases ==
  \/ Begins
  \/ \E b, text : AgentWrite(b, text) /\ b \in Probes
  \/ Loops /\ UNCHANGED <<cache, acked>> /\ (clean' = clean \/ image = 0)
  \/ PersistStep
  \/ PowerOn
  \/ \E b \in DOMAIN cache : WriteBack(b)
  \/ Crash
  \/ UNCHANGED vars

LEMMA StepsAre ==
  ASSUME Framed, [Next]_vars
  PROVE  StepCases
<1>1. CASE Restore \/ (FreshGenesis /\ storage # NoDevice) \/ \E blob \in Blobs : Persist(blob)
  BY <1>1, BeginsAre DEF StepCases
<1>2. CASE FreshGenesis /\ storage = NoDevice
  <2>1. Loops
    BY <1>2, LoopsAre
  <2>2. image = 0 /\ UNCHANGED <<cache, acked>>
    BY <1>2 DEF Framed, Phased, FreshGenesis, device
  <2>3. QED
    BY <2>1, <2>2 DEF StepCases
<1>3. CASE \E line \in Lines : Submit(line) \/ Report(line)
  <2>1. Loops
    BY <1>3, LoopsAre
  <2>2. UNCHANGED <<cache, acked, clean>>
    BY <1>3 DEF Submit, Report, device
  <2>3. QED
    BY <2>1, <2>2 DEF StepCases
<1>4. CASE \E b \in Probes, text \in Lines : AgentWrite(b, text)
  BY <1>4 DEF StepCases
<1>5. CASE PowerOn \/ PersistStep \/ Crash \/ (\E b \in DOMAIN cache : WriteBack(b)) \/ UNCHANGED vars
  BY <1>5 DEF StepCases
<1>6. QED
  BY <1>1, <1>2, <1>3, <1>4, <1>5 DEF Next, Kernel, PersistStep

LEMMA FramedKept ==
  ASSUME Framed, [Next]_vars
  PROVE  Framed'
<1>1. CASE UNCHANGED vars
  BY <1>1 DEF vars, device, writing, Framed, Typed, Phased, IsSequence
<1>2. CASE ~ UNCHANGED vars
  BY <1>2, StepsAre, BeginsFramed, LoopsAre, LoopsFramed, AdvancesAre, AdvancesFramed, DeviceFramed
     DEF StepCases
<1>3. QED
  BY <1>1, <1>2

LEMMA PastGrows ==
  ASSUME Framed, [Next]_vars
  PROVE  Grows
<1>1. IsSequence(past) /\ Len(past) \in Nat
  BY DEF Framed, Typed, IsSequence
<1>2. UNCHANGED past => Grows
  BY <1>1 DEF Grows
<1>3. StepCases
  BY StepsAre
<1>4. CASE UNCHANGED vars \/ PowerOn \/ Crash \/ \E b \in DOMAIN cache : WriteBack(b)
  BY <1>2, <1>4 DEF vars, PowerOn, Crash, WriteBack
<1>5. QED
  BY <1>2, <1>3, <1>4, LoopsAre, AdvancesAre DEF StepCases, Loops, Begins, Advances

-----------------------------------------------------------------------------
(***************************************************************************)
(* Every superblock there is, in the cache or on a medium, is the one of a *)
(* version, no older than some: only persist writes one, its image's.      *)
(***************************************************************************)
NamesVersion(blocks, versions, least) ==
  0 \in DOMAIN blocks =>
    \E v \in 1..Len(versions) : v >= least /\ blocks[0] = Superblock(versions[v])

AllNamed(least) ==
  /\ NamesVersion(cache, past, least)
  /\ \A name \in Names : NamesVersion(disk[name], past, least)

LEMMA OverNames ==
  ASSUME NEW blocks, NEW medium, NEW versions, NEW least,
         NamesVersion(blocks, versions, least), NamesVersion(medium, versions, least)
  PROVE  NamesVersion(Over(blocks, medium), versions, least)
<1>1. PICK over : over = Over(blocks, medium)
  OBVIOUS
<1>2. /\ 0 \in DOMAIN over <=> 0 \in DOMAIN blocks \/ 0 \in DOMAIN medium
      /\ 0 \in DOMAIN over => over[0] = IF 0 \in DOMAIN blocks THEN blocks[0] ELSE medium[0]
  BY <1>1 DEF Over
<1>3. NamesVersion(over, versions, least)
  BY <1>2 DEF NamesVersion
<1>4. QED
  BY <1>1, <1>3

LEMMA StoredNames ==
  ASSUME NEW blocks, NEW b, NEW x, NEW versions, NEW least, NamesVersion(blocks, versions, least),
         b = 0 => \E v \in 1..Len(versions) : v >= least /\ x = Superblock(versions[v])
  PROVE  NamesVersion(Store(blocks, b, x), versions, least)
<1>1. /\ DOMAIN Store(blocks, b, x) = DOMAIN blocks \cup {b}
      /\ Store(blocks, b, x)[b] = x
      /\ 0 \in DOMAIN blocks /\ 0 # b => Store(blocks, b, x)[0] = blocks[0]
  BY DEF Store
<1>2. PICK stored : stored = Store(blocks, b, x)
  OBVIOUS
<1>3. NamesVersion(stored, versions, least)
  BY <1>1, <1>2 DEF NamesVersion
<1>4. QED
  BY <1>2, <1>3

LEMMA VersionsCarried ==
  ASSUME Framed, Grows
  PROVE  \A blocks, least : NamesVersion(blocks, past, least) => NamesVersion(blocks, past', least)
BY DEF Framed, Typed, Grows, NamesVersion

\* A block written to the cache: a superblock is that of the image, nothing else is in block 0.
LEMMA PutNames ==
  ASSUME Framed, Grows, NEW least, AllNamed(least), NEW b, NEW x, Put(b, x), UNCHANGED disk,
         b = 0 => image # 0 /\ image >= least /\ x = Superblock(past[image])
  PROVE  AllNamed(least)'
<1>1. b = 0 => \E v \in 1..Len(past) : v >= least /\ x = Superblock(past[v])
  BY DEF Framed, Typed
<1>2. PICK c, versions : c = cache /\ versions = past
  OBVIOUS
<1>3. NamesVersion(Store(c, b, x), versions, least)
  <2>1. NamesVersion(c, versions, least)
    BY <1>2 DEF AllNamed
  <2>2. b = 0 => \E v \in 1..Len(versions) : v >= least /\ x = Superblock(versions[v])
    BY <1>1, <1>2
  <2>3. QED
    BY <2>1, <2>2, StoredNames
<1>4. NamesVersion(cache', past, least)
  BY <1>2, <1>3 DEF Put
<1>5. \A name \in Names : NamesVersion(disk'[name], past, least)
  BY DEF AllNamed
<1>6. QED
  BY <1>4, <1>5, VersionsCarried DEF AllNamed

LEMMA FlushNames ==
  ASSUME Framed, Grows, storage # NoDevice, disk' = Flushed, DOMAIN cache' = {},
         NEW least, AllNamed(least)
  PROVE  AllNamed(least)'
<1>1. storage.name \in Names /\ DOMAIN disk = Names
  BY PickedAreNames DEF Framed, Typed, Phased
<1>2. \A name \in Names : disk'[name] = IF name = storage.name THEN Over(cache, disk[name]) ELSE disk[name]
  BY <1>1 DEF Flushed
<1>3. NamesVersion(Over(cache, disk[storage.name]), past, least)
  <2>1. PICK c, medium, versions : c = cache /\ medium = disk[storage.name] /\ versions = past
    OBVIOUS
  <2>2. NamesVersion(c, versions, least) /\ NamesVersion(medium, versions, least)
    BY <1>1, <2>1 DEF AllNamed
  <2>3. NamesVersion(Over(c, medium), versions, least)
    BY <2>2, OverNames
  <2>4. QED
    BY <2>1, <2>3
<1>4. NamesVersion(cache', past', least)
  BY DEF NamesVersion
<1>5. \A name \in Names : NamesVersion(disk'[name], past, least)
  BY <1>2, <1>3 DEF AllNamed
<1>6. QED
  BY <1>4, <1>5, VersionsCarried DEF AllNamed

LEMMA WriteBackNames ==
  ASSUME Framed, Grows, NEW b \in DOMAIN cache, WriteBack(b), NEW least, AllNamed(least)
  PROVE  AllNamed(least)'
<1>1. storage.name \in Names /\ DOMAIN disk = Names
  BY PickedAreNames DEF Framed, Typed, Phased
<1>2. \A name \in Names :
        disk'[name] = IF name = storage.name THEN Store(disk[name], b, cache[b]) ELSE disk[name]
  BY <1>1 DEF WriteBack
<1>3. NamesVersion(Store(disk[storage.name], b, cache[b]), past, least)
  <2>1. PICK medium, x, versions : medium = disk[storage.name] /\ x = cache[b] /\ versions = past
    OBVIOUS
  <2>2. NamesVersion(medium, versions, least)
    BY <1>1, <2>1 DEF AllNamed
  <2>3. b = 0 => \E v \in 1..Len(versions) : v >= least /\ x = Superblock(versions[v])
    BY <2>1 DEF AllNamed, NamesVersion
  <2>4. NamesVersion(Store(medium, b, x), versions, least)
    BY <2>2, <2>3, StoredNames
  <2>5. QED
    BY <2>1, <2>4
<1>4. DOMAIN cache' = DOMAIN cache \ {b} /\ \A c \in DOMAIN cache \ {b} : cache'[c] = cache[c]
  BY DEF WriteBack
<1>5. NamesVersion(cache', past, least)
  BY <1>4 DEF AllNamed, NamesVersion
<1>6. \A name \in Names : NamesVersion(disk'[name], past, least)
  BY <1>2, <1>3 DEF AllNamed
<1>7. QED
  BY <1>5, <1>6, VersionsCarried DEF AllNamed

LEMMA NamesKept ==
  ASSUME Framed, Grows, StepCases, NEW least, AllNamed(least), image # 0 => image >= least
  PROVE  AllNamed(least)'
<1>1. ASSUME UNCHANGED disk, UNCHANGED cache \/ DOMAIN cache' = {}
      PROVE  AllNamed(least)'
  <2>1. NamesVersion(cache', past, least)
    BY <1>1 DEF AllNamed, NamesVersion
  <2>2. \A name \in Names : NamesVersion(disk'[name], past, least)
    BY <1>1 DEF AllNamed
  <2>3. QED
    BY <2>1, <2>2, VersionsCarried DEF AllNamed
<1>2. CASE Begins \/ (Loops /\ UNCHANGED cache) \/ PowerOn \/ Crash \/ UNCHANGED vars
  <2>1. UNCHANGED disk /\ (UNCHANGED cache \/ DOMAIN cache' = {})
    BY <1>2 DEF Begins, Loops, PowerOn, Crash, vars, device
  <2>2. QED
    BY <1>1, <2>1
<1>3. ASSUME NEW b \in Probes, NEW text, AgentWrite(b, text)
      PROVE  AllNamed(least)'
  <2>1. PICK x : Put(b, x)
    BY <1>3 DEF AgentWrite
  <2>2. b # 0 /\ UNCHANGED disk
    BY <1>3, SnapshotAssumption DEF AgentWrite
  <2>3. QED
    BY <2>1, <2>2, PutNames
<1>4. CASE WriteBody
  <2>1. PICK b, x : b = lba /\ x = body[lba]
    OBVIOUS
  <2>2. Put(b, x) /\ UNCHANGED disk /\ b # 0
    BY <1>4, <2>1 DEF WriteBody, Framed, Typed
  <2>3. QED
    BY <2>2, PutNames
<1>5. CASE WriteSuperblock
  <2>1. PICK x : x = Superblock(past[image])
    OBVIOUS
  <2>2. Put(0, x) /\ UNCHANGED disk /\ image # 0
    BY <1>5, <2>1 DEF WriteSuperblock, Framed, Phased, Persisting
  <2>3. QED
    BY <2>1, <2>2, PutNames
<1>6. CASE BodyWritten \/ WriteFails \/ ReadBack
  <2>1. UNCHANGED <<disk, cache>>
    BY <1>6 DEF BodyWritten, WriteFails, ReadBack, device
  <2>2. QED
    BY <1>1, <2>1
<1>7. CASE Flush
  <2>1. CASE UNCHANGED <<disk, cache>>
    BY <1>1, <2>1
  <2>2. CASE disk' = Flushed /\ cache' = <<>>
    <3>1. DOMAIN cache' = {}
      BY <2>2
    <3>2. storage # NoDevice
      BY <1>7 DEF Flush, AfterFlush, Framed, Phased
    <3>3. QED
      BY <2>2, <3>1, <3>2, FlushNames
  <2>3. QED
    BY <1>7, <2>1, <2>2 DEF Flush
<1>8. ASSUME NEW b \in DOMAIN cache, WriteBack(b)
      PROVE  AllNamed(least)'
  BY <1>8, WriteBackNames
<1>9. QED
  BY <1>2, <1>3, <1>4, <1>5, <1>6, <1>7, <1>8 DEF StepCases, PersistStep

-----------------------------------------------------------------------------
(***************************************************************************)
(* Every fabric there ever was is sound: the machine's, what the operator, *)
(* the agent and the model added to one, and what a restart decodes, which *)
(* is a version of before.                                                 *)
(***************************************************************************)
History == \A v \in 1..Len(past) : Sound(past[v])
Remembered == Framed /\ History /\ AllNamed(0)

\* What is found behind a superblock that names a version is this version.
LEMMA FoundIsVersion ==
  ASSUME History, NEW medium, NEW least, NamesVersion(medium, past, least), Found(medium) # <<>>
  PROVE  \E v \in 1..Len(past) : v >= least /\ Found(medium) = <<past[v]>>
<1>1. 0 \in DOMAIN medium /\ Found(medium) = DecodeSnapshot(medium[0][7])
  BY FoundIsNamed
<1>2. PICK v \in 1..Len(past) : v >= least /\ medium[0] = Superblock(past[v])
  BY <1>1 DEF NamesVersion
<1>3. medium[0][7] = EncodeSnapshot(past[v])
  BY <1>2 DEF Superblock
<1>4. PICK f : f = past[v]
  OBVIOUS
<1>5. f \in Fabrics
  BY <1>4 DEF History, Sound
<1>6. DecodeSnapshot(EncodeSnapshot(f)) = <<f>>
  BY <1>5, SnapshotDecoded
<1>7. QED
  BY <1>1, <1>2, <1>3, <1>4, <1>6

LEMMA RestoresVersion ==
  ASSUME Framed, History, NEW least, AllNamed(least), Restore
  PROVE  \E v \in 1..Len(past) : v >= least /\ Loads(past[v])
<1>1. PICK seen, c, medium, versions :
        seen = Seen /\ c = cache /\ medium = disk[storage.name] /\ versions = past
  OBVIOUS
<1>2. storage # NoDevice /\ storage.name \in Names
  BY PickedAreNames DEF Restore, Framed, Phased
<1>3. NamesVersion(c, versions, least) /\ NamesVersion(medium, versions, least)
  BY <1>1, <1>2 DEF AllNamed
<1>4. NamesVersion(Over(c, medium), versions, least)
  BY <1>3, OverNames
<1>5. NamesVersion(seen, past, least)
  BY <1>1, <1>4 DEF Seen
<1>6. Found(seen) # <<>> /\ Loads(Found(seen)[1])
  BY <1>1 DEF Restore
<1>7. PICK v \in 1..Len(past) : v >= least /\ Found(seen) = <<past[v]>>
  BY <1>5, <1>6, FoundIsVersion
<1>8. PICK f : f = past[v]
  OBVIOUS
<1>9. Found(seen)[1] = f
  BY <1>7, <1>8
<1>10. QED
  BY <1>6, <1>7, <1>8, <1>9

LEMMA LoadsNothingNew ==
  ASSUME Typed, NEW v \in 1..Len(past), Loads(past[v])
  PROVE  past' = past
<1>1. v \in {w \in DOMAIN past : past[w] = past[v]}
  BY DEF Typed, IsSequence
<1>2. QED
  BY <1>1 DEF Loads

LEMMA BecomesSound ==
  ASSUME Typed, History, NEW f, Sound(f), Becomes(f)
  PROVE  History'
<1>1. IsSequence(past)
  BY DEF Typed
<1>2. CASE past' = past
  BY <1>2 DEF History
<1>3. CASE past' = Append(past, f)
  <2>1. PICK t, len : t = Append(past, f) /\ len = Len(past)
    OBVIOUS
  <2>2. len \in Nat /\ Len(t) = len + 1 /\ t[Len(t)] = f /\ \A n \in 1..len : t[n] = past[n]
    BY <1>1, <2>1, Appended
  <2>3. \A n \in 1..Len(t) : n \in 1..len \/ n = Len(t)
    BY <2>2
  <2>4. \A n \in 1..Len(t) : Sound(t[n])
    BY <2>1, <2>2, <2>3 DEF History
  <2>5. QED
    BY <1>3, <2>1, <2>4 DEF History
<1>4. QED
  BY <1>2, <1>3 DEF Becomes

LEMMA HistoryKept ==
  ASSUME Remembered, [Next]_vars
  PROVE  History'
<1>1. Framed /\ Typed /\ History /\ AllNamed(0)
  BY DEF Remembered, Framed
<1>2. UNCHANGED past => History'
  BY <1>1 DEF History
<1>3. pc = "run" => Sound(past[fabric])
  <2>1. pc = "run" => fabric # 0 /\ fabric \in 0..Len(past) /\ Len(past) \in Nat
    BY <1>1 DEF Framed, Typed, Phased, Idle, IsSequence
  <2>2. pc = "run" => fabric \in 1..Len(past)
    BY <2>1
  <2>3. QED
    BY <1>1, <2>2 DEF History
<1>4. ASSUME NEW f, Sound(f), Becomes(f)
      PROVE  History'
  BY <1>1, <1>4, BecomesSound
<1>5. CASE Restore
  <2>1. PICK v \in 1..Len(past) : Loads(past[v])
    BY <1>1, <1>5, RestoresVersion
  <2>2. QED
    BY <1>1, <1>2, <2>1, LoadsNothingNew
<1>6. CASE FreshGenesis
  <2>1. PICK f : f = Genesis
    OBVIOUS
  <2>2. Sound(f)
    BY <2>1, GenesisSound
  <2>3. CASE Becomes(Genesis)
    BY <1>4, <2>1, <2>2, <2>3
  <2>4. CASE storage # NoDevice /\ Becomes(WithStorage(Genesis, storage))
    <3>1. PICK d : d = storage
      OBVIOUS
    <3>2. {d.label, d.blocks, d.size} \subseteq Nat
      BY <1>1, <2>4, <3>1 DEF Framed, Phased
    <3>3. Sound(WithStorage(f, d))
      BY <2>2, <3>2, WithStorageSound
    <3>4. PICK g : g = WithStorage(f, d)
      OBVIOUS
    <3>5. QED
      BY <1>4, <2>1, <2>4, <3>1, <3>3, <3>4
  <2>5. QED
    BY <1>6, <2>3, <2>4 DEF FreshGenesis
<1>7. ASSUME NEW line \in Lines, Submit(line) \/ Report(line)
      PROVE  History'
  <2>1. PICK f : f = past[fabric]
    OBVIOUS
  <2>2. Sound(f) /\ line \in Nat
    BY <1>3, <1>7, <2>1, SnapshotAssumption DEF Submit, Report
  <2>3. PICK g, h : g = Exchange(f, line, line) /\ h = Event(f, line)
    OBVIOUS
  <2>4. Sound(g) /\ Sound(h)
    BY <2>2, <2>3, ExchangeSound, EventSound
  <2>5. Becomes(g) \/ Becomes(h)
    BY <1>7, <2>1, <2>3 DEF Submit, Report
  <2>6. QED
    BY <1>4, <2>4, <2>5
<1>8. ASSUME NEW blob \in Blobs, Persist(blob)
      PROVE  History'
  <2>1. PICK f, g : f = past[fabric] /\ g = Learned(f, Model, blob)
    OBVIOUS
  <2>2. Sound(f) /\ blob \in Seq(Nat) /\ Model \in Nat /\ Storage \in Nat
    BY <1>3, <1>8, <2>1, SnapshotAssumption DEF Persist, Model, Storage
  <2>3. Sound(g)
    BY <2>1, <2>2, LearnedSound
  <2>4. PICK h : h = Learned(g, Storage, blob)
    OBVIOUS
  <2>5. Sound(h)
    BY <2>2, <2>3, <2>4, LearnedSound
  <2>6. Becomes(h)
    BY <1>8, <2>1, <2>4 DEF Persist
  <2>7. QED
    BY <1>4, <2>5, <2>6
<1>9. ASSUME NEW b \in Probes, NEW text \in Lines, AgentWrite(b, text)
      PROVE  History'
  <2>1. PICK f, h : f = past[fabric] /\ h = Event(f, text)
    OBVIOUS
  <2>2. Sound(f) /\ text \in Nat
    BY <1>3, <1>9, <2>1, SnapshotAssumption DEF AgentWrite
  <2>3. Sound(h)
    BY <2>1, <2>2, EventSound
  <2>4. Becomes(h) \/ UNCHANGED past
    BY <1>9, <2>1 DEF AgentWrite
  <2>5. QED
    BY <1>2, <1>4, <2>3, <2>4
<1>10. CASE PersistStep \/ PowerOn \/ Crash \/ (\E b \in DOMAIN cache : WriteBack(b)) \/ UNCHANGED vars
  <2>1. UNCHANGED past
    BY <1>1, <1>10, AdvancesAre DEF Advances, PowerOn, Crash, WriteBack, vars
  <2>2. QED
    BY <1>2, <2>1
<1>11. QED
  BY <1>5, <1>6, <1>7, <1>8, <1>9, <1>10 DEF Next, Kernel, PersistStep

LEMMA RememberedStarts ==
  ASSUME Init
  PROVE  Remembered
<1>1. Len(past) = 0 /\ DOMAIN cache = {} /\ \A name \in Names : DOMAIN disk[name] = {}
  BY DEF Init
<1>2. History /\ AllNamed(0)
  BY <1>1 DEF History, AllNamed, NamesVersion
<1>3. QED
  BY <1>2, FramedStarts DEF Remembered

LEMMA RememberedKept ==
  ASSUME Remembered, [Next]_vars
  PROVE  Remembered'
<1>1. Framed /\ AllNamed(0)
  BY DEF Remembered
<1>2. Grows /\ StepCases
  BY <1>1, PastGrows, StepsAre
<1>3. image # 0 => image >= 0
  BY <1>1 DEF Framed, Typed
<1>4. PICK least : least = 0
  OBVIOUS
<1>5. AllNamed(least)'
  BY <1>1, <1>2, <1>3, <1>4, NamesKept
<1>6. QED
  BY <1>1, <1>4, <1>5, FramedKept, HistoryKept DEF Remembered, AllNamed

LEMMA RememberedIsSound ==
  ASSUME Remembered
  PROVE  FabricsSound
<1>1. SUFFICES ASSUME past # <<>>
               PROVE  LET fields == EncodeSnapshot(past[Len(past)]) IN
                        /\ IsSound(past[Len(past)])
                        /\ fields \in Seq(Seq(Nat))
                        /\ DecodeSnapshot(fields) = <<past[Len(past)]>>
  BY DEF FabricsSound
<1>2. Len(past) \in 1..Len(past)
  <2>1. past \in Seq(Elements(past))
    BY DEF Remembered, Framed, Typed, IsSequence
  <2>2. PICK s, S : s = past /\ S = Elements(past)
    OBVIOUS
  <2>3. s \in Seq(S) /\ s # <<>>
    BY <1>1, <2>1, <2>2
  <2>4. Len(s) \in Nat /\ Len(s) # 0
    BY <2>3
  <2>5. QED
    BY <2>2, <2>4
<1>3. PICK f : f = past[Len(past)]
  OBVIOUS
<1>4. Sound(f) /\ f \in Fabrics
  BY <1>2, <1>3 DEF Remembered, History, Sound
<1>5. QED
  BY <1>3, <1>4, SoundIsSound, SnapshotDecoded

\* Fabrics are sound wherever they come from: ids and times tell the nodes apart, none
\* is newer than the clock and no edge dangles, for every machine the firmware may
\* describe, every line, model and list of devices, and whatever the device and the
\* power do; and decode_snapshot takes back what encode_snapshot makes of each.
THEOREM FabricsAlwaysSound == Spec => []FabricsSound
<1>1. Init => Remembered
  BY RememberedStarts
<1>2. Remembered /\ [Next]_vars => Remembered'
  BY RememberedKept
<1>3. Remembered => FabricsSound
  BY RememberedIsSound
<1>4. QED
  BY <1>1, <1>2, <1>3, PTL DEF Spec

-----------------------------------------------------------------------------
(***************************************************************************)
(* What the kernel reads of a block, and what the medium holds of it.      *)
(***************************************************************************)
InSight(b) == Get(Seen, b)
OnDisk(b) == Get(disk[storage.name], b)
Settled(b, x) == OnDisk(b) = x /\ InSight(b) = x

LEMMA SightIs ==
  ASSUME NEW b
  PROVE  InSight(b) = IF b \in DOMAIN cache THEN cache[b] ELSE OnDisk(b)
BY GetOver DEF InSight, OnDisk, Seen

LEMMA PutIsSeen ==
  ASSUME NEW c, NEW x, Put(c, x), UNCHANGED <<storage, disk>>, NEW b
  PROVE  /\ InSight(b)' = IF b = c THEN x ELSE InSight(b)
         /\ OnDisk(b)' = OnDisk(b)
<1>1. OnDisk(b)' = OnDisk(b)
  BY DEF OnDisk
<1>2. InSight(b)' = IF b \in DOMAIN cache' THEN cache'[b] ELSE OnDisk(b)'
  BY GetOver DEF InSight, OnDisk, Seen
<1>3. InSight(b) = IF b \in DOMAIN cache THEN cache[b] ELSE OnDisk(b)
  BY SightIs
<1>4. /\ DOMAIN cache' = DOMAIN cache \cup {c} /\ cache'[c] = x
      /\ b \in DOMAIN cache /\ b # c => cache'[b] = cache[b]
  BY DEF Put, Store
<1>5. QED
  BY <1>1, <1>2, <1>3, <1>4

LEMMA WriteBackKeeps ==
  ASSUME Framed, NEW c \in DOMAIN cache, WriteBack(c), NEW b
  PROVE  /\ InSight(b)' = InSight(b)
         /\ \A x : Settled(b, x) => Settled(b, x)'
<1>1. storage' = storage /\ storage.name \in DOMAIN disk
  BY PickedAreNames DEF WriteBack, Framed, Typed, Phased
<1>2. disk'[storage.name] = Store(disk[storage.name], c, cache[c])
  BY <1>1 DEF WriteBack
<1>3. OnDisk(b)' = IF b = c THEN cache[c] ELSE OnDisk(b)
  <2>1. Get(Store(disk[storage.name], c, cache[c]), b) = IF b = c THEN cache[c] ELSE OnDisk(b)
    BY DEF OnDisk, Get, Store
  <2>2. OnDisk(b)' = Get(disk'[storage.name], b)
    BY <1>1 DEF OnDisk
  <2>3. QED
    BY <1>2, <2>1, <2>2
<1>4. InSight(b)' = IF b \in DOMAIN cache' THEN cache'[b] ELSE OnDisk(b)'
  BY GetOver DEF InSight, OnDisk, Seen
<1>5. InSight(b) = IF b \in DOMAIN cache THEN cache[b] ELSE OnDisk(b)
  BY SightIs
<1>6. DOMAIN cache' = DOMAIN cache \ {c} /\ (b \in DOMAIN cache \ {c} => cache'[b] = cache[b])
  BY DEF WriteBack
<1>7. InSight(b)' = InSight(b)
  BY <1>3, <1>4, <1>5, <1>6
<1>8. ASSUME NEW x, Settled(b, x)
      PROVE  Settled(b, x)'
  BY <1>3, <1>5, <1>7, <1>8 DEF Settled
<1>9. QED
  BY <1>7, <1>8

LEMMA FlushSettles ==
  ASSUME Framed, Flush, clean'
  PROVE  /\ clean
         /\ \A b : InSight(b)' = InSight(b) /\ OnDisk(b)' = InSight(b)
<1>1. storage' = storage /\ storage.name \in DOMAIN disk
  <2>1. storage # NoDevice
    BY DEF Flush, AfterFlush, Framed, Phased
  <2>2. QED
    BY <2>1, PickedAreNames DEF Flush, Framed, Typed, Phased
<1>2. disk' = Flushed /\ cache' = <<>> /\ clean' = clean
  BY DEF Flush
<1>3. disk'[storage.name] = Over(cache, disk[storage.name]) /\ DOMAIN cache' = {}
  BY <1>1, <1>2 DEF Flushed
<1>4. ASSUME NEW b
      PROVE  InSight(b)' = InSight(b) /\ OnDisk(b)' = InSight(b)
  <2>1. OnDisk(b)' = InSight(b)
    BY <1>1, <1>3 DEF OnDisk, InSight, Seen
  <2>2. InSight(b)' = OnDisk(b)'
    BY <1>3, GetOver DEF InSight, OnDisk, Seen
  <2>3. QED
    BY <2>1, <2>2
<1>5. QED
  BY <1>2, <1>4

-----------------------------------------------------------------------------
(***************************************************************************)
(* What the codec does to each version.                                    *)
(***************************************************************************)
Codec(f) ==
  EncodeSnapshot(f) \in Seq(Seq(Nat)) /\ DecodeSnapshot(EncodeSnapshot(f)) = <<f>>
Faithful == \A v \in 1..Len(past) : Codec(past[v])

LEMMA HistoryIsFaithful ==
  ASSUME History
  PROVE  Faithful
<1>1. ASSUME NEW v \in 1..Len(past)
      PROVE  Codec(past[v])
  <2>1. past[v] \in Fabrics
    BY DEF History, Sound
  <2>2. QED
    BY <2>1, SnapshotDecoded DEF Codec
<1>2. QED
  BY <1>1 DEF Faithful

LEMMA BodyBlocks ==
  ASSUME NEW f, Codec(f)
  PROVE  \E k \in Nat : DOMAIN Blocks(f) = 1..k
<1> DEFINE len == Len(EncodeSnapshot(f))
           k == (len + BlockFields - 1) \div BlockFields
<1>1. DOMAIN Blocks(f) = 1..k
  BY DEF Blocks
<1>2. len \in Nat /\ BlockFields \in Nat \ {0}
  BY SnapshotAssumption DEF Codec
<1> HIDE DEF len
<1>3. k \in Nat
  BY <1>2
<1>4. QED
  BY <1>1, <1>3

-----------------------------------------------------------------------------
(***************************************************************************)
(* While no operation fails: the blocks of the body that were written are  *)
(* in sight, after the first flush they are settled on the medium, and     *)
(* after the second the superblock is too.  Settled blocks stay: all that  *)
(* is written over them is what was read from them.                        *)
(***************************************************************************)
Written ==
  image # 0 /\ clean =>
    /\ pc \in {"body", "flush", "flushBody"} =>
         /\ lba = 1 \/ lba - 1 \in DOMAIN body
         /\ \A b \in DOMAIN body : b < lba => InSight(b) = body[b]
    /\ pc = "flushBody" => \A b \in DOMAIN body : b < lba
    /\ pc \in {"super", "flushSuper", "readback", "run"} => \A b \in DOMAIN body : Settled(b, body[b])
    /\ pc = "flushSuper" => InSight(0) = Superblock(past[image])
    /\ pc \in {"readback", "run"} => Settled(0, Superblock(past[image]))

\* The image, its blocks and their number stay what they are in a step of persist,
\* of the agent and of the device.
LEMMA ImageStays ==
  ASSUME Framed, Faithful, Grows, image # 0, UNCHANGED <<image, body>>
  PROVE  /\ past'[image'] = past[image]
         /\ \E k \in Nat : DOMAIN body = 1..k
<1>1. image \in 1..Len(past) /\ body = Blocks(past[image])
  BY DEF Framed, Typed, Phased, Grows
<1>2. Codec(past[image])
  BY <1>1 DEF Faithful
<1>3. QED
  BY <1>1, <1>2, BodyBlocks DEF Grows

LEMMA PersistStepWrites ==
  ASSUME Framed, Faithful, Grows, Written, PersistStep, clean'
  PROVE  Written'
<1>1. Advances
  BY AdvancesAre
<1>2. /\ image # 0 /\ UNCHANGED <<storage, past, image, body>> /\ storage # NoDevice
      /\ lba \in Nat \ {0}
  BY <1>1 DEF Advances, Framed, Typed, Phased, Persisting
<1>3. past'[image'] = past[image]
  BY <1>2
<1>4. PICK k \in Nat : DOMAIN body = 1..k
  BY <1>2, ImageStays
<1>5. CASE WriteBody
  <2>1. /\ pc = "body" /\ pc' \in {"body", "flush"} /\ lba \in DOMAIN body /\ lba' = lba + 1
        /\ Put(lba, body[lba]) /\ UNCHANGED <<storage, disk, clean>>
    BY <1>5 DEF WriteBody, NextAfterBlock, Goto
  <2>2. \A b \in DOMAIN body : b < lba => InSight(b) = body[b]
    BY <1>2, <2>1 DEF Written
  <2>3. \A b : InSight(b)' = IF b = lba THEN body[lba] ELSE InSight(b)
    BY <2>1, PutIsSeen
  <2>4. \A b \in DOMAIN body : b < lba + 1 => InSight(b)' = body[b]
    <3>1. SUFFICES ASSUME NEW b \in DOMAIN body, b < lba + 1
                   PROVE  InSight(b)' = body[b]
      OBVIOUS
    <3>2. b = lba \/ b < lba
      BY <1>2, <1>4, <3>1
    <3>3. QED
      BY <2>2, <2>3, <3>2
  <2>5. lba' - 1 \in DOMAIN body
    BY <1>2, <2>1
  <2>6. QED
    BY <1>2, <2>1, <2>4, <2>5 DEF Written
<1>6. CASE BodyWritten
  <2>1. /\ pc = "body" /\ pc' = "flushBody" /\ lba \notin DOMAIN body
        /\ UNCHANGED <<storage, disk, cache, clean, lba>>
    BY <1>6 DEF BodyWritten, FlushFirst, Goto, device, writing
  <2>2. \A b : InSight(b)' = InSight(b)
    BY <2>1 DEF InSight, Seen
  <2>3. lba = 1 \/ lba - 1 \in DOMAIN body
    BY <1>2, <2>1 DEF Written
  <2>4. \A b \in DOMAIN body : b < lba
    BY <1>2, <1>4, <2>1, <2>3
  <2>5. QED
    BY <1>2, <2>1, <2>2, <2>3, <2>4 DEF Written
<1>7. CASE WriteSuperblock
  <2>1. /\ pc = "super" /\ pc' = "flushSuper" /\ Put(0, Superblock(past[image]))
        /\ UNCHANGED <<storage, disk, clean>>
    BY <1>7 DEF WriteSuperblock, FlushLast, Goto
  <2>2. \A b : /\ InSight(b)' = IF b = 0 THEN Superblock(past[image]) ELSE InSight(b)
               /\ OnDisk(b)' = OnDisk(b)
    BY <2>1, PutIsSeen
  <2>3. \A b \in DOMAIN body : b # 0 /\ Settled(b, body[b])
    BY <1>2, <1>4, <2>1 DEF Written
  <2>4. \A b \in DOMAIN body : Settled(b, body[b])'
    BY <1>2, <2>2, <2>3 DEF Settled
  <2>5. QED
    BY <1>2, <2>1, <2>2, <2>4 DEF Written
<1>8. CASE WriteFails
  BY <1>8 DEF WriteFails
<1>9. CASE Flush
  <2>1. clean /\ \A b : InSight(b)' = InSight(b) /\ OnDisk(b)' = InSight(b)
    BY <1>9, FlushSettles
  <2>2. /\ \/ pc = "flush" /\ pc' = "body"
           \/ pc = "flushBody" /\ pc' = "super"
           \/ pc = "flushSuper" /\ pc' = "readback"
        /\ lba' = lba
    BY <1>9 DEF Flush, AfterFlush, Goto, writing
  <2>3. \A b : Settled(b, InSight(b))'
    BY <2>1 DEF Settled
  <2>4. CASE pc = "flush" /\ pc' = "body"
    BY <1>2, <2>1, <2>2, <2>4 DEF Written
  <2>5. CASE pc = "flushBody" /\ pc' = "super"
    <3>1. \A b \in DOMAIN body : InSight(b) = body[b]
      BY <1>2, <2>1, <2>5 DEF Written
    <3>2. \A b \in DOMAIN body : Settled(b, body[b])'
      BY <1>2, <2>1, <3>1 DEF Settled
    <3>3. QED
      BY <1>2, <2>5, <3>2 DEF Written
  <2>6. CASE pc = "flushSuper" /\ pc' = "readback"
    <3>1. \A b \in DOMAIN body : InSight(b) = body[b]
      BY <1>2, <2>1, <2>6 DEF Written, Settled
    <3>2. InSight(0) = Superblock(past[image])
      BY <1>2, <2>1, <2>6 DEF Written
    <3>3. (\A b \in DOMAIN body : Settled(b, body[b])') /\ Settled(0, Superblock(past[image]))'
      BY <1>2, <1>3, <2>1, <3>1, <3>2 DEF Settled
    <3>4. QED
      BY <1>2, <2>6, <3>3 DEF Written
  <2>7. QED
    BY <2>2, <2>4, <2>5, <2>6
<1>10. CASE ReadBack
  <2>1. pc = "readback" /\ pc' = "run" /\ UNCHANGED <<storage, disk, cache, clean>>
    BY <1>10 DEF ReadBack, Goto, device
  <2>2. \A b, x : Settled(b, x) => Settled(b, x)'
    BY <2>1 DEF Settled, OnDisk, InSight, Seen
  <2>3. /\ \A b \in DOMAIN body : Settled(b, body[b])
        /\ Settled(0, Superblock(past[image]))
    BY <1>2, <2>1 DEF Written
  <2>4. (\A b \in DOMAIN body : Settled(b, body[b])') /\ Settled(0, Superblock(past[image]))'
    BY <1>2, <1>3, <2>2, <2>3
  <2>5. QED
    BY <1>2, <2>1, <2>4 DEF Written
<1>11. QED
  BY <1>5, <1>6, <1>7, <1>8, <1>9, <1>10 DEF PersistStep

\* Steps that leave what persist has written as it is.
LEMMA WrittenStays ==
  ASSUME Framed, Faithful, Grows, Written, clean' => clean,
         UNCHANGED <<storage, pc, image, body, lba>>,
         clean' => \A b : InSight(b)' = InSight(b) /\ \A x : Settled(b, x) => Settled(b, x)'
  PROVE  Written'
<1>1. SUFFICES ASSUME image # 0, clean'
               PROVE  Written'
  BY DEF Written
<1>2. past'[image'] = past[image]
  BY <1>1, ImageStays
<1>3. CASE pc \in {"body", "flush", "flushBody", "flushSuper"}
  BY <1>1, <1>2, <1>3 DEF Written
<1>4. CASE pc \notin {"body", "flush", "flushBody", "flushSuper"}
  BY <1>1, <1>2, <1>4 DEF Written
<1>5. QED
  BY <1>3, <1>4

LEMMA WrittenKept ==
  ASSUME Framed, Faithful, Faithful', Written, [Next]_vars
  PROVE  Written'
<1>1. Grows
  BY PastGrows
<1>2. StepCases
  BY StepsAre
<1>3. CASE Begins
  <2>1. pc' = "body" /\ lba' = 1 /\ body' = Blocks(past'[image']) /\ image' \in 1..Len(past')
    BY <1>3 DEF Begins
  <2>2. PICK f : f = past'[image']
    OBVIOUS
  <2>3. PICK k \in Nat : DOMAIN body' = 1..k
    BY <2>1, <2>2, BodyBlocks DEF Faithful
  <2>4. QED
    BY <2>1, <2>3 DEF Written
<1>4. ASSUME NEW c \in Probes, NEW text, AgentWrite(c, text)
      PROVE  Written'
  <2>1. /\ UNCHANGED <<storage, disk, pc, image, body, lba>>
        /\ clean' => clean' = clean /\ Put(c, InSight(c))
    BY <1>4 DEF AgentWrite, InSight, writing
  <2>2. ASSUME clean', NEW b
        PROVE  InSight(b)' = InSight(b) /\ \A x : Settled(b, x) => Settled(b, x)'
    <3>1. PICK x : x = InSight(c)
      OBVIOUS
    <3>2. Put(c, x)
      BY <2>1, <2>2, <3>1
    <3>3. InSight(b)' = (IF b = c THEN x ELSE InSight(b)) /\ OnDisk(b)' = OnDisk(b)
      BY <2>1, <3>2, PutIsSeen
    <3>4. QED
      BY <3>1, <3>3 DEF Settled
  <2>3. QED
    BY <1>1, <2>1, <2>2, WrittenStays
<1>5. CASE Loops /\ UNCHANGED <<cache, acked>> /\ (clean' = clean \/ image = 0)
  <2>1. CASE image = 0
    BY <1>5, <2>1 DEF Written, Loops, writing
  <2>2. CASE image # 0
    <3>1. UNCHANGED <<storage, disk, cache, pc, image, body, lba, clean>>
      BY <1>5, <2>2 DEF Loops, Framed, Phased, Idle, writing
    <3>2. \A b : InSight(b)' = InSight(b) /\ \A x : Settled(b, x) => Settled(b, x)'
      BY <3>1 DEF Settled, OnDisk, InSight, Seen
    <3>3. QED
      BY <1>1, <3>1, <3>2, WrittenStays
  <2>3. QED
    BY <2>1, <2>2
<1>6. CASE PersistStep
  <2>1. CASE clean'
    BY <1>1, <1>6, <2>1, PersistStepWrites
  <2>2. CASE ~ clean'
    BY <2>2 DEF Written
  <2>3. QED
    BY <2>1, <2>2
<1>7. CASE PowerOn
  BY <1>7 DEF PowerOn, Framed, Phased, Idle, Written, writing
<1>8. ASSUME NEW c \in DOMAIN cache, WriteBack(c)
      PROVE  Written'
  <2>1. UNCHANGED <<storage, pc, image, body, lba, clean>>
    BY <1>8 DEF WriteBack, writing
  <2>2. \A b : InSight(b)' = InSight(b) /\ \A x : Settled(b, x) => Settled(b, x)'
    BY <1>8, WriteBackKeeps
  <2>3. QED
    BY <1>1, <2>1, <2>2, WrittenStays
<1>9. CASE Crash
  BY <1>9 DEF Crash, Written
<1>10. CASE UNCHANGED vars
  <2>1. UNCHANGED <<storage, disk, cache, pc, image, body, lba, clean>>
    BY <1>10 DEF vars, device, writing
  <2>2. \A b : InSight(b)' = InSight(b) /\ \A x : Settled(b, x) => Settled(b, x)'
    BY <2>1 DEF Settled, OnDisk, InSight, Seen
  <2>3. QED
    BY <1>1, <2>1, <2>2, WrittenStays
<1>11. QED
  BY <1>2, <1>3, <1>4, <1>5, <1>6, <1>7, <1>8, <1>9, <1>10 DEF StepCases

-----------------------------------------------------------------------------
(***************************************************************************)
(* The snapshot persist writes is durable.                                 *)
(***************************************************************************)
Persisted == Remembered /\ Written

LEMMA PersistedParts ==
  ASSUME Persisted
  PROVE  Framed /\ History /\ Faithful /\ Written /\ AllNamed(0)
BY HistoryIsFaithful DEF Persisted, Remembered

LEMMA PersistedStarts ==
  ASSUME Init
  PROVE  Persisted
BY RememberedStarts DEF Persisted, Written, Init

LEMMA PersistedKept ==
  ASSUME Persisted, [Next]_vars
  PROVE  Persisted'
<1>1. Remembered /\ Framed /\ Faithful /\ Written
  BY PersistedParts DEF Persisted
<1>2. Remembered'
  BY <1>1, RememberedKept
<1>3. Faithful'
  <2>1. \A v \in 1..Len(past') : past'[v] \in Fabrics
    BY <1>2 DEF Remembered, History, Sound
  <2>2. QED
    BY <2>1, SnapshotDecoded DEF Faithful, Codec
<1>4. Written'
  BY <1>1, <1>3, WrittenKept
<1>5. QED
  BY <1>2, <1>4 DEF Persisted

LEMMA PersistedIsDurable ==
  ASSUME Persisted
  PROVE  SnapshotDurable
<1>1. SUFFICES ASSUME image # 0, clean, pc \in {"flushSuper", "readback", "run"},
                      Get(disk[storage.name], 0) = Superblock(past[image]) \/ pc = "run"
               PROVE  OnMedium(storage.name) = <<past[image]>>
  BY DEF SnapshotDurable, SuperblockNamesBody, AckedIsDurable
<1>2. PICK f, medium : f = past[image] /\ medium = disk[storage.name]
  OBVIOUS
<1>3. Codec(f) /\ body = Blocks(f)
  BY <1>1, <1>2, PersistedParts DEF Framed, Typed, Phased, Faithful
<1>4. \A b \in DOMAIN body : Get(medium, b) = body[b]
  BY <1>1, <1>2, PersistedParts DEF Written, Settled, OnDisk
<1>5. Get(medium, 0) = Superblock(f)
  BY <1>1, <1>2, PersistedParts DEF Written, Settled, OnDisk
<1>6. Found(medium) = <<f>>
  BY <1>3, <1>4, <1>5, FoundBehindItsName DEF Codec
<1>7. QED
  BY <1>2, <1>6 DEF OnMedium

\* The superblock reaches the medium only after the body it names, and a persist that
\* returned Ok on a device that did not fail has made its snapshot durable: restore,
\* after a crash at any moment until the next persist, finds the fabric that persist
\* encoded.
THEOREM SnapshotIsDurable == Spec => []SnapshotDurable
<1>1. Init => Persisted
  BY PersistedStarts
<1>2. Persisted /\ [Next]_vars => Persisted'
  BY PersistedKept
<1>3. Persisted => SnapshotDurable
  BY PersistedIsDurable
<1>4. QED
  BY <1>1, <1>2, <1>3, PTL DEF Spec

-----------------------------------------------------------------------------
(***************************************************************************)
(* Every superblock there is is the one of a version no older than the     *)
(* last acknowledged; so is the fabric in memory and the one persist       *)
(* writes.                                                                 *)
(***************************************************************************)
Untouched == \A name \in Names \ PickedNames : disk[name] = <<>>

Named ==
  /\ AllNamed(acked) /\ Untouched
  /\ fabric # 0 => fabric >= acked
  /\ image # 0 => image >= acked
  /\ pc \in Persisting => fabric = image

LEMMA FabricStaysFresh ==
  ASSUME Framed, History, Named, [Next]_vars
  PROVE  fabric' # 0 => fabric' >= acked
<1>1. acked \in Nat /\ acked <= Len(past) /\ Len(past) \in Nat /\ fabric \in Nat
      /\ (fabric # 0 => fabric >= acked)
  BY DEF Framed, Typed, IsSequence, Named
<1>2. ASSUME NEW f, Becomes(f)
      PROVE  fabric' >= acked
  <2>1. /\ fabric' \in 1..Len(past') /\ (fabric' = fabric \/ fabric' > Len(past)) /\ Len(past') \in Nat
    BY <1>2, BecomesGrows DEF Framed, Grows
  <2>2. QED
    BY <1>1, <2>1
<1>3. fabric' = fabric => (fabric' # 0 => fabric' >= acked)
  BY <1>1
<1>4. CASE Restore
  <2>1. PICK least : least = acked
    OBVIOUS
  <2>2. AllNamed(least)
    BY <2>1 DEF Named, AllNamed
  <2>3. PICK v \in 1..Len(past) : v >= least /\ Loads(past[v])
    BY <1>4, <2>2, RestoresVersion
  <2>4. PICK f : f = past[v]
    OBVIOUS
  <2>5. Loads(f) /\ past[v] = f
    BY <2>3, <2>4
  <2>6. v <= fabric' /\ fabric' \in 1..Len(past') /\ Len(past') \in Nat
    BY <2>5, LoadsGrows DEF Framed, Grows
  <2>7. QED
    BY <1>1, <2>1, <2>3, <2>6
<1>5. CASE FreshGenesis \/ \E blob \in Blobs : Persist(blob)
  <2>1. \E f : Becomes(f)
    BY <1>5 DEF FreshGenesis, Persist
  <2>2. QED
    BY <1>2, <2>1
<1>6. CASE \E line \in Lines : Submit(line) \/ Report(line)
  <2>1. \E f : Becomes(f)
    BY <1>6 DEF Submit, Report
  <2>2. QED
    BY <1>2, <2>1
<1>7. CASE \E b \in Probes, text \in Lines : AgentWrite(b, text)
  <2>1. (\E f : Becomes(f)) \/ fabric' = fabric
    BY <1>7 DEF AgentWrite
  <2>2. QED
    BY <1>2, <1>3, <2>1
<1>8. CASE PersistStep
  <2>1. fabric' = fabric
    BY <1>8, AdvancesAre DEF Advances
  <2>2. QED
    BY <1>3, <2>1
<1>9. CASE PowerOn \/ Crash \/ (\E b \in DOMAIN cache : WriteBack(b)) \/ UNCHANGED vars
  <2>1. fabric' = fabric \/ fabric' = 0
    BY <1>9 DEF PowerOn, Crash, WriteBack, vars
  <2>2. QED
    BY <1>3, <2>1
<1>10. QED
  BY <1>4, <1>5, <1>6, <1>7, <1>8, <1>9 DEF Next, Kernel, PersistStep

LEMMA ReadBackNames ==
  ASSUME OneDisk, Framed, Written, Named, ReadBack
  PROVE  AllNamed(acked)' /\ image >= acked'
<1>1. /\ pc = "readback" /\ UNCHANGED <<storage, disk, cache, past, fabric, image>>
      /\ acked' = IF clean THEN image ELSE acked
  BY DEF ReadBack, device, writing
<1>2. image # 0 /\ image \in 1..Len(past) /\ acked <= image /\ storage # NoDevice
  BY <1>1 DEF Framed, Typed, Phased, Persisting, Named
<1>3. CASE clean
  <2>1. OnDisk(0) = Superblock(past[image]) /\ InSight(0) = Superblock(past[image])
    BY <1>1, <1>2, <1>3 DEF Written, Settled
  <2>2. \A blocks : (0 \in DOMAIN blocks => blocks[0] = Superblock(past[image]))
                      => NamesVersion(blocks, past, image)
    BY <1>2 DEF NamesVersion
  <2>3. 0 \in DOMAIN cache => cache[0] = Superblock(past[image])
    BY <2>1, SightIs
  <2>4. ASSUME NEW name \in Names, 0 \in DOMAIN disk[name]
        PROVE  disk[name][0] = Superblock(past[image])
    <3>1. name \in PickedNames
      BY <2>4 DEF Named, Untouched
    <3>2. name = storage.name
      BY <1>2, <3>1 DEF OneDisk, PickedNames, Framed, Phased
    <3>3. QED
      BY <2>1, <2>4, <3>2 DEF OnDisk, Get
  <2>5. NamesVersion(cache, past, image) /\ \A name \in Names : NamesVersion(disk[name], past, image)
    BY <2>2, <2>3, <2>4
  <2>6. QED
    BY <1>1, <1>2, <1>3, <2>5 DEF AllNamed, Framed, Typed
<1>4. CASE ~ clean
  BY <1>1, <1>2, <1>4 DEF Named, AllNamed
<1>5. QED
  BY <1>3, <1>4

LEMMA UntouchedKept ==
  ASSUME Framed, StepCases, Untouched
  PROVE  Untouched'
<1>1. UNCHANGED disk => Untouched'
  BY DEF Untouched
<1>2. ASSUME storage # NoDevice, NEW medium, disk' = [disk EXCEPT ![storage.name] = medium]
      PROVE  Untouched'
  <2>1. storage.name \in PickedNames /\ DOMAIN disk = Names
    BY <1>2 DEF Framed, Typed, Phased
  <2>2. QED
    BY <1>2, <2>1 DEF Untouched
<1>3. CASE Begins \/ Loops \/ PowerOn \/ Crash \/ UNCHANGED vars \/ \E b, text : AgentWrite(b, text)
  BY <1>1, <1>3 DEF Begins, Loops, PowerOn, Crash, vars, device, AgentWrite
<1>4. CASE WriteBody \/ BodyWritten \/ WriteSuperblock \/ WriteFails \/ ReadBack
  BY <1>1, <1>4 DEF WriteBody, BodyWritten, WriteSuperblock, WriteFails, ReadBack, device
<1>5. CASE Flush
  <2>1. storage # NoDevice
    BY <1>5 DEF Flush, AfterFlush, Framed, Phased
  <2>2. PICK medium : medium = Over(cache, disk[storage.name])
    OBVIOUS
  <2>3. UNCHANGED disk \/ disk' = [disk EXCEPT ![storage.name] = medium]
    BY <1>5, <2>2 DEF Flush, Flushed
  <2>4. QED
    BY <1>1, <1>2, <2>1, <2>3
<1>6. ASSUME NEW b \in DOMAIN cache, WriteBack(b)
      PROVE  Untouched'
  <2>1. storage # NoDevice
    BY DEF Framed, Phased
  <2>2. PICK medium : medium = Store(disk[storage.name], b, cache[b])
    OBVIOUS
  <2>3. disk' = [disk EXCEPT ![storage.name] = medium]
    BY <1>6, <2>2 DEF WriteBack
  <2>4. QED
    BY <1>2, <2>1, <2>3
<1>7. QED
  BY <1>3, <1>4, <1>5, <1>6 DEF StepCases, PersistStep

LEMMA NamedKept ==
  ASSUME OneDisk, Framed, History, Written, Named, [Next]_vars
  PROVE  Named'
<1>1. Grows /\ StepCases
  BY PastGrows, StepsAre
<1>2. fabric' # 0 => fabric' >= acked
  BY FabricStaysFresh
<1>3. Untouched'
  BY <1>1, UntouchedKept DEF Named
<1>4. PICK least : least = acked
  OBVIOUS
<1>5. AllNamed(least)'
  <2>1. AllNamed(least) /\ (image # 0 => image >= least)
    BY <1>4 DEF Named, AllNamed
  <2>2. QED
    BY <1>1, <2>1, NamesKept
<1>6. UNCHANGED acked => AllNamed(acked)'
  BY <1>4, <1>5 DEF AllNamed
<1>7. CASE Begins
  BY <1>2, <1>3, <1>6, <1>7 DEF Begins, Named
<1>8. CASE (Loops /\ UNCHANGED acked) \/ \E b, text : AgentWrite(b, text)
  <2>1. UNCHANGED <<acked, image>> /\ pc' = "run"
    BY <1>8 DEF Loops, AgentWrite, writing
  <2>2. QED
    BY <1>2, <1>3, <1>6, <2>1 DEF Named, Persisting
<1>9. CASE PersistStep
  <2>1. Advances
    BY <1>9, AdvancesAre
  <2>2. /\ UNCHANGED <<fabric, image>> /\ image # 0 /\ fabric = image /\ image >= acked
        /\ image \in Nat /\ acked \in Nat
    BY <2>1 DEF Advances, Framed, Typed, Phased, Named, Persisting
  <2>3. AllNamed(acked)' /\ image >= acked'
    <3>1. CASE ReadBack
      BY <3>1, ReadBackNames
    <3>2. CASE ~ ReadBack
      <4>1. UNCHANGED acked
        BY <1>9, <3>2 DEF PersistStep, WriteBody, BodyWritten, WriteSuperblock, WriteFails, Flush
      <4>2. QED
        BY <1>6, <2>2, <4>1
    <3>3. QED
      BY <3>1, <3>2
  <2>4. QED
    BY <1>3, <2>2, <2>3 DEF Named
<1>10. CASE PowerOn \/ UNCHANGED vars \/ \E b \in DOMAIN cache : WriteBack(b)
  <2>1. UNCHANGED <<acked, fabric, image>> /\ (pc' = "boot" \/ pc' = pc)
    BY <1>10 DEF PowerOn, WriteBack, Goto, vars, writing
  <2>2. QED
    BY <1>2, <1>3, <1>6, <2>1 DEF Named, Persisting
<1>11. CASE Crash
  <2>1. fabric' = 0 /\ image' = 0 /\ pc' = "off" /\ UNCHANGED acked
    BY <1>11 DEF Crash
  <2>2. QED
    BY <1>3, <1>6, <2>1 DEF Named, Persisting
<1>12. QED
  BY <1>1, <1>7, <1>8, <1>9, <1>10, <1>11 DEF StepCases

LEMMA NamedIsNeverStale ==
  ASSUME OneDisk, Framed, History, Named
  PROVE  NeverStale
<1>1. ASSUME NEW name \in Names, OnMedium(name) # <<>>
      PROVE  \E v \in acked..Len(past) : v # 0 /\ OnMedium(name) = <<past[v]>>
  <2>1. PICK medium : medium = disk[name]
    OBVIOUS
  <2>2. NamesVersion(medium, past, acked) /\ Found(medium) # <<>>
    BY <1>1, <2>1 DEF Named, AllNamed, OnMedium
  <2>3. PICK v \in 1..Len(past) : v >= acked /\ Found(medium) = <<past[v]>>
    BY <2>2, FoundIsVersion
  <2>4. v \in acked..Len(past) /\ v # 0
    BY <2>3 DEF Framed, Typed
  <2>5. QED
    BY <2>1, <2>3, <2>4 DEF OnMedium
<1> DEFINE used == {name \in Names : disk[name] # <<>>}
<1>2. used \subseteq PickedNames
  BY DEF Named, Untouched
<1>3. \A a, b \in used : a = b
  BY <1>2 DEF OneDisk, PickedNames
<1> HIDE DEF used
<1>4. Cardinality(used) <= 1
  <2>1. CASE used = {}
    BY <2>1, FS_EmptySet
  <2>2. CASE used # {}
    <3>1. PICK a \in used : TRUE
      BY <2>2
    <3>2. used = {a}
      BY <1>3, <3>1
    <3>3. PICK n : n = Cardinality({a})
      OBVIOUS
    <3>4. n = 1
      BY <3>3, FS_Singleton, Zenon
    <3>5. n <= 1
      BY <3>4
    <3>6. QED
      BY <3>2, <3>3, <3>5
  <2>3. QED
    BY <2>1, <2>2
<1>5. QED
  BY <1>1, <1>4 DEF NeverStale, used

\* Whatever fails, reads, writes, flushes or the power, a restart never restores a
\* mixture of fabrics, nor one older than the last that persist acknowledged on a
\* device that did not fail, and no other disk is ever written: provided that the
\* boots pick the same disk.
THEOREM RestartIsNeverStale ==
  ASSUME OneDisk
  PROVE  Spec => []NeverStale
<1> DEFINE Inv == Persisted /\ Named
<1>1. Init => Inv
  <2>1. SUFFICES ASSUME Init
                 PROVE  Inv
    OBVIOUS
  <2>2. /\ Len(past) = 0 /\ image = 0 /\ fabric = 0 /\ pc = "off"
        /\ DOMAIN cache = {} /\ \A name \in Names : disk[name] = <<>> /\ DOMAIN disk[name] = {}
    BY <2>1 DEF Init
  <2>3. Persisted
    BY <2>1, PersistedStarts
  <2>4. Named
    BY <2>2 DEF Named, AllNamed, Untouched, NamesVersion, Persisting
  <2>5. QED
    BY <2>3, <2>4
<1>2. Inv /\ [Next]_vars => Inv'
  <2>1. SUFFICES ASSUME Inv, [Next]_vars
                 PROVE  Inv'
    OBVIOUS
  <2>2. Persisted'
    BY <2>1, PersistedKept
  <2>3. Named'
    BY <2>1, PersistedParts, NamedKept
  <2>4. QED
    BY <2>2, <2>3
<1>3. Inv => NeverStale
  BY PersistedParts, NamedIsNeverStale
<1>4. QED
  BY <1>1, <1>2, <1>3, PTL DEF Spec
=============================================================================
