------------------------- MODULE Coordination_proofs -------------------------
(***************************************************************************)
(* Theorems of Coordination, for any agents, contents and bounds.          *)
(***************************************************************************)
EXTENDS Coordination, FiniteSetTheorems, WellFoundedInduction, TLAPS

-----------------------------------------------------------------------------
(***************************************************************************)
(* Maps and bags.                                                          *)
(***************************************************************************)
MapsOf(S) == UNION {[T -> S] : T \in SUBSET Ids}
BagsOf(S) == UNION {[T -> Nat \ {0}] : T \in SUBSET S}

LEMMA PutMap ==
  ASSUME NEW S, NEW f \in MapsOf(S), NEW i \in Ids, NEW n \in S
  PROVE  /\ Put(f, i, n) \in MapsOf(S)
         /\ DOMAIN Put(f, i, n) = DOMAIN f \cup {i}
         /\ Put(f, i, n)[i] = n
         /\ \A j \in DOMAIN f \ {i} : Put(f, i, n)[j] = f[j]
<1>1. PICK T \in SUBSET Ids : f \in [T -> S]
  BY DEF MapsOf
<1>2. Put(f, i, n) \in [T \cup {i} -> S]
  BY <1>1 DEF Put
<1>3. QED
  BY <1>1, <1>2 DEF MapsOf, Put

LEMMA DropMap ==
  ASSUME NEW S, NEW f \in MapsOf(S), NEW i
  PROVE  [j \in DOMAIN f \ {i} |-> f[j]] \in MapsOf(S)
<1>1. PICK T \in SUBSET Ids : f \in [T -> S]
  BY DEF MapsOf
<1>2. [j \in DOMAIN f \ {i} |-> f[j]] \in [T \ {i} -> S]
  BY <1>1
<1>3. QED
  BY <1>2 DEF MapsOf

LEMMA MapValue ==
  ASSUME NEW S, NEW f \in MapsOf(S)
  PROVE  /\ DOMAIN f \subseteq Ids
         /\ \A i \in DOMAIN f : f[i] \in S
BY DEF MapsOf

LEMMA BagValue ==
  ASSUME NEW S, NEW B \in BagsOf(S)
  PROVE  /\ DOMAIN B \subseteq S
         /\ \A x \in DOMAIN B : B[x] \in Nat /\ B[x] > 0
         /\ \A x : Copies(x, B) \in Nat /\ (x \in DOMAIN B <=> Copies(x, B) > 0)
BY DEF BagsOf, Copies, BagIn, BagToSet

LEMMA EmptyBagOf ==
  ASSUME NEW S
  PROVE  /\ EmptyBag \in BagsOf(S)
         /\ DOMAIN EmptyBag = {}
         /\ \A x : Copies(x, EmptyBag) = 0
<1>1. EmptyBag \in [{} -> Nat \ {0}] /\ DOMAIN EmptyBag = {}
  BY DEF EmptyBag, SetToBag
<1>2. QED
  BY <1>1 DEF BagsOf, Copies, BagIn, BagToSet

LEMMA JoinBags ==
  ASSUME NEW S, NEW B \in BagsOf(S), NEW C \in BagsOf(S)
  PROVE  /\ B (+) C \in BagsOf(S)
         /\ DOMAIN (B (+) C) = DOMAIN B \cup DOMAIN C
         /\ \A x : Copies(x, B (+) C) = Copies(x, B) + Copies(x, C)
<1>1. PICK T \in SUBSET S : B \in [T -> Nat \ {0}]
  BY DEF BagsOf
<1>2. PICK U \in SUBSET S : C \in [U -> Nat \ {0}]
  BY DEF BagsOf
<1>3. B (+) C \in [T \cup U -> Nat \ {0}] /\ DOMAIN (B (+) C) = T \cup U
  BY <1>1, <1>2 DEF (+)
<1>4. \A x \in T \cup U : (B (+) C)[x] = Copies(x, B) + Copies(x, C)
  BY <1>1, <1>2 DEF (+), Copies, BagIn, BagToSet
<1>5. QED
  BY <1>1, <1>2, <1>3, <1>4 DEF BagsOf, Copies, BagIn, BagToSet

LEMMA OneBag ==
  ASSUME NEW S, NEW e \in S
  PROVE  /\ SetToBag({e}) \in BagsOf(S)
         /\ DOMAIN SetToBag({e}) = {e}
         /\ \A x : Copies(x, SetToBag({e})) = IF x = e THEN 1 ELSE 0
<1>1. SetToBag({e}) \in [{e} -> Nat \ {0}]
  BY DEF SetToBag
<1>2. QED
  BY <1>1 DEF BagsOf, SetToBag, Copies, BagIn, BagToSet

LEMMA AddOne ==
  ASSUME NEW S, NEW B \in BagsOf(S), NEW e \in S
  PROVE  /\ B (+) SetToBag({e}) \in BagsOf(S)
         /\ DOMAIN (B (+) SetToBag({e})) = DOMAIN B \cup {e}
         /\ \A x : Copies(x, B (+) SetToBag({e})) = Copies(x, B) + IF x = e THEN 1 ELSE 0
<1> DEFINE C == SetToBag({e})
<1>1. /\ C \in BagsOf(S) /\ DOMAIN C = {e}
      /\ \A x : Copies(x, C) = IF x = e THEN 1 ELSE 0
  BY OneBag
<1> HIDE DEF C
<1>2. /\ B (+) C \in BagsOf(S)
      /\ DOMAIN (B (+) C) = DOMAIN B \cup DOMAIN C
      /\ \A x : Copies(x, B (+) C) = Copies(x, B) + Copies(x, C)
  BY <1>1, JoinBags
<1>3. QED
  BY <1>1, <1>2 DEF C

LEMMA TakeOne ==
  ASSUME NEW S, NEW B \in BagsOf(S), NEW e \in DOMAIN B
  PROVE  /\ B (-) SetToBag({e}) \in BagsOf(S)
         /\ DOMAIN (B (-) SetToBag({e})) \subseteq DOMAIN B
         /\ \A x : Copies(x, B (-) SetToBag({e})) = Copies(x, B) - IF x = e THEN 1 ELSE 0
<1> DEFINE D == [x \in DOMAIN B |-> IF x \in {e} THEN B[x] - SetToBag({e})[x] ELSE B[x]]
           R == {d \in DOMAIN D : D[d] > 0}
<1>1. PICK T \in SUBSET S : B \in [T -> Nat \ {0}]
  BY DEF BagsOf
<1>2. B (-) SetToBag({e}) = [x \in R |-> D[x]]
  BY DEF (-), SetToBag
<1>3. \A x \in T : D[x] = B[x] - (IF x = e THEN 1 ELSE 0) /\ D[x] \in Nat
  BY <1>1 DEF SetToBag
<1>4. R \subseteq T /\ \A x \in R : D[x] \in Nat \ {0}
  BY <1>1, <1>3
<1> HIDE DEF D, R
<1> DEFINE E == [x \in R |-> D[x]]
<1>5. E \in [R -> Nat \ {0}]
  BY <1>4
<1>6. \A x : Copies(x, E) = Copies(x, B) - IF x = e THEN 1 ELSE 0
  <2>1. DOMAIN E = R /\ \A x \in R : E[x] = D[x]
    OBVIOUS
  <2>2. \A x \in T : x \in R <=> D[x] > 0
    BY <1>1 DEF R, D
  <2> HIDE DEF E
  <2>3. ASSUME NEW x
        PROVE  Copies(x, E) = Copies(x, B) - IF x = e THEN 1 ELSE 0
    <3>1. CASE x \in R
      BY <1>1, <1>3, <1>4, <2>1, <3>1 DEF Copies, BagIn, BagToSet
    <3>2. CASE x \in T \ R
      BY <1>1, <1>3, <1>4, <2>1, <2>2, <3>2 DEF Copies, BagIn, BagToSet
    <3>3. CASE x \notin T
      BY <1>1, <1>4, <2>1, <3>3 DEF Copies, BagIn, BagToSet
    <3>4. QED
      BY <3>1, <3>2, <3>3
  <2>4. QED
    BY <2>3
<1> HIDE DEF E
<1>7. E \in BagsOf(S) /\ DOMAIN E \subseteq DOMAIN B
  BY <1>1, <1>4, <1>5 DEF BagsOf
<1>8. B (-) SetToBag({e}) = E
  BY <1>2 DEF E
<1>9. QED
  BY <1>6, <1>7, <1>8

LEMMA RestrictBag ==
  ASSUME NEW S, NEW B \in BagsOf(S), NEW T \in SUBSET DOMAIN B
  PROVE  [e \in T |-> B[e]] \in BagsOf(S)
<1>1. PICK U \in SUBSET S : B \in [U -> Nat \ {0}]
  BY DEF BagsOf
<1>2. [e \in T |-> B[e]] \in [T -> Nat \ {0}]
  BY <1>1
<1>3. QED
  BY <1>1, <1>2 DEF BagsOf

-----------------------------------------------------------------------------
(***************************************************************************)
(* The graph of the two bridges: its types, and what each method makes of  *)
(* it.                                                                     *)
(***************************************************************************)
Messages == [id : Ids, content : Contents]

GraphTyped ==
  /\ nodes \in [Bridges -> MapsOf(Node)]
  /\ edges \in [Bridges -> BagsOf(Edge)]
  /\ gone \in [Bridges -> SUBSET Ids]
  /\ shut \subseteq Regions
  /\ open \in [Ids -> Nat]
  /\ fresh \in 4..(MaxIds + 1)
  /\ inbox \in BagsOf(Messages)
  /\ IsFiniteSet(DOMAIN inbox)

\* Node i of bridge b is now n; no other node changed.
NodeIsNow(b, i, n) ==
  /\ In(b)' = In(b) \cup {i}
  /\ nodes'[b][i] = n
  /\ \A j \in In(b) \ {i} : nodes'[b][j] = nodes[b][j]
  /\ \A c \in Bridges \ {b} : nodes'[c] = nodes[c]

\* Bridge b has one copy more of edge e.
EdgeAdded(b, e) ==
  /\ DOMAIN edges'[b] = DOMAIN edges[b] \cup {e}
  /\ \A x : Copies(x, edges'[b]) = Copies(x, edges[b]) + IF x = e THEN 1 ELSE 0
  /\ \A c \in Bridges \ {b} : edges'[c] = edges[c]

\* Node i of bridge b is gone with the edges it had.
NodeFaded(b, i) ==
  /\ In(b)' = In(b) \ {i}
  /\ \A j \in In(b)' : nodes'[b][j] = nodes[b][j]
  /\ \A c \in Bridges \ {b} : nodes'[c] = nodes[c] /\ edges'[c] = edges[c]
  /\ DOMAIN edges'[b] = {e \in DOMAIN edges[b] : i \notin {e.from, e.to}}
  /\ \A e \in DOMAIN edges'[b] : edges'[b][e] = edges[b][e]

LEMMA NodeTyped ==
  ASSUME GraphTyped, NEW b \in Bridges
  PROVE  /\ In(b) \subseteq Ids
         /\ \A i \in In(b) : nodes[b][i] \in Node
         /\ DOMAIN edges[b] \subseteq Edge
         /\ \A e \in DOMAIN edges[b] : edges[b][e] \in Nat /\ edges[b][e] > 0
<1>1. nodes[b] \in MapsOf(Node) /\ edges[b] \in BagsOf(Edge)
  BY DEF GraphTyped
<1>2. QED
  BY <1>1, MapValue, BagValue DEF In

LEMMA IdsAreNaturals ==
  /\ Ids \subseteq Nat \ {0} /\ IsFiniteSet(Ids) /\ {Thread, Item, Work} \subseteq Ids
  /\ \A i \in Nat \ {0} : i <= MaxIds => i \in Ids
<1>1. MaxIds \in Nat /\ MaxIds >= 3
  BY AgentCallsAssumption
<1>2. IsFiniteSet(1..MaxIds)
  BY <1>1, FS_Interval
<1>3. QED
  BY <1>1, <1>2 DEF Ids, Thread, Item, Work

LEMMA MakeNode ==
  ASSUME GraphTyped, NEW b \in Bridges, NEW i \in Ids, i <= fresh, NEW n \in Node,
         nodes' = [nodes EXCEPT ![b] = Put(@, i, n)]
  PROVE  NodeIsNow(b, i, n) /\ nodes' \in [Bridges -> MapsOf(Node)]
<1>1. nodes[b] \in MapsOf(Node)
  BY DEF GraphTyped
<1>2. /\ Put(nodes[b], i, n) \in MapsOf(Node)
      /\ DOMAIN Put(nodes[b], i, n) = DOMAIN nodes[b] \cup {i}
      /\ Put(nodes[b], i, n)[i] = n
      /\ \A j \in DOMAIN nodes[b] \ {i} : Put(nodes[b], i, n)[j] = nodes[b][j]
  BY <1>1, PutMap
<1>3. /\ nodes'[b] = Put(nodes[b], i, n)
      /\ \A c \in Bridges \ {b} : nodes'[c] = nodes[c]
  BY DEF GraphTyped
<1>4. QED
  BY <1>2, <1>3 DEF GraphTyped, NodeIsNow, In

LEMMA CreateTyped ==
  ASSUME GraphTyped, NEW b \in Bridges, NEW r, NEW i \in Ids, i <= fresh, NEW n \in Node,
         Create(b, r, i, n)
  PROVE  GraphTyped' /\ NodeIsNow(b, i, n) /\ fresh' = (IF i = fresh THEN fresh + 1 ELSE fresh)
<1>1. NodeIsNow(b, i, n) /\ nodes' \in [Bridges -> MapsOf(Node)]
  BY MakeNode DEF Create
<1>2. fresh' = (IF i = fresh THEN fresh + 1 ELSE fresh) /\ fresh' \in 4..(MaxIds + 1)
  BY AgentCallsAssumption DEF Create, GraphTyped, Ids
<1>3. inbox' \in BagsOf(Messages) /\ IsFiniteSet(DOMAIN inbox')
  <2>1. CASE b = "comms" /\ IsMessage(n)
    <3> DEFINE m == [id |-> i, content |-> n.content]
    <3>1. m \in Messages /\ inbox' = inbox (+) SetToBag({m})
      BY <2>1 DEF Create, Messages, Node
    <3> HIDE DEF m
    <3>2. inbox' \in BagsOf(Messages) /\ DOMAIN inbox' = DOMAIN inbox \cup {m}
      <4>1. inbox \in BagsOf(Messages) /\ m \in Messages
        BY <3>1 DEF GraphTyped
      <4>2. /\ inbox (+) SetToBag({m}) \in BagsOf(Messages)
            /\ DOMAIN (inbox (+) SetToBag({m})) = DOMAIN inbox \cup {m}
        <5>1. \A S : \A B \in BagsOf(S) : \A e \in S :
                /\ B (+) SetToBag({e}) \in BagsOf(S)
                /\ DOMAIN (B (+) SetToBag({e})) = DOMAIN B \cup {e}
          BY AddOne
        <5>2. QED
          <6>1. inbox \in BagsOf(Messages)
            BY <4>1
          <6>2. m \in Messages
            BY <4>1
          <6>3. \A e \in Messages :
                /\ inbox (+) SetToBag({e}) \in BagsOf(Messages)
                /\ DOMAIN (inbox (+) SetToBag({e})) = DOMAIN inbox \cup {e}
            BY <5>1, <6>1, Zenon
          <6>4. QED
            BY <6>2, <6>3, Zenon
      <4>3. QED
        BY <3>1, <4>2
    <3>3. QED
      BY <3>2, FS_AddElement DEF GraphTyped
  <2>2. CASE ~ (b = "comms" /\ IsMessage(n))
    BY <2>2 DEF Create, GraphTyped
  <2>3. QED
    BY <2>1, <2>2
<1>4. QED
  BY <1>1, <1>2, <1>3 DEF GraphTyped, Create

LEMMA AddEdgeTyped ==
  ASSUME GraphTyped, NEW b \in Bridges, NEW i \in Ids, NEW j \in Ids, NEW k,
         [from |-> i, to |-> j, kind |-> k] \in Edge, AddEdge(b, i, j, k)
  PROVE  GraphTyped' /\ EdgeAdded(b, [from |-> i, to |-> j, kind |-> k])
<1> DEFINE e == [from |-> i, to |-> j, kind |-> k]
<1>1. e \in Edge /\ edges' = [edges EXCEPT ![b] = @ (+) SetToBag({e})]
  BY DEF AddEdge
<1> HIDE DEF e
<1>2. edges[b] \in BagsOf(Edge)
  BY DEF GraphTyped
<1>3. /\ edges[b] (+) SetToBag({e}) \in BagsOf(Edge)
      /\ DOMAIN (edges[b] (+) SetToBag({e})) = DOMAIN edges[b] \cup {e}
      /\ \A x : Copies(x, edges[b] (+) SetToBag({e}))
                 = Copies(x, edges[b]) + IF x = e THEN 1 ELSE 0
  BY <1>1, <1>2, AddOne
<1>4. edges'[b] = edges[b] (+) SetToBag({e}) /\ \A c \in Bridges \ {b} : edges'[c] = edges[c]
  BY <1>1 DEF GraphTyped
<1>5. EdgeAdded(b, e) /\ edges' \in [Bridges -> BagsOf(Edge)]
  BY <1>1, <1>3, <1>4 DEF GraphTyped, EdgeAdded
<1>6. GraphTyped'
  BY <1>5 DEF GraphTyped, AddEdge
<1>7. QED
  BY <1>5, <1>6 DEF e

LEMMA FadeTyped ==
  ASSUME GraphTyped, NEW b \in Bridges, NEW i, TerminateNode(b, i)
  PROVE  /\ GraphTyped' /\ NodeFaded(b, i) /\ i \in In(b) \ gone[b]
         /\ gone' = [gone EXCEPT ![b] = @ \cup {i}]
<1> DEFINE M == [j \in DOMAIN nodes[b] \ {i} |-> nodes[b][j]]
           T == {e \in DOMAIN edges[b] : i \notin {e.from, e.to}}
           B == [e \in T |-> edges[b][e]]
<1>1. M \in MapsOf(Node) /\ B \in BagsOf(Edge)
  BY DropMap, RestrictBag DEF GraphTyped
<1>2. /\ nodes' = [nodes EXCEPT ![b] = M]
      /\ edges' = [edges EXCEPT ![b] = B]
  BY DEF TerminateNode, Fades, GraphTyped
<1>3. DOMAIN M = DOMAIN nodes[b] \ {i} /\ \A j \in DOMAIN M : M[j] = nodes[b][j]
  OBVIOUS
<1>4. DOMAIN B = T /\ \A e \in T : B[e] = edges[b][e]
  OBVIOUS
<1> HIDE DEF M, B
<1>5. NodeFaded(b, i)
  BY <1>2, <1>3, <1>4 DEF NodeFaded, GraphTyped, In
<1>6. i \in In(b) \ gone[b] /\ i \in Ids
  BY NodeTyped DEF TerminateNode
<1>7. gone' = [gone EXCEPT ![b] = @ \cup {i}] /\ gone' \in [Bridges -> SUBSET Ids]
  BY <1>6 DEF TerminateNode, GraphTyped
<1>8. QED
  BY <1>1, <1>2, <1>5, <1>6, <1>7 DEF GraphTyped, TerminateNode

-----------------------------------------------------------------------------
(***************************************************************************)
(* The calls: what a helper carries from one critical section to the next. *)
(***************************************************************************)
OrNone == 0..MaxIds
Statuses == {"Split", "Abandoned", "Orphaned", "Overloaded", "Completed", "Unstarted",
             "Stalled", "Active"}
ContentsOf == UNION {[S -> Contents] : S \in SUBSET Ids}

MessageCalls == [op : {"message"}, at : {"write"}, content : Contents, fallback : BOOLEAN]
ReplayCalls ==
  [op : {"replay"}, at : {"next"}, done : SUBSET Ids, todo : SUBSET (Ids \X Node)]
DecisionCalls ==
  [op : {"decision"},
   at : {"identify", "thread", "attach", "count", "mark", "tie", "validate", "register"},
   id : Ids, seen : Nat, threaded : BOOLEAN, thread : OrNone, marker : OrNone]
OperatorCalls ==
  [op : {"operator"}, at : {"identify", "companion", "tie"}, id : Ids, companion : OrNone]
CheckCalls ==
  [op : {"check"}, at : {"find", "to", "answer"}, check : Checks, from : OrNone, to : OrNone,
   there : SUBSET Edge]
AuditCalls ==
  [op : {"audit"}, at : {"read"}, todo : SUBSET Ids, found : Nat, standing : SUBSET Ids]
ClaimCalls == [op : {"claim"}, at : {"write"}, content : Contents]
MergeCalls == [op : {"merge"}, at : {"back"}, from : Ids, to : Ids]
EvidenceCalls ==
  [op : {"evidence"}, at : {"write", "link"}, target : Ids, id : OrNone, content : Contents,
   fallback : BOOLEAN]
RelinkCalls ==
  [op : {"relink"}, at : {"next", "link"}, done : SUBSET Ids, evidence : OrNone,
   target : OrNone, todo : SUBSET (Ids \X Contents)]
QueryCalls ==
  [op : {"query"}, at : {"edges", "rows"}, todo : SUBSET Ids, split : SUBSET Ids,
   evidence : SUBSET Contents, intents : ContentsOf, claims : [Contents -> Nat],
   rows : SUBSET [id : Ids, status : Statuses], since : Nat]

Calls ==
  {Idle} \cup MessageCalls \cup ReplayCalls \cup DecisionCalls \cup OperatorCalls
  \cup CheckCalls \cup AuditCalls \cup ClaimCalls \cup MergeCalls \cup EvidenceCalls
  \cup RelinkCalls \cup QueryCalls

LEMMA OpCalls ==
  ASSUME NEW c \in Calls
  PROVE  /\ c.op = "idle" => c = Idle
         /\ c.op = "message" => c \in MessageCalls
         /\ c.op = "replay" => c \in ReplayCalls
         /\ c.op = "decision" => c \in DecisionCalls
         /\ c.op = "operator" => c \in OperatorCalls
         /\ c.op = "check" => c \in CheckCalls
         /\ c.op = "audit" => c \in AuditCalls
         /\ c.op = "claim" => c \in ClaimCalls
         /\ c.op = "merge" => c \in MergeCalls
         /\ c.op = "evidence" => c \in EvidenceCalls
         /\ c.op = "relink" => c \in RelinkCalls
         /\ c.op = "query" => c \in QueryCalls
BY DEF Calls, Idle, MessageCalls, ReplayCalls, DecisionCalls, OperatorCalls, CheckCalls,
       AuditCalls, ClaimCalls, MergeCalls, EvidenceCalls, RelinkCalls, QueryCalls

SidesTyped ==
  /\ held \in BagsOf(Ids) /\ delivered \in BagsOf(Ids)
  /\ known \in [Agents -> SUBSET Ids] /\ replayed \in [Agents -> SUBSET Ids]
  /\ triggers \in Nat
  /\ AnyContent \in Contents

Typed == GraphTyped /\ SidesTyped /\ call \in [Agents -> Calls]

-----------------------------------------------------------------------------
(***************************************************************************)
(* Induction over the natural numbers, for a set of them: a non-empty      *)
(* family of subsets of a finite set has a minimal member.                 *)
(***************************************************************************)
LEMMA MinimalSet ==
  ASSUME NEW S, IsFiniteSet(S), NEW F \in SUBSET SUBSET S, F # {}
  PROVE  \E x \in F : \A y \in F : y \subseteq x => y = x
<1>1. IsWellFoundedOn(StrictSubsetOrdering(S), SUBSET S)
  BY FS_StrictSubsetOrderingWellFounded, FS_FiniteSubsetsOfFinite
<1>2. PICK x \in F : \A y \in F : ~ (<<y, x>> \in StrictSubsetOrdering(S))
  BY <1>1, WFMin
<1>3. ASSUME NEW y \in F, y \subseteq x
      PROVE  y = x
  <2>1. ~ (<<y, x>> \in StrictSubsetOrdering(S))
    BY <1>2
  <2>2. <<y, x>> \in (SUBSET S) \X (SUBSET S)
    OBVIOUS
  <2>3. QED
    BY <1>3, <2>1, <2>2 DEF StrictSubsetOrdering
<1>4. QED
  BY <1>3

LEMMA NatSetInduction ==
  ASSUME NEW P \in SUBSET Nat, 0 \in P, \A n \in P : n + 1 \in P
  PROVE  P = Nat
<1> SUFFICES ASSUME NEW k \in Nat, k \notin P
             PROVE  FALSE
  OBVIOUS
<1> DEFINE F == {1..m : m \in (0..k) \ P}
           S == 1..k
<1>1. F \in SUBSET SUBSET S /\ F # {} /\ IsFiniteSet(S)
  <2>1. IsFiniteSet(S)
    BY FS_Interval
  <2>2. 1..k \in F
    OBVIOUS
  <2>3. F \subseteq SUBSET S
    OBVIOUS
  <2>4. QED
    BY <2>1, <2>2, <2>3
<1>2. PICK x \in F : \A y \in F : y \subseteq x => y = x
  <2> HIDE DEF F, S
  <2>1. QED
    BY <1>1, MinimalSet
<1>3. PICK m \in (0..k) \ P : x = 1..m
  OBVIOUS
<1>4. m # 0 /\ m - 1 \in 0..k /\ m - 1 \notin P
  <2>1. m # 0 /\ m - 1 \in Nat
    OBVIOUS
  <2>2. (m - 1) + 1 = m
    BY <2>1
  <2>3. QED
    BY <2>1, <2>2
<1>5. 1..(m - 1) \in F
  BY <1>4
<1>6. 1..(m - 1) \subseteq x /\ m \in x /\ m \notin 1..(m - 1)
  BY <1>3, <1>4
<1>7. QED
  BY <1>2, <1>5, <1>6

Iterates(f, S, A, x) == f \in [Nat -> S] /\ f[0] = x /\ \A n \in Nat : f[n + 1] = A[f[n]]

\* A map of a set into itself can be iterated.
LEMMA IteratesExist ==
  ASSUME NEW S, NEW A \in [S -> S], NEW x \in S
  PROVE  \E f : Iterates(f, S, A, x)
<1> DEFINE Upto(n) == {g \in [0..n -> S] : g[0] = x /\ \A k \in 0..(n - 1) : g[k + 1] = A[g[k]]}
           P == {n \in Nat : Upto(n) # {}}
<1>1. P = Nat
  <2>1. 0 \in P
    <3>1. [k \in 0..0 |-> x] \in Upto(0)
      OBVIOUS
    <3>2. QED
      BY <3>1
  <2>2. ASSUME NEW n \in P
        PROVE  n + 1 \in P
    <3>1. n \in Nat
      OBVIOUS
    <3>2. PICK g \in Upto(n) : TRUE
      OBVIOUS
    <3> DEFINE h == [k \in 0..(n + 1) |-> IF k <= n THEN g[k] ELSE A[g[n]]]
    <3>3. g \in [0..n -> S] /\ g[0] = x /\ \A k \in 0..(n - 1) : g[k + 1] = A[g[k]]
      OBVIOUS
    <3>4. h \in [0..(n + 1) -> S] /\ h[0] = x
      BY <3>1, <3>3
    <3>5. ASSUME NEW k \in 0..n
          PROVE  h[k + 1] = A[h[k]]
      <4>1. CASE k < n
        BY <3>1, <3>3, <4>1
      <4>2. CASE k = n
        BY <3>1, <3>3, <4>2
      <4>3. QED
        BY <3>1, <4>1, <4>2
    <3>6. h \in Upto(n + 1)
      <4> HIDE DEF h
      <4>1. (n + 1) - 1 = n
        BY <3>1
      <4>2. QED
        BY <3>4, <3>5, <4>1
    <3> HIDE DEF Upto
    <3>7. QED
      BY <3>1, <3>6
  <2> HIDE DEF P
  <2>3. P \in SUBSET Nat
    BY DEF P
  <2>4. QED
    BY <2>1, <2>2, <2>3, NatSetInduction
<1>2. ASSUME NEW n \in Nat, NEW m \in Nat, n <= m, NEW g \in Upto(n), NEW h \in Upto(m)
      PROVE  \A k \in 0..n : g[k] = h[k]
  <2> DEFINE Q == {k \in Nat : k <= n => g[k] = h[k]}
  <2>1. 0 \in Q
    OBVIOUS
  <2>2. ASSUME NEW k \in Q
        PROVE  k + 1 \in Q
    <3>1. CASE k + 1 <= n
      <4>1. k \in 0..(n - 1) /\ k \in 0..(m - 1) /\ g[k] = h[k]
        BY <1>2, <3>1
      <4>2. g[k + 1] = A[g[k]] /\ h[k + 1] = A[h[k]]
        BY <4>1
      <4>3. QED
        BY <4>1, <4>2
    <3>2. QED
      BY <3>1
  <2>3. Q \in SUBSET Nat
    OBVIOUS
  <2> HIDE DEF Q
  <2>4. Q = Nat
    BY <2>1, <2>2, <2>3, NatSetInduction
  <2> HIDE DEF Upto
  <2>5. ASSUME NEW k \in 0..n
        PROVE  g[k] = h[k]
    <3>1. k \in Q
      BY <2>4
    <3>2. QED
      BY <3>1 DEF Q
  <2>6. QED
    BY <2>5
<1> DEFINE f == [n \in Nat |-> (CHOOSE g \in Upto(n) : TRUE)[n]]
<1>3. \A n \in Nat : \E g \in Upto(n) : f[n] = g[n] /\ g = CHOOSE g1 \in Upto(n) : TRUE
  <2> HIDE DEF Upto
  <2>1. QED
    BY <1>1
<1>4. \A n \in Nat : f[n] \in S /\ (n = 0 => f[n] = x)
  <2> TAKE n \in Nat
  <2>1. PICK g \in Upto(n) : f[n] = g[n]
    BY <1>3
  <2>2. QED
    BY <2>1
<1>5. ASSUME NEW n \in Nat
      PROVE  f[n + 1] = A[f[n]]
  <2> HIDE DEF f
  <2>1. PICK g \in Upto(n) : f[n] = g[n]
    BY <1>3
  <2>2. PICK h \in Upto(n + 1) : f[n + 1] = h[n + 1]
    <3> HIDE DEF Upto
    <3>1. n + 1 \in Nat
      OBVIOUS
    <3>2. QED
      BY <1>3, <3>1
  <2>3. h[n + 1] = A[h[n]]
    OBVIOUS
  <2>4. g[n] = h[n]
    <3> HIDE DEF Upto
    <3>1. n + 1 \in Nat /\ n <= n + 1 /\ n \in 0..n
      OBVIOUS
    <3>2. \A k \in 0..n : g[k] = h[k]
      BY <1>2, <3>1
    <3>3. QED
      BY <3>1, <3>2
  <2>5. QED
    BY <2>1, <2>2, <2>3, <2>4
<1>6. f \in [Nat -> S]
  BY <1>4
<1> HIDE DEF f, Upto, P
<1>7. QED
  BY <1>4, <1>5, <1>6 DEF Iterates

\* traverse finds what a Thread edge ties to the node directly, and only ids.
LEMMA ReachedNeighbors ==
  ASSUME GraphTyped, NEW b \in Bridges, NEW i \in Ids
  PROVE  /\ Reached(b, i) \subseteq Ids
         /\ In(b) # {} =>
              \A e \in DOMAIN edges[b] : e.kind = "Thread" /\ i \in {e.from, e.to} =>
                {e.from, e.to} \ {i} \subseteq Reached(b, i)
<1> DEFINE tied == {e \in DOMAIN edges[b] : e.kind = "Thread"}
           around(s) == s \cup {e.to : e \in {e \in tied : e.from \in s}}
                          \cup {e.from : e \in {e \in tied : e.to \in s}}
           A == [s \in SUBSET Ids |-> around(s)]
           f == CHOOSE f : f = [n \in Nat |-> IF n = 0 THEN {i} ELSE around(f[n - 1])]
<1>1. tied \subseteq Edge /\ \A e \in tied : e.from \in Ids /\ e.to \in Ids
  BY NodeTyped DEF Edge
<1>2. A \in [SUBSET Ids -> SUBSET Ids]
  BY <1>1
<1>3. \E g : g = [n \in Nat |-> IF n = 0 THEN {i} ELSE around(g[n - 1])]
  <2>1. PICK g \in [Nat -> SUBSET Ids] : g[0] = {i} /\ \A n \in Nat : g[n + 1] = A[g[n]]
    <3> DEFINE S == SUBSET Ids
    <3>1. A \in [S -> S] /\ {i} \in S
      BY <1>2
    <3> HIDE DEF A, S
    <3>2. PICK g : Iterates(g, S, A, {i})
      BY <3>1, IteratesExist
    <3>3. QED
      BY <3>2 DEF Iterates, S
  <2>2. ASSUME NEW n \in Nat
        PROVE  g[n] = IF n = 0 THEN {i} ELSE around(g[n - 1])
    <3>1. CASE n = 0
      BY <2>1, <3>1
    <3>2. CASE n # 0
      <4>1. n - 1 \in Nat /\ (n - 1) + 1 = n
        BY <3>2
      <4>2. g[n] = A[g[n - 1]] /\ g[n - 1] \in SUBSET Ids
        BY <2>1, <4>1
      <4>3. QED
        BY <3>2, <4>2
    <3>3. QED
      BY <3>1, <3>2
  <2> HIDE DEF around
  <2>3. g = [n \in Nat |-> IF n = 0 THEN {i} ELSE around(g[n - 1])]
    BY <2>1, <2>2
  <2>4. QED
    BY <2>3
<1>4. f = [n \in Nat |-> IF n = 0 THEN {i} ELSE around(f[n - 1])]
  <2> HIDE DEF around
  <2>1. QED
    BY <1>3
<1>5. Reached(b, i) = f[Cardinality(In(b))] \ {i}
  BY DEF Reached
<1> HIDE DEF f
<1>6. f[0] = {i} /\ \A n \in Nat : f[n + 1] = around(f[n])
  <2> HIDE DEF around
  <2>1. \A n \in Nat : f[n] = IF n = 0 THEN {i} ELSE around(f[n - 1])
    BY <1>4
  <2>2. ASSUME NEW n \in Nat
        PROVE  f[n + 1] = around(f[n])
    <3>1. n + 1 \in Nat /\ n + 1 # 0 /\ (n + 1) - 1 = n
      OBVIOUS
    <3>2. f[n + 1] = around(f[(n + 1) - 1])
      BY <2>1, <3>1
    <3>3. QED
      BY <3>1, <3>2
  <2>3. QED
    BY <2>1, <2>2
<1>7. \A n \in Nat : f[n] \subseteq Ids
  <2> DEFINE P == {n \in Nat : f[n] \subseteq Ids}
  <2>1. 0 \in P
    BY <1>6
  <2>2. \A n \in P : n + 1 \in P
    BY <1>1, <1>6
  <2>3. P \in SUBSET Nat
    OBVIOUS
  <2> HIDE DEF P
  <2>4. P = Nat
    BY <2>1, <2>2, <2>3, NatSetInduction
  <2>5. QED
    BY <2>4 DEF P
<1>8. ASSUME NEW e \in tied, i \in {e.from, e.to}
      PROVE  \A n \in Nat : {e.from, e.to} \subseteq f[n + 1]
  <2> DEFINE P == {n \in Nat : {e.from, e.to} \subseteq f[n + 1]}
  <2>1. 0 \in P
    BY <1>6, <1>8
  <2>2. \A n \in P : n + 1 \in P
    BY <1>6
  <2>3. P \in SUBSET Nat
    OBVIOUS
  <2> HIDE DEF P
  <2>4. P = Nat
    BY <2>1, <2>2, <2>3, NatSetInduction
  <2>5. QED
    BY <2>4 DEF P
<1>9. Cardinality(In(b)) \in Nat /\ (In(b) # {} => Cardinality(In(b)) - 1 \in Nat)
  <2>1. IsFiniteSet(In(b))
    BY NodeTyped, IdsAreNaturals, FS_Subset
  <2>2. QED
    BY <2>1, FS_CardinalityType, FS_EmptySet
<1>10. ASSUME NEW e \in tied, i \in {e.from, e.to}, In(b) # {}
       PROVE  {e.from, e.to} \subseteq f[Cardinality(In(b))]
  <2>1. (Cardinality(In(b)) - 1) + 1 = Cardinality(In(b))
    BY <1>9
  <2>2. QED
    BY <1>8, <1>9, <1>10, <2>1
<1>11. QED
  BY <1>5, <1>7, <1>9, <1>10

-----------------------------------------------------------------------------
(***************************************************************************)
(* The steps.  A step of an agent belongs to the one helper it is in, and  *)
(* does one of three things to the graph.                                  *)
(***************************************************************************)
EdgeKinds == {"Thread", "DerivedFrom", "Fulfills", "SplitFrom", "ConvergedWith"}

Still == UNCHANGED <<nodes, edges, fresh, inbox>>

Made(b, n) ==
  /\ fresh \in Ids /\ n \in Node
  /\ NodeIsNow(b, fresh, n) /\ fresh' = fresh + 1 /\ edges' = edges
  /\ inbox' = IF b = "comms" /\ IsMessage(n)
              THEN inbox (+) SetToBag({[id |-> fresh, content |-> n.content]}) ELSE inbox

Tied(b, e) ==
  /\ e \in Edge /\ e.from # e.to /\ {e.from, e.to} \subseteq In(b)
  /\ EdgeAdded(b, e) /\ UNCHANGED <<nodes, fresh, inbox>>

\* What returns without a thread, a companion, an audit or a check.
Plain(r) == DOMAIN r.result \subseteq {"ok", "id"}
Verbose == {"decision", "operator", "check", "audit"}

StepOf(a, f) ==
  /\ Typed'
  /\ call' \in [Agents -> Calls] /\ \A d \in Agents \ {a} : call'[d] = call[d]
  /\ {call[a].op, call'[a].op} \subseteq {"idle", f}
  /\ UNCHANGED <<gone, shut, triggers, held, delivered>>
  /\ f # "replay" => known' = known
  /\ f # "relink" => replayed' = replayed
  /\ f # "decision" => open' = open
  /\ returned \subseteq returned'
  /\ \A r \in returned' \ returned :
       r.op \in {"idle", f} /\ ((r.op = "idle" \/ f \notin Verbose) => Plain(r))

NodeKinds == {"thread", "item", "message", "decision", "marker", "companion", "intent", "claim",
              "evidence"}

LEMMA KindsAreNodes ==
  ASSUME NEW k \in NodeKinds, NEW c \in Contents
  PROVE  /\ Kind(k, c) \in Node
         /\ Kind(k, c) = [kind |-> k, content |-> c, about |-> 0, flagged |-> FALSE]
BY AgentCallsAssumption DEF Kind, Node, NodeKinds

LEMMA AboutsAreNodes ==
  ASSUME NEW k \in NodeKinds, NEW c \in Contents, NEW i \in 0..MaxIds
  PROVE  /\ About(k, c, i) \in Node /\ About(k, c, i).kind = k
         /\ About(k, c, i).content = c /\ About(k, c, i).about = i
         /\ ~ About(k, c, i).flagged
<1>1. Kind(k, c) \in Node /\ Kind(k, c) = [kind |-> k, content |-> c, about |-> 0, flagged |-> FALSE]
  BY KindsAreNodes
<1>2. ASSUME NEW n \in Node
      PROVE  LET m == [n EXCEPT !.about = i] IN
             /\ m \in Node /\ m.kind = n.kind /\ m.content = n.content /\ m.about = i
             /\ m.flagged = n.flagged
  BY DEF Node
<1>3. QED
  BY <1>1, <1>2 DEF About

LEMMA FlagsOfNodes ==
  ASSUME NEW n \in Node
  PROVE  /\ \A m \in {Fallback(n), [n EXCEPT !.flagged = FALSE]} :
              m \in Node /\ m.kind = n.kind /\ m.content = n.content /\ m.about = n.about
         /\ Fallback(n).flagged /\ ~ [n EXCEPT !.flagged = FALSE].flagged
BY DEF Fallback, Node

LEMMA CreateMade ==
  ASSUME GraphTyped, NEW b \in Bridges, NEW r, NEW n \in Node, fresh <= MaxIds,
         Create(b, r, fresh, n)
  PROVE  GraphTyped' /\ Made(b, n) /\ UNCHANGED <<gone, shut, open>>
<1>1. fresh \in Ids /\ fresh <= fresh
  BY AgentCallsAssumption DEF GraphTyped, Ids
<1>2. GraphTyped' /\ NodeIsNow(b, fresh, n) /\ fresh' = fresh + 1
  BY <1>1, CreateTyped
<1>3. QED
  BY <1>1, <1>2 DEF Made, Create

LEMMA LinkTied ==
  ASSUME GraphTyped, NEW b \in Bridges, NEW i, NEW j, NEW k \in EdgeKinds,
         CanLink(b, i, j), AddEdge(b, i, j, k)
  PROVE  /\ GraphTyped' /\ Tied(b, [from |-> i, to |-> j, kind |-> k])
         /\ UNCHANGED <<gone, shut, open>>
<1>1. i \in Ids /\ j \in Ids /\ i # j /\ {i, j} \subseteq In(b)
  BY NodeTyped DEF CanLink
<1>2. [from |-> i, to |-> j, kind |-> k] \in Edge
  BY <1>1 DEF Edge, EdgeKinds
<1>3. GraphTyped' /\ EdgeAdded(b, [from |-> i, to |-> j, kind |-> k])
  BY <1>1, <1>2, AddEdgeTyped
<1>4. QED
  BY <1>1, <1>2, <1>3 DEF Tied, AddEdge

LEMMA RelateTied ==
  ASSUME GraphTyped, NEW b \in Bridges, NEW i, NEW j, NEW k \in EdgeKinds, Relate(b, i, j, k)
  PROVE  /\ GraphTyped' /\ UNCHANGED <<gone, shut, open>>
         /\ \/ Still /\ (CanLink(b, i, j) => "comms" \in shut)
            \/ Tied(b, [from |-> i, to |-> j, kind |-> k])
<1>1. CASE CanLink(b, i, j) /\ "comms" \notin shut
  BY <1>1, LinkTied DEF Relate
<1>2. CASE ~ (CanLink(b, i, j) /\ "comms" \notin shut)
  BY <1>2 DEF Relate, GraphTyped, graph, Still
<1>3. QED
  BY <1>1, <1>2

LEMMA SetCall ==
  ASSUME NEW a \in Agents, call \in [Agents -> Calls], NEW c \in Calls, Set(a, c)
  PROVE  /\ call' \in [Agents -> Calls] /\ call'[a] = c
         /\ \A d \in Agents \ {a} : call'[d] = call[d]
BY DEF Set

LEMMA ReturnCall ==
  ASSUME NEW a \in Agents, call \in [Agents -> Calls], NEW x, Return(a, x)
  PROVE  /\ call' \in [Agents -> Calls] /\ call'[a] = Idle /\ call'[a].op = "idle"
         /\ \A d \in Agents \ {a} : call'[d] = call[d]
         /\ returned \subseteq returned'
         /\ \A r \in returned' \ returned :
              r.op = call[a].op /\ r.agent = a /\ r.result = x
BY DEF Return, Set, Calls, Idle

LEMMA RefusedCall ==
  ASSUME NEW a \in Agents, call \in [Agents -> Calls], Refused(a)
  PROVE  /\ call' \in [Agents -> Calls] /\ call'[a] = Idle /\ call'[a].op = "idle"
         /\ \A d \in Agents \ {a} : call'[d] = call[d]
         /\ returned \subseteq returned'
         /\ \A r \in returned' \ returned :
              r.op = call[a].op /\ Plain(r) /\ r.result = [ok |-> FALSE]
         /\ UNCHANGED graph
BY ReturnCall DEF Refused, Plain

LEMMA SameGraph ==
  ASSUME Typed, UNCHANGED graph
  PROVE  GraphTyped' /\ Still /\ UNCHANGED <<gone, shut, open>>
BY DEF Typed, GraphTyped, graph, Still

\* The graph, the calls and the sides, put together.
LEMMA MakesStep ==
  ASSUME Typed, NEW a \in Agents, NEW f,
         GraphTyped', call' \in [Agents -> Calls],
         \A d \in Agents \ {a} : call'[d] = call[d],
         {call[a].op, call'[a].op} \subseteq {"idle", f},
         UNCHANGED <<gone, shut, open, triggers, held, delivered, known, replayed>>,
         returned \subseteq returned',
         \A r \in returned' \ returned :
           r.op = call[a].op /\ ((call[a].op = "idle" \/ f \notin Verbose) => Plain(r))
  PROVE  StepOf(a, f)
<1>1. SidesTyped' /\ Typed'
  BY DEF Typed, SidesTyped
<1>2. QED
  BY <1>1 DEF StepOf

\* What the sides keep but for a replay, and the bound on the triggers.
Aside == UNCHANGED <<triggers, held, delivered, known, replayed>>

LEMMA SetStep ==
  ASSUME Typed, NEW a \in Agents, NEW f, NEW c \in Calls, Set(a, c),
         {call[a].op, c.op} \subseteq {"idle", f}, UNCHANGED <<graph, returned>>, Aside
  PROVE  StepOf(a, f) /\ Still /\ UNCHANGED <<open, returned>> /\ call'[a] = c
<1>1. call' \in [Agents -> Calls] /\ call'[a] = c /\ \A d \in Agents \ {a} : call'[d] = call[d]
  BY SetCall DEF Typed
<1>2. GraphTyped' /\ Still /\ UNCHANGED <<gone, shut, open>>
  BY SameGraph
<1>3. QED
  BY <1>1, <1>2, MakesStep DEF Aside

LEMMA MadeStep ==
  ASSUME Typed, NEW a \in Agents, NEW f, NEW c \in Calls, Set(a, c),
         {call[a].op, c.op} \subseteq {"idle", f}, returned' = returned, Aside,
         NEW b \in Bridges, NEW r, NEW n \in Node, fresh <= MaxIds, Create(b, r, fresh, n)
  PROVE  StepOf(a, f) /\ Made(b, n) /\ UNCHANGED <<open, returned>> /\ call'[a] = c
<1>1. call' \in [Agents -> Calls] /\ call'[a] = c /\ \A d \in Agents \ {a} : call'[d] = call[d]
  BY SetCall DEF Typed
<1>2. GraphTyped' /\ Made(b, n) /\ UNCHANGED <<gone, shut, open>>
  BY CreateMade DEF Typed
<1>3. QED
  BY <1>1, <1>2, MakesStep DEF Aside

\* A return: of a helper whose results are plain, or not.
Returns(a, x) ==
  /\ call'[a] = Idle /\ call'[a].op = "idle"
  /\ returned \subseteq returned'
  /\ \A r \in returned' \ returned : r.op = call[a].op /\ r.result = x

LEMMA ReturnStep ==
  ASSUME Typed, NEW a \in Agents, NEW f, NEW x, Return(a, x), call[a].op = f,
         f \in Verbose \/ DOMAIN x \subseteq {"ok", "id"}, UNCHANGED graph, Aside
  PROVE  StepOf(a, f) /\ Still /\ open' = open /\ Returns(a, x)
<1>1. /\ call' \in [Agents -> Calls] /\ call'[a] = Idle /\ call'[a].op = "idle"
      /\ \A d \in Agents \ {a} : call'[d] = call[d]
      /\ returned \subseteq returned'
      /\ \A r \in returned' \ returned : r.op = call[a].op /\ r.result = x
  BY ReturnCall DEF Typed
<1>2. GraphTyped' /\ Still /\ UNCHANGED <<gone, shut, open>>
  BY SameGraph
<1>3. "idle" \notin Verbose
  BY DEF Verbose
<1>4. \A r \in returned' \ returned :
        r.op = call[a].op /\ ((call[a].op = "idle" \/ f \notin Verbose) => Plain(r))
  BY <1>1, <1>3 DEF Plain
<1>5. QED
  BY <1>1, <1>2, <1>4, MakesStep DEF Aside, Returns

LEMMA RefusedStep ==
  ASSUME Typed, NEW a \in Agents, NEW f, Refused(a), call[a].op \in {"idle", f}, Aside
  PROVE  StepOf(a, f) /\ Still /\ open' = open /\ Returns(a, [ok |-> FALSE])
<1>1. /\ call' \in [Agents -> Calls] /\ call'[a] = Idle /\ call'[a].op = "idle"
      /\ \A d \in Agents \ {a} : call'[d] = call[d]
      /\ returned \subseteq returned'
      /\ \A r \in returned' \ returned :
           r.op = call[a].op /\ Plain(r) /\ r.result = [ok |-> FALSE]
      /\ UNCHANGED graph
  BY RefusedCall DEF Typed
<1>2. GraphTyped' /\ Still /\ UNCHANGED <<gone, shut, open>>
  BY <1>1, SameGraph
<1>3. QED
  BY <1>1, <1>2, MakesStep DEF Aside, Returns

\* An edge or none, and a return or the next section.
LEMMA RelateStep ==
  ASSUME Typed, NEW a \in Agents, NEW f, NEW i, NEW j, NEW k \in EdgeKinds, Aside,
         Relate("comms", i, j, k), call[a].op = f,
         \/ \E c \in Calls : c.op = f /\ Set(a, c) /\ returned' = returned
         \/ f \in Verbose /\ \E x : Return(a, x)
  PROVE  /\ StepOf(a, f) /\ open' = open
         /\ \/ Still /\ (CanLink("comms", i, j) => "comms" \in shut)
            \/ Tied("comms", [from |-> i, to |-> j, kind |-> k])
<1>1. /\ GraphTyped' /\ UNCHANGED <<gone, shut, open>>
      /\ \/ Still /\ (CanLink("comms", i, j) => "comms" \in shut)
         \/ Tied("comms", [from |-> i, to |-> j, kind |-> k])
  BY RelateTied DEF Typed, Bridges
<1>2. CASE \E c \in Calls : c.op = f /\ Set(a, c) /\ returned' = returned
  <2>1. PICK c \in Calls : c.op = f /\ Set(a, c) /\ returned' = returned
    BY <1>2
  <2>2. call' \in [Agents -> Calls] /\ call'[a] = c /\ \A d \in Agents \ {a} : call'[d] = call[d]
    BY <2>1, SetCall DEF Typed
  <2>3. QED
    BY <1>1, <2>1, <2>2, MakesStep DEF Aside
<1>3. CASE f \in Verbose /\ \E x : Return(a, x)
  <2>1. PICK x : Return(a, x)
    BY <1>3
  <2>2. /\ call' \in [Agents -> Calls] /\ call'[a].op = "idle"
        /\ \A d \in Agents \ {a} : call'[d] = call[d]
        /\ returned \subseteq returned' /\ \A r \in returned' \ returned : r.op = call[a].op
    BY <2>1, ReturnCall DEF Typed
  <2>3. "idle" \notin Verbose
    BY DEF Verbose
  <2>4. QED
    BY <1>1, <1>3, <2>2, <2>3, MakesStep DEF Aside
<1>4. QED
  BY <1>2, <1>3

-----------------------------------------------------------------------------
(***************************************************************************)
(* What a step of each helper does.                                        *)
(***************************************************************************)
MessageStep(a) ==
  /\ \/ \E c \in Contents, degraded \in BOOLEAN : SubmitMessage(a, c, degraded)
     \/ WriteMessage(a)
  /\ UNCHANGED replayed

LEMMA MessageSteps ==
  ASSUME Typed, NEW a \in Agents, MessageStep(a)
  PROVE  /\ StepOf(a, "message")
         /\ Still \/ \E b \in Bridges : \E n \in Node :
                       Made(b, n) /\ n.kind = "message" /\ (n.flagged <=> b = "ops")
<1>1. GraphTyped /\ call \in [Agents -> Calls] /\ UNCHANGED <<known, held, delivered, replayed>>
  BY DEF Typed, MessageStep, SubmitMessage, WriteMessage, commsVars
<1>2. CASE \E c \in Contents, degraded \in BOOLEAN : SubmitMessage(a, c, degraded)
  <2>1. PICK c \in Contents, degraded \in BOOLEAN : SubmitMessage(a, c, degraded)
    BY <1>2
  <2> DEFINE x == [op |-> "message", at |-> "write", content |-> c,
                   fallback |-> degraded \/ "comms" \in shut]
  <2>2. x \in Calls /\ x.op = "message"
    BY DEF Calls, MessageCalls
  <2>3. /\ Set(a, x) /\ call[a].op = "idle" /\ UNCHANGED <<graph, returned, triggers>>
    BY <2>1 DEF SubmitMessage, Starts, Idle
  <2> HIDE DEF x
  <2>4. call' \in [Agents -> Calls] /\ call'[a] = x /\ \A d \in Agents \ {a} : call'[d] = call[d]
    BY <1>1, <2>2, <2>3, SetCall
  <2>5. GraphTyped' /\ Still /\ UNCHANGED <<gone, shut, open>>
    BY <2>3, SameGraph
  <2>6. QED
    BY <1>1, <2>2, <2>3, <2>4, <2>5, MakesStep
<1>3. CASE WriteMessage(a)
  <2> DEFINE n == MessageNode(call[a].content)
  <2>1. call[a].op = "message" /\ call[a].content \in Contents /\ triggers' = triggers
    BY <1>1, <1>3, OpCalls DEF WriteMessage, At, bounds, MessageCalls
  <2>2. /\ n \in Node /\ n.kind = "message" /\ ~ n.flagged
        /\ Fallback(n) \in Node /\ Fallback(n).kind = "message" /\ Fallback(n).flagged
    <3>1. n \in Node /\ n.kind = "message" /\ ~ n.flagged
      BY <2>1, KindsAreNodes DEF MessageNode, NodeKinds
    <3>2. QED
      BY <3>1, FlagsOfNodes
  <2>3. \/ Writes(a, "ops", "ops", Fallback(n), Return(a, [ok |-> TRUE, id |-> fresh]))
        \/ Writes(a, "comms", "comms", n, Return(a, [ok |-> TRUE, id |-> fresh]))
    BY <1>3 DEF WriteMessage
  <2> HIDE DEF n
  <2>4. CASE Refused(a)
    BY <1>1, <2>1, <2>4, RefusedCall, SameGraph, MakesStep
  <2>5. ASSUME NEW b \in Bridges, NEW m \in Node, m.kind = "message", m.flagged <=> b = "ops",
               fresh <= MaxIds, Create(b, b, fresh, m), Return(a, [ok |-> TRUE, id |-> fresh])
        PROVE  StepOf(a, "message") /\ Made(b, m)
    <3>1. GraphTyped' /\ Made(b, m) /\ UNCHANGED <<gone, shut, open>>
      BY <1>1, <2>5, CreateMade
    <3>2. /\ call' \in [Agents -> Calls] /\ call'[a].op = "idle"
          /\ \A d \in Agents \ {a} : call'[d] = call[d]
          /\ returned \subseteq returned'
          /\ \A r \in returned' \ returned :
               r.op = call[a].op /\ r.result = [ok |-> TRUE, id |-> fresh]
      BY <1>1, <2>5, ReturnCall
    <3>3. \A r \in returned' \ returned : r.op = call[a].op /\ Plain(r)
      BY <3>2 DEF Plain
    <3>4. QED
      BY <1>1, <2>1, <3>1, <3>2, <3>3, MakesStep
  <2>6. QED
    BY <2>2, <2>3, <2>4, <2>5 DEF Writes, Bridges
<1>4. QED
  BY <1>2, <1>3 DEF MessageStep

\* A node once made stays known to its bridge.
Held(b) == In(b) \cup gone[b]

\* A message that is replayed: node i of comms is now n.
Rewrote(i, n) ==
  /\ i \in Ids /\ i < fresh /\ n \in Node /\ IsMessage(n)
  /\ NodeIsNow("comms", i, n) /\ UNCHANGED <<edges, fresh>>
  /\ inbox' = inbox (+) SetToBag({[id |-> i, content |-> n.content]})

\* What a replay still has to write are messages of the operational bridge.
TodoHeld(a) ==
  call[a].op = "replay" =>
    \A x \in call[a].todo : x[1] \in Held("ops") /\ x[1] < fresh /\ x[2].kind = "message"

ReplayStep(a) == (ReplayMessages(a) \/ ReplayNext(a)) /\ UNCHANGED replayed

ReplayWrites(a, x) ==
  /\ x \in call[a].todo
  /\ Create("comms", "comms", x[1], [x[2] EXCEPT !.flagged = FALSE])
  /\ Set(a, [call[a] EXCEPT !.todo = @ \ {x}, !.done = @ \cup {x[1]}])
  /\ UNCHANGED <<returned, known>>

LEMMA ReplayWriteStep ==
  ASSUME Typed, NEW a \in Agents, TodoHeld(a), call[a].op = "replay", UNCHANGED <<replayed, projection, triggers>>,
         NEW x, ReplayWrites(a, x)
  PROVE  /\ StepOf(a, "replay") /\ call'[a] = [call[a] EXCEPT !.todo = @ \ {x}, !.done = @ \cup {x[1]}]
         /\ call'[a] \in ReplayCalls
         /\ call'[a].todo = call[a].todo \ {x} /\ call'[a].done = call[a].done \cup {x[1]}
         /\ \E n \in Node : Rewrote(x[1], n) /\ n.content = x[2].content
<1> DEFINE y == [call[a] EXCEPT !.todo = @ \ {x}, !.done = @ \cup {x[1]}]
           n == [x[2] EXCEPT !.flagged = FALSE]
<1>1. GraphTyped /\ call \in [Agents -> Calls] /\ call[a] \in ReplayCalls
  BY OpCalls DEF Typed
<1>2. /\ x \in call[a].todo /\ x[1] \in Ids /\ x[1] < fresh
      /\ x[2] \in Node /\ x[2].kind = "message"
  BY <1>1 DEF ReplayWrites, ReplayCalls, TodoHeld
<1>3. y \in ReplayCalls /\ y.todo = call[a].todo \ {x} /\ y.done = call[a].done \cup {x[1]}
  BY <1>1, <1>2 DEF ReplayCalls
<1>4. y \in Calls /\ y.op = "replay"
  BY <1>3 DEF Calls, ReplayCalls
<1>5. /\ n \in Node /\ n.kind = "message" /\ n.content = x[2].content /\ ~ n.flagged
  BY <1>2, FlagsOfNodes
<1> HIDE DEF y, n
<1>6. Set(a, y) /\ Create("comms", "comms", x[1], n) /\ UNCHANGED <<returned, known>>
  BY DEF ReplayWrites, y, n
<1>7. call' \in [Agents -> Calls] /\ call'[a] = y /\ \A d \in Agents \ {a} : call'[d] = call[d]
  BY <1>1, <1>4, <1>6, SetCall
<1>8. fresh \in Nat /\ x[1] <= fresh /\ x[1] # fresh
  BY <1>1, <1>2, AgentCallsAssumption DEF GraphTyped, Ids
<1>9. GraphTyped' /\ NodeIsNow("comms", x[1], n) /\ fresh' = fresh
  BY <1>1, <1>2, <1>5, <1>6, <1>8, CreateTyped DEF Bridges
<1>10. Rewrote(x[1], n) /\ UNCHANGED <<gone, shut, open>>
  BY <1>2, <1>5, <1>6, <1>9 DEF Rewrote, Create, IsMessage
<1>11. StepOf(a, "replay")
  BY <1>1, <1>4, <1>6, <1>7, <1>9, <1>10, MakesStep DEF projection
<1>12. QED
  BY <1>3, <1>5, <1>7, <1>10, <1>11 DEF y

LEMMA ReplaySteps ==
  ASSUME Typed, NEW a \in Agents, TodoHeld(a), ReplayStep(a)
  PROVE  /\ StepOf(a, "replay") /\ call'[a].op \in {"idle", "replay"}
         /\ Still \/ \E x \in call[a].todo, n \in Node : call[a].op = "replay" /\ Rewrote(x[1], n)
<1>1. GraphTyped /\ call \in [Agents -> Calls] /\ UNCHANGED <<held, delivered, replayed>>
  BY DEF Typed, ReplayStep, ReplayMessages, ReplayNext, commsVars, projection
<1>2. CASE ReplayMessages(a)
  <2> DEFINE x == [op |-> "replay", at |-> "next", done |-> {},
                   todo |-> {<<i, nodes["ops"][i]>> : i \in Candidates(a)}]
  <2>1. \A i \in Candidates(a) : i \in Ids /\ nodes["ops"][i] \in Node
    BY <1>1, NodeTyped DEF Candidates, OfKind, Bridges
  <2>2. x \in Calls /\ x.op = "replay"
    BY <2>1 DEF Calls, ReplayCalls
  <2>3. Set(a, x) /\ call[a].op = "idle" /\ UNCHANGED <<graph, returned, triggers, known>>
    BY <1>2 DEF ReplayMessages, Starts, Idle, commsVars
  <2> HIDE DEF x
  <2>4. call' \in [Agents -> Calls] /\ call'[a] = x /\ \A d \in Agents \ {a} : call'[d] = call[d]
    BY <1>1, <2>2, <2>3, SetCall
  <2>5. GraphTyped' /\ Still /\ UNCHANGED <<gone, shut, open>>
    BY <2>3, SameGraph
  <2>6. QED
    BY <1>1, <2>2, <2>3, <2>4, <2>5, MakesStep
<1>3. CASE ReplayNext(a)
  <2>1. call[a].op = "replay" /\ triggers' = triggers /\ call[a] \in ReplayCalls
    BY <1>1, <1>3, OpCalls DEF ReplayNext, At, bounds
  <2>2. \/ \E x \in call[a].todo : ReplayWrites(a, x)
        \/ Refused(a) /\ known' = known
        \/ /\ known' = [known EXCEPT ![a] = @ \cup call[a].done]
           /\ Return(a, [ok |-> TRUE]) /\ UNCHANGED graph
    BY <1>3 DEF ReplayNext, ReplayStops, ReplayWrites
  <2>3. CASE \E x \in call[a].todo : ReplayWrites(a, x)
    BY <1>1, <2>1, <2>3, ReplayWriteStep DEF ReplayCalls, projection
  <2>4. CASE Refused(a) /\ known' = known
    BY <1>1, <2>1, <2>4, RefusedCall, SameGraph, MakesStep
  <2>5. CASE /\ known' = [known EXCEPT ![a] = @ \cup call[a].done]
             /\ Return(a, [ok |-> TRUE]) /\ UNCHANGED graph
    <3>1. GraphTyped' /\ Still /\ UNCHANGED <<gone, shut, open>>
      BY <2>5, SameGraph
    <3>2. /\ call' \in [Agents -> Calls] /\ call'[a].op = "idle"
          /\ \A d \in Agents \ {a} : call'[d] = call[d]
          /\ returned \subseteq returned'
          /\ \A r \in returned' \ returned : r.op = call[a].op /\ r.result = [ok |-> TRUE]
      BY <1>1, <2>5, ReturnCall
    <3>3. \A r \in returned' \ returned : r.op = call[a].op /\ Plain(r)
      BY <3>2 DEF Plain
    <3>4. Typed'
      BY <1>1, <2>1, <2>5, <3>1, <3>2 DEF Typed, SidesTyped, ReplayCalls
    <3>5. QED
      BY <1>1, <2>1, <2>5, <3>1, <3>2, <3>3, <3>4 DEF StepOf
  <2>6. QED
    BY <2>2, <2>3, <2>4, <2>5
<1>4. QED
  BY <1>2, <1>3 DEF ReplayStep

DecisionAts == {"identify", "thread", "attach", "count", "mark", "tie", "validate", "register"}

LEMMA DecisionMoves ==
  ASSUME NEW c \in DecisionCalls, NEW s \in DecisionAts
  PROVE  /\ [c EXCEPT !.at = s] \in Calls
         /\ [c EXCEPT !.at = s].op = "decision" /\ [c EXCEPT !.at = s].at = s
         /\ [c EXCEPT !.at = s].id = c.id /\ [c EXCEPT !.at = s].thread = c.thread
         /\ [c EXCEPT !.at = s].marker = c.marker
BY DEF DecisionCalls, DecisionAts, Calls

Found(c, i) == [c EXCEPT !.at = "attach", !.thread = i]
Marked(c, i, s) == [c EXCEPT !.marker = i, !.at = s]
Counted(c, n, s) == [c EXCEPT !.seen = n, !.at = s]

LEMMA DecisionSets ==
  ASSUME NEW c \in DecisionCalls, NEW s \in DecisionAts, NEW i \in OrNone, NEW n \in Nat
  PROVE  /\ \A d \in {Found(c, i), Marked(c, i, s), Counted(c, n, s)} :
              d \in Calls /\ d.op = "decision" /\ d.id = c.id
         /\ Found(c, i).at = "attach" /\ Found(c, i).thread = i
         /\ Marked(c, i, s).at = s /\ Marked(c, i, s).thread = c.thread
         /\ Marked(c, i, s).marker = i
         /\ Counted(c, n, s).at = s /\ Counted(c, n, s).thread = c.thread
<1>1. Found(c, i) \in DecisionCalls /\ Found(c, i).op = "decision" /\ Found(c, i).id = c.id
  BY DEF Found, DecisionCalls, DecisionAts
<1>2. Marked(c, i, s) \in DecisionCalls /\ Marked(c, i, s).op = "decision" /\ Marked(c, i, s).id = c.id
  BY DEF Marked, DecisionCalls, DecisionAts
<1>3. Counted(c, n, s) \in DecisionCalls /\ Counted(c, n, s).op = "decision" /\ Counted(c, n, s).id = c.id
  BY DEF Counted, DecisionCalls, DecisionAts
<1>4. /\ Found(c, i).at = "attach" /\ Found(c, i).thread = i
      /\ Marked(c, i, s).at = s /\ Marked(c, i, s).thread = c.thread
      /\ Marked(c, i, s).marker = i
      /\ Counted(c, n, s).at = s /\ Counted(c, n, s).thread = c.thread
  BY DEF Found, Marked, Counted, DecisionCalls
<1>5. DecisionCalls \subseteq Calls
  BY DEF Calls
<1>6. QED
  BY <1>1, <1>2, <1>3, <1>4, <1>5

DecisionStep(a) ==
  /\ \/ \E threaded \in BOOLEAN : Decide(a, threaded)
     \/ At(a, "decision", "identify") /\ Identify(a)
     \/ FindThread(a) \/ Attach(a) \/ CountCheckouts(a) \/ MarkConflict(a) \/ TieMarker(a)
     \/ ValidateCheckout(a) \/ RegisterCheckout(a)
  /\ UNCHANGED replayed

\* The call goes on at section s, about the same message.
Moves(a, s) ==
  /\ call'[a].op = "decision" /\ call'[a].at = s /\ call'[a].id = call[a].id
  /\ returned' = returned

\* What each section of decide does, by what it changes.
DecisionEffect(a) ==
  \/ Still /\ open' = open /\ Returns(a, [ok |-> FALSE])
  \/ /\ Made("comms", About("decision", AnyContent, Item)) /\ UNCHANGED <<open, returned>>
     /\ call'[a].op = "decision" /\ call'[a].at = "identify"
     /\ call'[a].id = fresh /\ call'[a].thread = 0
  \/ /\ call[a].op = "decision"
     /\ \/ /\ call[a].at = "identify" /\ Still /\ open' = open
           /\ \E s \in {"thread", "count"} : Moves(a, s) /\ call'[a].thread = call[a].thread
        \/ /\ call[a].at = "identify" /\ Still /\ open' = open /\ call[a].id \notin In("comms")
           /\ Returns(a, [panicked |-> call[a].id])
        \/ /\ call[a].at = "thread" /\ Still /\ open' = open
           /\ \/ Moves(a, "attach") /\ call'[a].thread \in OfKind("comms", "thread")
              \/ Moves(a, "count") /\ call'[a].thread = call[a].thread
        \/ /\ call[a].at = "attach" /\ open' = open
           /\ Moves(a, "count") /\ call'[a].thread = call[a].thread
           /\ \/ Still /\ (CanLink("comms", call[a].id, call[a].thread) => "comms" \in shut)
              \/ Tied("comms", [from |-> call[a].id, to |-> call[a].thread, kind |-> "Thread"])
        \/ /\ call[a].at = "count" /\ Still /\ open' = open /\ call'[a].thread = call[a].thread
           /\ Moves(a, IF open[Item] > 0 THEN "mark" ELSE "validate")
        \/ /\ call[a].at = "mark" /\ Made("comms", MarkerNode(Item)) /\ open' = open
           /\ Moves(a, IF call[a].thread = 0 THEN "validate" ELSE "tie")
           /\ call'[a].thread = call[a].thread /\ call'[a].marker = fresh
        \/ /\ call[a].at = "tie" /\ open' = open
           /\ Moves(a, "validate")
           /\ call'[a].thread = call[a].thread /\ call'[a].marker = call[a].marker
           /\ \/ Still /\ (CanLink("comms", call[a].marker, call[a].thread) => "comms" \in shut)
              \/ Tied("comms", [from |-> call[a].marker, to |-> call[a].thread,
                                kind |-> "Thread"])
        \/ /\ call[a].at = "validate" /\ Still /\ open' = open
           /\ \/ /\ Moves(a, "register")
                 /\ call'[a].thread = call[a].thread /\ call'[a].marker = call[a].marker
              \/ Returns(a, Submission(a, FALSE))
        \/ /\ call[a].at = "register" /\ Still /\ open' = [open EXCEPT ![Item] = @ + 1]
           /\ Returns(a, Submission(a, TRUE))

LEMMA DecisionSteps ==
  ASSUME Typed, NEW a \in Agents, DecisionStep(a)
  PROVE  StepOf(a, "decision") /\ DecisionEffect(a)
<1>1. /\ GraphTyped /\ call \in [Agents -> Calls] /\ "decision" \in Verbose
      /\ UNCHANGED <<held, delivered, known, replayed>> /\ AnyContent \in Contents
  BY DEF Typed, SidesTyped, DecisionStep, Decide, Identify, FindThread, Attach, CountCheckouts,
         MarkConflict, TieMarker, ValidateCheckout, RegisterCheckout, commsVars, Verbose
<1>2. /\ Item \in 0..MaxIds /\ "comms" \in Bridges /\ "Thread" \in EdgeKinds
      /\ fresh <= MaxIds => fresh \in OrNone /\ fresh \in Ids
  BY <1>1, AgentCallsAssumption DEF Item, Bridges, EdgeKinds, GraphTyped, OrNone, Ids
<1>3. call[a].op = "decision" => call[a] \in DecisionCalls
  BY <1>1, OpCalls
<1>4. /\ MarkerNode(Item) \in Node /\ About("decision", AnyContent, Item) \in Node
  BY <1>1, <1>2, AboutsAreNodes DEF NodeKinds, MarkerNode
<1>5. CASE \E threaded \in BOOLEAN : Decide(a, threaded)
  <2>1. PICK threaded \in BOOLEAN : Decide(a, threaded)
    BY <1>5
  <2>2. call[a].op = "idle" /\ Aside
    BY <1>1, <2>1 DEF Decide, Starts, Idle, Aside
  <2> DEFINE x == [op |-> "decision", at |-> "identify", id |-> fresh, seen |-> 0,
                   threaded |-> threaded, thread |-> 0, marker |-> 0]
  <2>3. CASE Refused(a)
    BY <2>2, <2>3, RefusedStep DEF DecisionEffect
  <2>4. CASE /\ fresh <= MaxIds /\ Set(a, x) /\ returned' = returned
             /\ Create("comms", "comms", fresh, About("decision", AnyContent, Item))
    <3>1. x \in Calls /\ x.op = "decision" /\ x.at = "identify" /\ x.id = fresh /\ x.thread = 0
      <4>1. x \in DecisionCalls
        BY <1>2, <2>4, AgentCallsAssumption DEF DecisionCalls, OrNone
      <4>2. QED
        BY <4>1 DEF Calls
    <3> HIDE DEF x
    <3>2. /\ StepOf(a, "decision") /\ Made("comms", About("decision", AnyContent, Item))
          /\ UNCHANGED <<open, returned>> /\ call'[a] = x
      BY <1>2, <1>4, <2>2, <2>4, <3>1, MadeStep
    <3>3. QED
      BY <3>1, <3>2 DEF DecisionEffect
  <2>5. QED
    BY <2>1, <2>3, <2>4 DEF Decide, Writes, Stay
<1>6. CASE At(a, "decision", "identify") /\ Identify(a)
  <2>1. /\ call[a].op = "decision" /\ call[a].at = "identify" /\ Aside /\ UNCHANGED graph
        /\ call[a] \in DecisionCalls
    BY <1>1, <1>3, <1>6 DEF Identify, At, bounds, Aside
  <2>2. CASE call[a].id \in In("comms")
    <3>1. PICK s \in {"thread", "count"} : Goto(a, s) /\ returned' = returned
      BY <1>6, <2>1, <2>2 DEF Identify, HasIdentity, Stay
    <3> DEFINE d == [call[a] EXCEPT !.at = s]
    <3>2. /\ d \in Calls /\ d.op = "decision" /\ d.at = s
          /\ d.id = call[a].id /\ d.thread = call[a].thread
      <4>1. s \in DecisionAts
        BY DEF DecisionAts
      <4>2. QED
        BY <2>1, <4>1, DecisionMoves
    <3> HIDE DEF d
    <3>3. Set(a, d)
      BY <3>1 DEF Goto, d
    <3>4. StepOf(a, "decision") /\ Still /\ UNCHANGED <<open, returned>> /\ call'[a] = d
      BY <2>1, <3>1, <3>2, <3>3, SetStep
    <3>5. QED
      BY <2>1, <3>2, <3>4 DEF DecisionEffect, Moves
  <2>3. CASE call[a].id \notin In("comms")
    <3>1. Return(a, [panicked |-> call[a].id])
      BY <1>6, <2>3 DEF Identify, HasIdentity
    <3>2. StepOf(a, "decision") /\ Still /\ open' = open /\ Returns(a, [panicked |-> call[a].id])
      BY <1>1, <2>1, <3>1, ReturnStep
    <3>3. QED
      BY <2>1, <2>3, <3>2 DEF DecisionEffect
  <2>4. QED
    BY <2>2, <2>3
<1>7. CASE FindThread(a)
  <2>1. /\ call[a].op = "decision" /\ call[a].at = "thread" /\ Aside /\ UNCHANGED <<graph, returned>>
        /\ call[a] \in DecisionCalls
    BY <1>1, <1>3, <1>7 DEF FindThread, At, bounds, Aside, Stay
  <2>2. CASE \E th \in OfKind("comms", "thread") :
               Set(a, [call[a] EXCEPT !.at = "attach", !.thread = th])
    <3>1. PICK th \in OfKind("comms", "thread") :
               Set(a, [call[a] EXCEPT !.at = "attach", !.thread = th])
      BY <2>2
    <3>2. th \in OrNone
      BY <1>1, <1>2, NodeTyped, AgentCallsAssumption DEF OfKind, OrNone, Ids
    <3> DEFINE d == Found(call[a], th)
    <3>3. d \in Calls /\ d.op = "decision" /\ d.at = "attach" /\ d.id = call[a].id /\ d.thread = th
      <4>1. "attach" \in DecisionAts
        BY DEF DecisionAts
      <4>2. QED
        BY <2>1, <3>2, <4>1, DecisionSets
    <3> HIDE DEF d
    <3>4. Set(a, d)
      BY <3>1 DEF d, Found
    <3>5. StepOf(a, "decision") /\ Still /\ UNCHANGED <<open, returned>> /\ call'[a] = d
      BY <2>1, <3>3, <3>4, SetStep
    <3>6. QED
      BY <2>1, <3>3, <3>5 DEF DecisionEffect, Moves
  <2>3. CASE Goto(a, "count")
    <3> DEFINE d == [call[a] EXCEPT !.at = "count"]
    <3>1. /\ d \in Calls /\ d.op = "decision" /\ d.at = "count"
          /\ d.id = call[a].id /\ d.thread = call[a].thread
      BY <2>1, DecisionMoves DEF DecisionAts
    <3> HIDE DEF d
    <3>2. Set(a, d)
      BY <2>3 DEF Goto, d
    <3>3. StepOf(a, "decision") /\ Still /\ UNCHANGED <<open, returned>> /\ call'[a] = d
      BY <2>1, <3>1, <3>2, SetStep
    <3>4. QED
      BY <2>1, <3>1, <3>3 DEF DecisionEffect, Moves
  <2>4. QED
    BY <1>7, <2>2, <2>3 DEF FindThread
<1>8. CASE Attach(a)
  <2>1. /\ call[a].op = "decision" /\ call[a].at = "attach" /\ Aside /\ returned' = returned
        /\ call[a] \in DecisionCalls
    BY <1>1, <1>3, <1>8 DEF Attach, At, bounds, Aside, Stay
  <2> DEFINE d == [call[a] EXCEPT !.at = "count"]
  <2>2. /\ d \in Calls /\ d.op = "decision" /\ d.at = "count"
        /\ d.id = call[a].id /\ d.thread = call[a].thread
    BY <2>1, DecisionMoves DEF DecisionAts
  <2> HIDE DEF d
  <2>3. Set(a, d) /\ Relate("comms", call[a].id, call[a].thread, "Thread")
    BY <1>8 DEF Attach, Goto, d
  <2>4. /\ StepOf(a, "decision") /\ open' = open
        /\ \/ Still /\ (CanLink("comms", call[a].id, call[a].thread) => "comms" \in shut)
           \/ Tied("comms", [from |-> call[a].id, to |-> call[a].thread, kind |-> "Thread"])
    BY <1>2, <2>1, <2>2, <2>3, RelateStep
  <2>5. call'[a] = d
    BY <1>1, <2>2, <2>3, SetCall
  <2>6. QED
    BY <2>1, <2>2, <2>4, <2>5 DEF DecisionEffect, Moves
<1>9. CASE CountCheckouts(a)
  <2>1. /\ call[a].op = "decision" /\ call[a].at = "count" /\ Aside /\ UNCHANGED <<graph, returned>>
        /\ call[a] \in DecisionCalls
    BY <1>1, <1>3, <1>9 DEF CountCheckouts, At, bounds, Aside, Stay
  <2> DEFINE s == IF open[Item] > 0 THEN "mark" ELSE "validate"
             d == Counted(call[a], open[Item], s)
  <2>2. open[Item] \in Nat /\ s \in DecisionAts
    BY <1>1, IdsAreNaturals DEF GraphTyped, DecisionAts
  <2> HIDE DEF s
  <2>3. d \in Calls /\ d.op = "decision" /\ d.at = s /\ d.id = call[a].id /\ d.thread = call[a].thread
    <3>1. 0 \in OrNone
      BY AgentCallsAssumption DEF OrNone
    <3>2. QED
      BY <2>1, <2>2, <3>1, DecisionSets
  <2> HIDE DEF d
  <2>4. Set(a, d)
    BY <1>9 DEF CountCheckouts, OpenCheckoutCount, d, s, Counted
  <2>5. StepOf(a, "decision") /\ Still /\ UNCHANGED <<open, returned>> /\ call'[a] = d
    BY <2>1, <2>3, <2>4, SetStep
  <2>6. QED
    BY <2>1, <2>3, <2>5 DEF DecisionEffect, Moves, s
<1>10. CASE MarkConflict(a)
  <2>1. call[a].op = "decision" /\ call[a].at = "mark" /\ Aside /\ call[a] \in DecisionCalls
    BY <1>1, <1>3, <1>10 DEF MarkConflict, At, bounds, Aside
  <2> DEFINE s == IF call[a].thread = 0 THEN "validate" ELSE "tie"
             d == Marked(call[a], fresh, s)
  <2>2. s \in {"validate", "tie"} /\ s \in DecisionAts
    BY DEF DecisionAts
  <2> HIDE DEF s
  <2>3. CASE Refused(a)
    BY <2>1, <2>3, RefusedStep DEF DecisionEffect
  <2>4. CASE /\ fresh <= MaxIds /\ Set(a, d) /\ returned' = returned
             /\ Create("comms", "comms", fresh, MarkerNode(Item))
    <3>1. /\ d \in Calls /\ d.op = "decision" /\ d.at = s
          /\ d.id = call[a].id /\ d.thread = call[a].thread /\ d.marker = fresh
      <4>1. 0 \in Nat
        OBVIOUS
      <4>2. QED
        BY <1>2, <2>1, <2>2, <2>4, <4>1, DecisionSets
    <3> HIDE DEF d
    <3>2. /\ StepOf(a, "decision") /\ Made("comms", MarkerNode(Item))
          /\ UNCHANGED <<open, returned>> /\ call'[a] = d
      BY <1>2, <1>4, <2>1, <2>4, <3>1, MadeStep
    <3>3. QED
      BY <2>1, <2>2, <3>1, <3>2 DEF DecisionEffect, Moves, s
  <2>5. QED
    BY <1>10, <2>3, <2>4 DEF MarkConflict, Writes, Stay, s, Marked
<1>11. CASE TieMarker(a)
  <2>1. /\ call[a].op = "decision" /\ call[a].at = "tie" /\ Aside /\ returned' = returned
        /\ call[a] \in DecisionCalls
    BY <1>1, <1>3, <1>11 DEF TieMarker, At, bounds, Aside, Stay
  <2> DEFINE d == [call[a] EXCEPT !.at = "validate"]
  <2>2. /\ d \in Calls /\ d.op = "decision" /\ d.at = "validate"
        /\ d.id = call[a].id /\ d.thread = call[a].thread /\ d.marker = call[a].marker
    BY <2>1, DecisionMoves DEF DecisionAts
  <2> HIDE DEF d
  <2>3. Set(a, d) /\ Relate("comms", call[a].marker, call[a].thread, "Thread")
    BY <1>11 DEF TieMarker, Goto, d
  <2>4. /\ StepOf(a, "decision") /\ open' = open
        /\ \/ Still /\ (CanLink("comms", call[a].marker, call[a].thread) => "comms" \in shut)
           \/ Tied("comms", [from |-> call[a].marker, to |-> call[a].thread, kind |-> "Thread"])
    BY <1>2, <2>1, <2>2, <2>3, RelateStep
  <2>5. call'[a] = d
    BY <1>1, <2>2, <2>3, SetCall
  <2>6. QED
    BY <2>1, <2>2, <2>4, <2>5 DEF DecisionEffect, Moves
<1>12. CASE ValidateCheckout(a)
  <2>1. /\ call[a].op = "decision" /\ call[a].at = "validate" /\ Aside /\ UNCHANGED graph
        /\ call[a] \in DecisionCalls
    BY <1>1, <1>3, <1>12 DEF ValidateCheckout, At, bounds, Aside
  <2>2. CASE Goto(a, "register") /\ returned' = returned
    <3> DEFINE d == [call[a] EXCEPT !.at = "register"]
    <3>1. /\ d \in Calls /\ d.op = "decision" /\ d.at = "register"
          /\ d.id = call[a].id /\ d.thread = call[a].thread /\ d.marker = call[a].marker
      BY <2>1, DecisionMoves DEF DecisionAts
    <3> HIDE DEF d
    <3>2. Set(a, d)
      BY <2>2 DEF Goto, d
    <3>3. StepOf(a, "decision") /\ Still /\ UNCHANGED <<open, returned>> /\ call'[a] = d
      BY <2>1, <2>2, <3>1, <3>2, SetStep
    <3>4. QED
      BY <2>1, <3>1, <3>3 DEF DecisionEffect, Moves
  <2>3. CASE Return(a, Submission(a, FALSE))
    <3>1. StepOf(a, "decision") /\ Still /\ open' = open /\ Returns(a, Submission(a, FALSE))
      BY <1>1, <2>1, <2>3, ReturnStep
    <3>2. QED
      BY <2>1, <3>1 DEF DecisionEffect
  <2>4. QED
    BY <1>12, <2>2, <2>3 DEF ValidateCheckout, Stay
<1>13. CASE RegisterCheckout(a)
  <2>1. /\ call[a].op = "decision" /\ call[a].at = "register" /\ Aside
        /\ UNCHANGED <<nodes, edges, gone, shut, fresh, inbox>>
        /\ open' = [open EXCEPT ![Item] = @ + 1] /\ Return(a, Submission(a, TRUE))
    BY <1>1, <1>13 DEF RegisterCheckout, At, bounds, Aside
  <2>2. /\ call' \in [Agents -> Calls] /\ call'[a] = Idle /\ call'[a].op = "idle"
        /\ \A d \in Agents \ {a} : call'[d] = call[d]
        /\ returned \subseteq returned'
        /\ \A r \in returned' \ returned : r.op = call[a].op /\ r.result = Submission(a, TRUE)
    BY <1>1, <2>1, ReturnCall
  <2>3. open' \in [Ids -> Nat]
    <3>1. Item \in Ids /\ open \in [Ids -> Nat]
      BY <1>1, IdsAreNaturals DEF GraphTyped
    <3>2. open[Item] + 1 \in Nat
      BY <3>1
    <3>3. QED
      BY <2>1, <3>1, <3>2
  <2>4. Typed'
    BY <1>1, <2>1, <2>2, <2>3 DEF Typed, GraphTyped, SidesTyped, Aside
  <2>5. StepOf(a, "decision")
    BY <1>1, <2>1, <2>2, <2>4 DEF StepOf, Aside, Verbose
  <2>6. QED
    BY <2>1, <2>2, <2>5 DEF DecisionEffect, Returns, Still
<1>14. QED
  BY <1>5, <1>6, <1>7, <1>8, <1>9, <1>10, <1>11, <1>12, <1>13 DEF DecisionStep

OperatorStep(a) ==
  /\ \/ SubmitAsOperator(a)
     \/ At(a, "operator", "identify") /\ Identify(a)
     \/ WriteCompanion(a) \/ TieCompanion(a)
  /\ UNCHANGED replayed

Accompanied(a) == [ok |-> TRUE, id |-> call[a].id, companion |-> call[a].companion]

OperatorEffect(a) ==
  \/ Still /\ Returns(a, [ok |-> FALSE])
  \/ /\ Made("comms", MessageNode(AnyContent)) /\ returned' = returned
     /\ call'[a].op = "operator" /\ call'[a].at = "identify" /\ call'[a].id = fresh
  \/ /\ call[a].op = "operator"
     /\ \/ /\ call[a].at = "identify" /\ Still /\ returned' = returned
           /\ call'[a].op = "operator" /\ call'[a].at = "companion" /\ call'[a].id = call[a].id
        \/ /\ call[a].at = "identify" /\ Still /\ call[a].id \notin In("comms")
           /\ Returns(a, [panicked |-> call[a].id])
        \/ /\ call[a].at = "companion" /\ Made("comms", CompanionNode(call[a].id))
           /\ returned' = returned
           /\ call'[a].op = "operator" /\ call'[a].at = "tie" /\ call'[a].id = call[a].id
           /\ call'[a].companion = fresh
        \/ /\ call[a].at = "tie" /\ Returns(a, Accompanied(a))
           /\ \/ Still /\ (CanLink("comms", call[a].companion, call[a].id) => "comms" \in shut)
              \/ Tied("comms", [from |-> call[a].companion, to |-> call[a].id,
                                kind |-> "DerivedFrom"])

Accompanies(c, i) == [c EXCEPT !.at = "tie", !.companion = i]

LEMMA OperatorSets ==
  ASSUME NEW c \in OperatorCalls, NEW i \in OrNone
  PROVE  /\ Accompanies(c, i) \in Calls /\ Accompanies(c, i).op = "operator"
         /\ Accompanies(c, i).at = "tie" /\ Accompanies(c, i).id = c.id
         /\ Accompanies(c, i).companion = i
BY DEF OperatorCalls, Calls, Accompanies

LEMMA OperatorSteps ==
  ASSUME Typed, NEW a \in Agents, OperatorStep(a)
  PROVE  StepOf(a, "operator") /\ OperatorEffect(a)
<1>1. /\ GraphTyped /\ call \in [Agents -> Calls] /\ "operator" \in Verbose
      /\ UNCHANGED <<held, delivered, known, replayed>> /\ AnyContent \in Contents
  BY DEF Typed, SidesTyped, OperatorStep, SubmitAsOperator, Identify, WriteCompanion,
         TieCompanion, commsVars, Verbose
<1>2. /\ "comms" \in Bridges /\ "DerivedFrom" \in EdgeKinds
      /\ fresh <= MaxIds => fresh \in OrNone /\ fresh \in Ids
  BY <1>1, AgentCallsAssumption DEF Bridges, EdgeKinds, GraphTyped, OrNone, Ids
<1>3. call[a].op = "operator" => call[a] \in OperatorCalls
  BY <1>1, OpCalls
<1>4. CASE SubmitAsOperator(a)
  <2>1. call[a].op = "idle" /\ Aside
    BY <1>1, <1>4 DEF SubmitAsOperator, Starts, Idle, Aside
  <2> DEFINE x == [op |-> "operator", at |-> "identify", id |-> fresh, companion |-> 0]
  <2>2. CASE Refused(a)
    BY <2>1, <2>2, RefusedStep DEF OperatorEffect
  <2>3. CASE /\ fresh <= MaxIds /\ Set(a, x) /\ returned' = returned
             /\ Create("comms", "comms", fresh, MessageNode(AnyContent))
    <3>1. x \in Calls /\ x.op = "operator" /\ x.at = "identify" /\ x.id = fresh
      <4>1. x \in OperatorCalls
        BY <1>2, <2>3, AgentCallsAssumption DEF OperatorCalls, OrNone
      <4>2. QED
        BY <4>1 DEF Calls
    <3> HIDE DEF x
    <3>2. MessageNode(AnyContent) \in Node
      BY <1>1, KindsAreNodes DEF MessageNode, NodeKinds
    <3>3. /\ StepOf(a, "operator") /\ Made("comms", MessageNode(AnyContent))
          /\ UNCHANGED <<open, returned>> /\ call'[a] = x
      BY <1>2, <2>1, <2>3, <3>1, <3>2, MadeStep
    <3>4. QED
      BY <3>1, <3>3 DEF OperatorEffect
  <2>4. QED
    BY <1>4, <2>2, <2>3 DEF SubmitAsOperator, Writes, Stay
<1>5. CASE At(a, "operator", "identify") /\ Identify(a)
  <2>1. /\ call[a].op = "operator" /\ call[a].at = "identify" /\ Aside /\ UNCHANGED graph
        /\ call[a] \in OperatorCalls
    BY <1>1, <1>3, <1>5 DEF Identify, At, bounds, Aside
  <2>2. CASE call[a].id \in In("comms")
    <3>1. Goto(a, "companion") /\ returned' = returned
      BY <1>5, <2>1, <2>2 DEF Identify, HasIdentity, Stay
    <3> DEFINE d == [call[a] EXCEPT !.at = "companion"]
    <3>2. d \in Calls /\ d.op = "operator" /\ d.at = "companion" /\ d.id = call[a].id
      BY <2>1 DEF OperatorCalls, Calls
    <3> HIDE DEF d
    <3>3. Set(a, d)
      BY <3>1 DEF Goto, d
    <3>4. StepOf(a, "operator") /\ Still /\ UNCHANGED <<open, returned>> /\ call'[a] = d
      BY <2>1, <3>1, <3>2, <3>3, SetStep
    <3>5. QED
      BY <2>1, <3>2, <3>4 DEF OperatorEffect
  <2>3. CASE call[a].id \notin In("comms")
    <3>1. Return(a, [panicked |-> call[a].id])
      BY <1>5, <2>3 DEF Identify, HasIdentity
    <3>2. StepOf(a, "operator") /\ Still /\ open' = open /\ Returns(a, [panicked |-> call[a].id])
      BY <1>1, <2>1, <3>1, ReturnStep
    <3>3. QED
      BY <2>1, <2>3, <3>2 DEF OperatorEffect
  <2>4. QED
    BY <2>2, <2>3
<1>6. CASE WriteCompanion(a)
  <2>1. call[a].op = "operator" /\ call[a].at = "companion" /\ Aside /\ call[a] \in OperatorCalls
    BY <1>1, <1>3, <1>6 DEF WriteCompanion, At, bounds, Aside
  <2> DEFINE d == Accompanies(call[a], fresh)
  <2>2. CASE Refused(a)
    BY <2>1, <2>2, RefusedStep DEF OperatorEffect
  <2>3. CASE /\ fresh <= MaxIds /\ Set(a, d) /\ returned' = returned
             /\ Create("comms", "comms", fresh, CompanionNode(call[a].id))
    <3>1. d \in Calls /\ d.op = "operator" /\ d.at = "tie" /\ d.id = call[a].id /\ d.companion = fresh
      BY <1>2, <2>1, <2>3, OperatorSets
    <3> HIDE DEF d
    <3>2. CompanionNode(call[a].id) \in Node
      <4>1. call[a].id \in 0..MaxIds
        BY <2>1, AgentCallsAssumption DEF OperatorCalls, Ids
      <4>2. QED
        BY <1>1, <4>1, AboutsAreNodes DEF CompanionNode, NodeKinds
    <3>3. /\ StepOf(a, "operator") /\ Made("comms", CompanionNode(call[a].id))
          /\ UNCHANGED <<open, returned>> /\ call'[a] = d
      BY <1>2, <2>1, <2>3, <3>1, <3>2, MadeStep
    <3>4. QED
      BY <2>1, <3>1, <3>3 DEF OperatorEffect
  <2>4. QED
    BY <1>6, <2>2, <2>3 DEF WriteCompanion, Writes, Stay, Accompanies
<1>7. CASE TieCompanion(a)
  <2>1. /\ call[a].op = "operator" /\ call[a].at = "tie" /\ Aside
        /\ Return(a, Accompanied(a))
        /\ Relate("comms", call[a].companion, call[a].id, "DerivedFrom")
    BY <1>1, <1>7 DEF TieCompanion, At, bounds, Aside, Accompanied
  <2>2. /\ StepOf(a, "operator") /\ open' = open
        /\ \/ Still /\ (CanLink("comms", call[a].companion, call[a].id) => "comms" \in shut)
           \/ Tied("comms", [from |-> call[a].companion, to |-> call[a].id,
                             kind |-> "DerivedFrom"])
    BY <1>1, <1>2, <2>1, RelateStep
  <2>3. Returns(a, Accompanied(a))
    BY <1>1, <2>1, ReturnCall DEF Returns
  <2>4. QED
    BY <2>1, <2>2, <2>3 DEF OperatorEffect
<1>8. QED
  BY <1>4, <1>5, <1>6, <1>7 DEF OperatorStep

CheckStep(a) ==
  /\ \/ \E check \in Checks : Evaluate(a, check)
     \/ FindFrom(a) \/ FindTo(a) \/ AnswerCheck(a)
  /\ UNCHANGED replayed

Verdict(a, pass) ==
  [check |-> call[a].check, pass |-> pass, kept |-> call[a].there \cap CompanionEdges # {}]

CheckEffect(a) ==
  /\ Still
  /\ \/ /\ returned' = returned
        /\ call'[a].at \in {"find", "answer"}
        /\ call'[a].at = "answer" => call'[a].check # "EdgeExists"
     \/ /\ call[a].op = "check" /\ call[a].at = "find"
        /\ \/ /\ returned' = returned /\ call'[a].check = call[a].check
              /\ call'[a].from \in Matches("comms", "companion", AnyContent)
              /\ call'[a].at = IF call[a].check = "EdgeExists" THEN "to" ELSE "answer"
           \/ Matches("comms", "companion", AnyContent) = {} /\ Returns(a, Verdict(a, FALSE))
     \/ /\ call[a].op = "check" /\ call[a].at = "to"
        /\ \/ /\ returned' = returned /\ call'[a].check = call[a].check
              /\ call'[a].from = call[a].from /\ call'[a].at = "answer"
              /\ call'[a].to \in Matches("comms", "message", AnyContent)
           \/ Matches("comms", "message", AnyContent) = {} /\ Returns(a, Verdict(a, FALSE))
     \/ /\ call[a].op = "check" /\ call[a].at = "answer"
        /\ \E pass :
             /\ Returns(a, Verdict(a, pass))
             /\ call[a].check = "EdgeExists" =>
                  pass = Linked("comms", call[a].from, call[a].to, "DerivedFrom")

FromIs(c, i, s) == [c EXCEPT !.from = i, !.at = s]
ToIs(c, i) == [c EXCEPT !.to = i, !.at = "answer"]

LEMMA CheckSets ==
  ASSUME NEW c \in CheckCalls, NEW i \in OrNone, NEW s \in {"find", "to", "answer"}
  PROVE  /\ FromIs(c, i, s) \in Calls /\ FromIs(c, i, s).op = "check"
         /\ FromIs(c, i, s).at = s /\ FromIs(c, i, s).from = i
         /\ FromIs(c, i, s).check = c.check
         /\ ToIs(c, i) \in Calls /\ ToIs(c, i).op = "check"
         /\ ToIs(c, i).at = "answer" /\ ToIs(c, i).to = i
         /\ ToIs(c, i).from = c.from /\ ToIs(c, i).check = c.check
BY DEF CheckCalls, Calls, FromIs, ToIs

LEMMA MatchesAreIds ==
  ASSUME GraphTyped, NEW b \in Bridges, NEW k, NEW c
  PROVE  Matches(b, k, c) \subseteq Ids /\ Matches(b, k, c) \subseteq OrNone
BY NodeTyped, AgentCallsAssumption DEF Matches, OfKind, Ids, OrNone

LEMMA CheckSteps ==
  ASSUME Typed, NEW a \in Agents, CheckStep(a)
  PROVE  StepOf(a, "check") /\ CheckEffect(a)
<1>1. /\ GraphTyped /\ call \in [Agents -> Calls] /\ "check" \in Verbose /\ "comms" \in Bridges
      /\ UNCHANGED <<held, delivered, known, replayed>> /\ UNCHANGED graph
  BY DEF Typed, SidesTyped, CheckStep, Evaluate, FindFrom, FindTo, AnswerCheck, commsVars,
      Verbose,
         Bridges
<1>2. call[a].op = "check" => call[a] \in CheckCalls
  BY <1>1, OpCalls
<1>3. CASE \E check \in Checks : Evaluate(a, check)
  <2>1. PICK check \in Checks : Evaluate(a, check)
    BY <1>3
  <2> DEFINE s == IF check \in {"ContentMatches", "EdgeExists"} THEN "find" ELSE "answer"
             x == [op |-> "check", at |-> s, check |-> check, from |-> 0, to |-> 0,
                   there |-> CompanionEdges]
  <2>2. CompanionEdges \in SUBSET Edge
    BY <1>1, NodeTyped DEF CompanionEdges, BagToSet
  <2>3. x \in CheckCalls
    BY <2>2, AgentCallsAssumption DEF CheckCalls, OrNone
  <2>4. x \in Calls /\ x.op = "check" /\ x.at = s /\ x.check = check
    BY <2>3 DEF Calls
  <2>5. call[a].op = "idle" /\ Aside /\ returned' = returned /\ Set(a, x)
    BY <1>1, <2>1 DEF Evaluate, Starts, Idle, Aside
  <2> HIDE DEF x
  <2>6. StepOf(a, "check") /\ Still /\ UNCHANGED <<open, returned>> /\ call'[a] = x
    BY <1>1, <2>4, <2>5, SetStep
  <2>7. QED
    BY <2>4, <2>6 DEF CheckEffect
<1>4. CASE FindFrom(a)
  <2>1. call[a].op = "check" /\ call[a].at = "find" /\ Aside /\ call[a] \in CheckCalls
    BY <1>1, <1>2, <1>4 DEF FindFrom, At, bounds, Aside
  <2> DEFINE s == IF call[a].check = "EdgeExists" THEN "to" ELSE "answer"
  <2>2. CASE \E i \in Matches("comms", "companion", AnyContent) :
               Set(a, FromIs(call[a], i, s)) /\ returned' = returned
    <3>1. PICK i \in Matches("comms", "companion", AnyContent) :
                 Set(a, FromIs(call[a], i, s)) /\ returned' = returned
      BY <2>2
    <3> DEFINE d == FromIs(call[a], i, s)
    <3>2. i \in OrNone /\ s \in {"find", "to", "answer"}
      BY <1>1, MatchesAreIds
    <3>3. d \in Calls /\ d.op = "check" /\ d.at = s /\ d.from = i /\ d.check = call[a].check
      <4> HIDE DEF s
      <4>1. QED
        BY <2>1, <3>2, CheckSets
    <3> HIDE DEF d, s
    <3>4. StepOf(a, "check") /\ Still /\ UNCHANGED <<open, returned>> /\ call'[a] = d
      <4>1. Set(a, d)
        BY <3>1 DEF d
      <4>2. QED
        BY <1>1, <2>1, <3>1, <3>3, <4>1, SetStep
    <3>5. QED
      BY <2>1, <3>1, <3>3, <3>4 DEF CheckEffect, s
  <2>3. CASE Matches("comms", "companion", AnyContent) = {} /\ Return(a, Verdict(a, FALSE))
    <3>1. StepOf(a, "check") /\ Still /\ open' = open /\ Returns(a, Verdict(a, FALSE))
      BY <1>1, <2>1, <2>3, ReturnStep
    <3>2. QED
      BY <2>1, <2>3, <3>1 DEF CheckEffect
  <2>4. QED
    BY <1>4, <2>2, <2>3 DEF FindFrom, Stay, Answer, Verdict, FromIs
<1>5. CASE FindTo(a)
  <2>1. call[a].op = "check" /\ call[a].at = "to" /\ Aside /\ call[a] \in CheckCalls
    BY <1>1, <1>2, <1>5 DEF FindTo, At, bounds, Aside
  <2>2. CASE \E i \in Matches("comms", "message", AnyContent) :
               Set(a, ToIs(call[a], i)) /\ returned' = returned
    <3>1. PICK i \in Matches("comms", "message", AnyContent) :
                 Set(a, ToIs(call[a], i)) /\ returned' = returned
      BY <2>2
    <3> DEFINE d == ToIs(call[a], i)
    <3>2. i \in OrNone
      BY <1>1, MatchesAreIds
    <3>3. /\ d \in Calls /\ d.op = "check" /\ d.at = "answer" /\ d.to = i
          /\ d.from = call[a].from /\ d.check = call[a].check
      <4>1. "find" \in {"find", "to", "answer"}
        OBVIOUS
      <4>2. QED
        BY <2>1, <3>2, <4>1, CheckSets
    <3> HIDE DEF d
    <3>4. StepOf(a, "check") /\ Still /\ UNCHANGED <<open, returned>> /\ call'[a] = d
      <4>1. Set(a, d)
        BY <3>1 DEF d
      <4>2. QED
        BY <1>1, <2>1, <3>1, <3>3, <4>1, SetStep
    <3>5. QED
      BY <2>1, <3>1, <3>3, <3>4 DEF CheckEffect
  <2>3. CASE Matches("comms", "message", AnyContent) = {} /\ Return(a, Verdict(a, FALSE))
    <3>1. StepOf(a, "check") /\ Still /\ open' = open /\ Returns(a, Verdict(a, FALSE))
      BY <1>1, <2>1, <2>3, ReturnStep
    <3>2. QED
      BY <2>1, <2>3, <3>1 DEF CheckEffect
  <2>4. QED
    BY <1>5, <2>2, <2>3 DEF FindTo, Stay, Answer, Verdict, ToIs
<1>6. CASE AnswerCheck(a)
  <2>1. call[a].op = "check" /\ call[a].at = "answer" /\ Aside
    BY <1>1, <1>6 DEF AnswerCheck, At, bounds, Aside
  <2>2. PICK pass : /\ Return(a, Verdict(a, pass))
                    /\ call[a].check = "EdgeExists" =>
                         pass = Linked("comms", call[a].from, call[a].to, "DerivedFrom")
    BY <1>6 DEF AnswerCheck, Answer, Verdict, EdgeThere
  <2>3. StepOf(a, "check") /\ Still /\ open' = open /\ Returns(a, Verdict(a, pass))
    BY <1>1, <2>1, <2>2, ReturnStep
  <2>4. QED
    BY <2>1, <2>2, <2>3 DEF CheckEffect
<1>7. QED
  BY <1>3, <1>4, <1>5, <1>6 DEF CheckStep

AuditStep(a) == (Audit(a) \/ AuditNode(a)) /\ UNCHANGED replayed

AuditEffect(a) ==
  /\ Still
  /\ \/ /\ returned' = returned
        /\ call'[a].todo = Reached("comms", Thread) /\ call'[a].standing = Standing
     \/ /\ call[a].op = "audit" /\ returned' = returned
        /\ \E i \in call[a].todo :
             /\ call'[a].todo = call[a].todo \ {i} /\ call'[a].standing = call[a].standing
             /\ call'[a].found
                  = call[a].found + Cardinality(OfKind("comms", "decision") \cap {i})
     \/ /\ call[a].op = "audit" /\ call[a].todo = {}
        /\ Returns(a, [anomaly |-> call[a].found > 0, standing |-> call[a].standing])

Audits(c, i, n) == [c EXCEPT !.todo = @ \ {i}, !.found = @ + n]

LEMMA AuditSets ==
  ASSUME NEW c \in AuditCalls, NEW i, NEW n \in Nat
  PROVE  /\ Audits(c, i, n) \in Calls /\ Audits(c, i, n).op = "audit"
         /\ Audits(c, i, n).todo = c.todo \ {i} /\ Audits(c, i, n).found = c.found + n
         /\ Audits(c, i, n).standing = c.standing
<1>1. PICK k, S : k = c.found + n /\ S = c.todo \ {i}
  OBVIOUS
<1>2. Audits(c, i, n) = [c EXCEPT !.todo = c.todo \ {i}, !.found = c.found + n]
  BY DEF Audits
<1>3. Audits(c, i, n) = [c EXCEPT !.todo = S, !.found = k]
  BY <1>1, <1>2
<1>4. k \in Nat /\ S \in SUBSET Ids
  BY <1>1 DEF AuditCalls
<1>5. LET d == Audits(c, i, n) IN
      /\ d \in AuditCalls /\ d.op = "audit" /\ d.todo = S /\ d.found = k
      /\ d.standing = c.standing
  BY <1>3, <1>4 DEF AuditCalls
<1>6. QED
  BY <1>1, <1>5 DEF Calls

LEMMA AuditSteps ==
  ASSUME Typed, NEW a \in Agents, AuditStep(a)
  PROVE  StepOf(a, "audit") /\ AuditEffect(a)
<1>1. /\ GraphTyped /\ call \in [Agents -> Calls] /\ "audit" \in Verbose /\ "comms" \in Bridges
      /\ UNCHANGED <<held, delivered, known, replayed>> /\ UNCHANGED graph
  BY DEF Typed, SidesTyped, AuditStep, Audit, AuditNode, commsVars, Verbose, Bridges
<1>2. call[a].op = "audit" => call[a] \in AuditCalls
  BY <1>1, OpCalls
<1>3. CASE Audit(a)
  <2> DEFINE x == [op |-> "audit", at |-> "read", todo |-> Reached("comms", Thread), found |-> 0,
                   standing |-> Standing]
  <2>1. Standing \in SUBSET Ids /\ Reached("comms", Thread) \in SUBSET Ids
    <3>1. \A e \in DOMAIN edges["comms"] : e.from \in Ids
      BY <1>1, NodeTyped DEF Edge
    <3>2. Standing \in SUBSET Ids
      BY <3>1 DEF Standing, BagToSet
    <3>3. Thread \in Ids
      BY IdsAreNaturals
    <3>4. QED
      BY <1>1, <3>2, <3>3, ReachedNeighbors
  <2>2. x \in Calls /\ x.op = "audit" /\ x.todo = Reached("comms", Thread) /\ x.standing = Standing
    <3>1. x \in AuditCalls
      BY <2>1 DEF AuditCalls
    <3>2. QED
      BY <3>1 DEF Calls
  <2>3. call[a].op = "idle" /\ Aside /\ returned' = returned /\ Set(a, x)
    BY <1>1, <1>3 DEF Audit, Starts, Idle, Aside
  <2> HIDE DEF x
  <2>4. StepOf(a, "audit") /\ Still /\ UNCHANGED <<open, returned>> /\ call'[a] = x
    BY <1>1, <2>2, <2>3, SetStep
  <2>5. QED
    BY <2>2, <2>4 DEF AuditEffect
<1>4. CASE AuditNode(a)
  <2>1. call[a].op = "audit" /\ Aside /\ call[a] \in AuditCalls
    BY <1>1, <1>2, <1>4 DEF AuditNode, At, bounds, Aside
  <2>2. ASSUME NEW i \in call[a].todo, returned' = returned,
               Set(a, Audits(call[a], i, Cardinality(OfKind("comms", "decision") \cap {i})))
        PROVE  StepOf(a, "audit") /\ AuditEffect(a)
    <3> DEFINE n == Cardinality(OfKind("comms", "decision") \cap {i})
               d == Audits(call[a], i, n)
    <3>1. n \in Nat
      <4>1. IsFiniteSet({i})
        BY FS_Singleton
      <4>2. IsFiniteSet(OfKind("comms", "decision") \cap {i})
        BY <4>1, FS_Subset
      <4>3. QED
        BY <4>2, FS_CardinalityType
    <3> HIDE DEF n
    <3>2. /\ d \in Calls /\ d.op = "audit" /\ d.todo = call[a].todo \ {i}
          /\ d.found = call[a].found + n /\ d.standing = call[a].standing
      BY <2>1, <3>1, AuditSets
    <3> HIDE DEF d
    <3>3. Set(a, d)
      BY <2>2 DEF d, n
    <3>4. StepOf(a, "audit") /\ Still /\ UNCHANGED <<open, returned>> /\ call'[a] = d
      BY <1>1, <2>1, <2>2, <3>2, <3>3, SetStep
    <3>5. QED
      BY <2>1, <3>2, <3>4 DEF AuditEffect, n
  <2> DEFINE x == [anomaly |-> call[a].found > 0, standing |-> call[a].standing]
  <2>3. CASE call[a].todo = {} /\ Return(a, x)
    <3>1. StepOf(a, "audit") /\ Still /\ open' = open /\ Returns(a, x)
      BY <1>1, <2>1, <2>3, ReturnStep
    <3>2. QED
      BY <2>1, <2>3, <3>1 DEF AuditEffect
  <2>4. QED
    BY <1>4, <2>2, <2>3 DEF AuditNode, Stay, Audits
<1>5. QED
  BY <1>3, <1>4 DEF AuditStep

ClaimStep(a) == (ClaimFromHandoff(a) \/ WriteClaim(a)) /\ UNCHANGED commsVars
PostStep(a) == PostIntent(a) /\ UNCHANGED commsVars
SplitStep(a) == SplitIntent(a) /\ UNCHANGED commsVars

LEMMA IntentsHaveContents ==
  ASSUME GraphTyped, NEW i \in Intents
  PROVE  i \in In("ops") /\ i \in Ids /\ nodes["ops"][i] \in Node /\ nodes["ops"][i].content \in Contents
BY NodeTyped DEF Intents, OfKind, Node, Bridges

LEMMA ClaimSteps ==
  ASSUME Typed, NEW a \in Agents, ClaimStep(a)
  PROVE  /\ StepOf(a, "claim")
         /\ Still \/ \E c \in Contents : Made("ops", ClaimNode(c))
<1>1. /\ GraphTyped /\ call \in [Agents -> Calls] /\ UNCHANGED <<known, held, delivered, replayed>>
      /\ "ops" \in Bridges
  BY DEF Typed, ClaimStep, ClaimFromHandoff, WriteClaim, commsVars, Bridges
<1>2. CASE ClaimFromHandoff(a)
  <2>1. PICK i \in Intents :
          Set(a, [op |-> "claim", at |-> "write", content |-> nodes["ops"][i].content])
    BY <1>2 DEF ClaimFromHandoff
  <2> DEFINE x == [op |-> "claim", at |-> "write", content |-> nodes["ops"][i].content]
  <2>2. x \in Calls /\ x.op = "claim"
    <3>1. x \in ClaimCalls
      BY <1>1, IntentsHaveContents DEF ClaimCalls
    <3>2. QED
      BY <3>1 DEF Calls
  <2>3. call[a].op = "idle" /\ Aside /\ UNCHANGED <<graph, returned>> /\ Set(a, x)
    BY <1>1, <1>2, <2>1 DEF ClaimFromHandoff, Starts, Idle, Aside
  <2> HIDE DEF x
  <2>4. QED
    BY <2>2, <2>3, SetStep
<1>3. CASE WriteClaim(a)
  <2>1. call[a].op = "claim" /\ Aside /\ call[a].content \in Contents
    BY <1>1, <1>3, OpCalls DEF WriteClaim, At, bounds, Aside, ClaimCalls
  <2> DEFINE n == ClaimNode(call[a].content)
  <2>2. CASE Refused(a)
    BY <2>1, <2>2, RefusedStep
  <2>3. CASE fresh <= MaxIds /\ Create("ops", "work", fresh, n) /\ Return(a, [ok |-> TRUE])
    <3>1. n \in Node
      BY <2>1, KindsAreNodes DEF ClaimNode, NodeKinds
    <3> HIDE DEF n
    <3>2. GraphTyped' /\ Made("ops", n) /\ UNCHANGED <<gone, shut, open>>
      BY <1>1, <2>3, <3>1, CreateMade
    <3>3. /\ call' \in [Agents -> Calls] /\ call'[a].op = "idle"
          /\ \A d \in Agents \ {a} : call'[d] = call[d]
          /\ returned \subseteq returned'
          /\ \A r \in returned' \ returned : r.op = call[a].op /\ r.result = [ok |-> TRUE]
      BY <1>1, <2>3, ReturnCall
    <3>4. \A r \in returned' \ returned : r.op = call[a].op /\ Plain(r)
      BY <3>3 DEF Plain
    <3>5. StepOf(a, "claim")
      BY <1>1, <2>1, <3>2, <3>3, <3>4, MakesStep DEF Aside
    <3>6. QED
      BY <2>1, <3>2, <3>5 DEF n
  <2>4. QED
    BY <1>3, <2>2, <2>3 DEF WriteClaim, Writes
<1>4. QED
  BY <1>2, <1>3 DEF ClaimStep

LEMMA PostSteps ==
  ASSUME Typed, NEW a \in Agents, PostStep(a)
  PROVE  /\ StepOf(a, "intent")
         /\ Still \/ \E c \in Contents : Made("ops", IntentNode(c))
<1>1. /\ GraphTyped /\ call \in [Agents -> Calls] /\ "ops" \in Bridges
      /\ call[a].op = "idle" /\ Aside
  BY DEF Typed, PostStep, PostIntent, commsVars, Bridges, Starts, Idle, Aside
<1>2. PICK c \in Contents :
        \/ Refused(a)
        \/ /\ fresh <= MaxIds /\ Create("ops", "work", fresh, IntentNode(c))
           /\ UNCHANGED <<call, returned>>
  BY DEF PostStep, PostIntent, Writes
<1>3. CASE Refused(a)
  BY <1>1, <1>3, RefusedStep
<1>4. CASE /\ fresh <= MaxIds /\ Create("ops", "work", fresh, IntentNode(c))
           /\ UNCHANGED <<call, returned>>
  <2>1. IntentNode(c) \in Node
    BY KindsAreNodes DEF IntentNode, NodeKinds
  <2>2. GraphTyped' /\ Made("ops", IntentNode(c)) /\ UNCHANGED <<gone, shut, open>>
    BY <1>1, <1>4, <2>1, CreateMade
  <2>3. QED
    BY <1>1, <1>4, <2>2, MakesStep DEF Aside
<1>5. QED
  BY <1>2, <1>3, <1>4

LEMMA SplitSteps ==
  ASSUME Typed, NEW a \in Agents, SplitStep(a)
  PROVE  /\ StepOf(a, "split")
         /\ Still \/ \E e : Tied("ops", e) /\ e.kind = "SplitFrom"
<1>1. /\ GraphTyped /\ call \in [Agents -> Calls] /\ "ops" \in Bridges
      /\ call[a].op = "idle" /\ Aside /\ UNCHANGED <<call, returned>> /\ "SplitFrom" \in EdgeKinds
  BY DEF Typed, SplitStep, SplitIntent, commsVars, Bridges, Starts, Idle, Aside, EdgeKinds
<1>2. PICK i, j : \/ CanLink("ops", i, j) /\ AddEdge("ops", i, j, "SplitFrom")
                  \/ UNCHANGED graph
  BY DEF SplitStep, SplitIntent
<1>3. CASE CanLink("ops", i, j) /\ AddEdge("ops", i, j, "SplitFrom")
  <2> DEFINE e == [from |-> i, to |-> j, kind |-> "SplitFrom"]
  <2>1. GraphTyped' /\ Tied("ops", e) /\ UNCHANGED <<gone, shut, open>>
    BY <1>1, <1>3, LinkTied
  <2>2. e.kind = "SplitFrom"
    OBVIOUS
  <2> HIDE DEF e
  <2>3. QED
    BY <1>1, <2>1, <2>2, MakesStep DEF Aside
<1>4. CASE UNCHANGED graph
  BY <1>1, <1>4, SameGraph, MakesStep DEF Aside
<1>5. QED
  BY <1>2, <1>3, <1>4

MergeStep(a) == (MergeIntents(a) \/ MergeBack(a)) /\ UNCHANGED commsVars

MergeEffect(a) ==
  \/ /\ call[a].op = "idle" /\ call'[a].op = "merge"
     /\ Tied("ops", [from |-> call'[a].to, to |-> call'[a].from, kind |-> "ConvergedWith"])
  \/ /\ call[a].op = "merge" /\ call'[a].op = "idle"
     /\ \/ Tied("ops", [from |-> call[a].from, to |-> call[a].to, kind |-> "ConvergedWith"])
        \/ Still /\ ~ CanLink("ops", call[a].from, call[a].to)

LEMMA MergeSteps ==
  ASSUME Typed, NEW a \in Agents, MergeStep(a)
  PROVE  StepOf(a, "merge") /\ MergeEffect(a)
<1>1. /\ GraphTyped /\ call \in [Agents -> Calls] /\ "ops" \in Bridges
      /\ UNCHANGED <<known, held, delivered, replayed>> /\ "ConvergedWith" \in EdgeKinds
      /\ "merge" \notin Verbose
  BY DEF Typed, MergeStep, MergeIntents, MergeBack, commsVars, Bridges, EdgeKinds, Verbose
<1>2. CASE MergeIntents(a)
  <2>1. PICK i \in Intents, j \in Intents :
          /\ CanLink("ops", i, j) /\ AddEdge("ops", i, j, "ConvergedWith")
          /\ Set(a, [op |-> "merge", at |-> "back", from |-> j, to |-> i])
    BY <1>2 DEF MergeIntents
  <2> DEFINE x == [op |-> "merge", at |-> "back", from |-> j, to |-> i]
  <2>2. x \in Calls /\ x.op = "merge" /\ x.from = j /\ x.to = i
    <3>1. x \in MergeCalls
      BY <1>1, IntentsHaveContents DEF MergeCalls
    <3>2. QED
      BY <3>1 DEF Calls
  <2>3. call[a].op = "idle" /\ Aside /\ returned' = returned /\ Set(a, x)
    BY <1>1, <1>2, <2>1 DEF MergeIntents, Starts, Idle, Aside
  <2> HIDE DEF x
  <2>4. call' \in [Agents -> Calls] /\ call'[a] = x /\ \A d \in Agents \ {a} : call'[d] = call[d]
    BY <1>1, <2>2, <2>3, SetCall
  <2>5. /\ GraphTyped' /\ UNCHANGED <<gone, shut, open>>
        /\ Tied("ops", [from |-> i, to |-> j, kind |-> "ConvergedWith"])
    BY <1>1, <2>1, LinkTied
  <2>6. StepOf(a, "merge")
    BY <2>2, <2>3, <2>4, <2>5, MakesStep DEF Aside
  <2>7. QED
    BY <2>2, <2>3, <2>4, <2>5, <2>6 DEF MergeEffect
<1>3. CASE MergeBack(a)
  <2>1. call[a].op = "merge" /\ Aside
    BY <1>1, <1>3 DEF MergeBack, At, bounds, Aside
  <2>2. CASE /\ CanLink("ops", call[a].from, call[a].to) /\ Return(a, [ok |-> TRUE])
             /\ AddEdge("ops", call[a].from, call[a].to, "ConvergedWith")
    <3>1. /\ GraphTyped' /\ UNCHANGED <<gone, shut, open>>
          /\ Tied("ops", [from |-> call[a].from, to |-> call[a].to, kind |-> "ConvergedWith"])
      BY <1>1, <2>2, LinkTied
    <3>2. /\ call' \in [Agents -> Calls] /\ call'[a].op = "idle"
          /\ \A d \in Agents \ {a} : call'[d] = call[d]
          /\ returned \subseteq returned'
          /\ \A r \in returned' \ returned : r.op = call[a].op /\ r.result = [ok |-> TRUE]
      BY <1>1, <2>2, ReturnCall
    <3>3. \A r \in returned' \ returned : r.op = call[a].op /\ Plain(r)
      BY <3>2 DEF Plain
    <3>4. StepOf(a, "merge")
      BY <2>1, <3>1, <3>2, <3>3, MakesStep DEF Aside
    <3>5. QED
      BY <2>1, <3>1, <3>2, <3>4 DEF MergeEffect
  <2>3. CASE ~ CanLink("ops", call[a].from, call[a].to) /\ Refused(a)
    BY <2>1, <2>3, RefusedStep DEF MergeEffect, Returns
  <2>4. QED
    BY <1>3, <2>2, <2>3 DEF MergeBack
<1>4. QED
  BY <1>2, <1>3 DEF MergeStep

EvidenceStep(a) ==
  /\ \/ \E degraded \in BOOLEAN : SubmitEvidence(a, degraded)
     \/ WriteEvidence(a) \/ LinkEvidence(a)
  /\ UNCHANGED commsVars

EvidenceEffect(a) ==
  \/ /\ call[a].op = "idle" /\ Still
     /\ call'[a].op = "evidence" /\ call'[a].at = "write" /\ call'[a].target \in Intents
  \/ Still /\ call'[a].op = "idle" /\ ~ (call[a].op = "evidence" /\ call[a].at = "link")
  \/ /\ call[a].op = "evidence" /\ call[a].at = "write"
     /\ \E n \in Node :
          /\ Made("ops", n) /\ n.kind = "evidence" /\ n.about = call[a].target
          /\ \/ n.flagged /\ call'[a].op = "idle"
             \/ /\ ~ n.flagged
                /\ call'[a].op = "evidence" /\ call'[a].at = "link" /\ call'[a].id = fresh
                /\ call'[a].target = call[a].target
  \/ /\ call[a].op = "evidence" /\ call[a].at = "link" /\ call'[a].op = "idle"
     /\ \/ Tied("ops", [from |-> call[a].id, to |-> call[a].target, kind |-> "Fulfills"])
        \/ Still /\ ~ CanLink("ops", call[a].id, call[a].target)

Written(c, i) == [c EXCEPT !.at = "link", !.id = i]

LEMMA EvidenceSets ==
  ASSUME NEW c \in EvidenceCalls, NEW i \in OrNone
  PROVE  /\ Written(c, i) \in Calls /\ Written(c, i).op = "evidence"
         /\ Written(c, i).at = "link" /\ Written(c, i).id = i
         /\ Written(c, i).target = c.target
BY DEF EvidenceCalls, Calls, Written

LEMMA EvidenceSteps ==
  ASSUME Typed, NEW a \in Agents, EvidenceStep(a)
  PROVE  StepOf(a, "evidence") /\ EvidenceEffect(a)
<1>1. /\ GraphTyped /\ call \in [Agents -> Calls] /\ "ops" \in Bridges
      /\ UNCHANGED <<known, held, delivered, replayed>> /\ "Fulfills" \in EdgeKinds
      /\ "evidence" \notin Verbose
  BY DEF Typed, EvidenceStep, SubmitEvidence, WriteEvidence, LinkEvidence, commsVars, Bridges,
         EdgeKinds, Verbose
<1>2. call[a].op = "evidence" => call[a] \in EvidenceCalls
  BY <1>1, OpCalls
<1>3. CASE \E degraded \in BOOLEAN : SubmitEvidence(a, degraded)
  <2>1. PICK degraded \in BOOLEAN : SubmitEvidence(a, degraded)
    BY <1>3
  <2>2. PICK i \in Intents :
          Set(a, [op |-> "evidence", at |-> "write", target |-> i, id |-> 0,
                  content |-> nodes["ops"][i].content,
                  fallback |-> degraded \/ "work" \in shut])
    BY <2>1 DEF SubmitEvidence
  <2> DEFINE x == [op |-> "evidence", at |-> "write", target |-> i, id |-> 0,
                   content |-> nodes["ops"][i].content,
                   fallback |-> degraded \/ "work" \in shut]
  <2>3. x \in Calls /\ x.op = "evidence" /\ x.at = "write" /\ x.target = i
    <3>1. i \in Ids /\ nodes["ops"][i].content \in Contents /\ 0 \in OrNone
      BY <1>1, IntentsHaveContents, AgentCallsAssumption DEF OrNone
    <3>2. x \in EvidenceCalls
      BY <3>1 DEF EvidenceCalls
    <3>3. QED
      BY <3>2 DEF Calls
  <2>4. call[a].op = "idle" /\ Aside /\ UNCHANGED <<graph, returned>> /\ Set(a, x)
    BY <1>1, <2>1, <2>2 DEF SubmitEvidence, Starts, Idle, Aside
  <2> HIDE DEF x
  <2>5. StepOf(a, "evidence") /\ Still /\ UNCHANGED <<open, returned>> /\ call'[a] = x
    BY <2>3, <2>4, SetStep
  <2>6. QED
    BY <2>3, <2>4, <2>5 DEF EvidenceEffect
<1>4. CASE WriteEvidence(a)
  <2>1. /\ call[a].op = "evidence" /\ call[a].at = "write" /\ Aside /\ call[a] \in EvidenceCalls
        /\ call[a].content \in Contents /\ call[a].target \in Ids
    BY <1>1, <1>2, <1>4 DEF WriteEvidence, At, bounds, Aside, EvidenceCalls
  <2> DEFINE n == About("evidence", call[a].content, call[a].target)
  <2>2. /\ n \in Node /\ n.kind = "evidence" /\ n.about = call[a].target /\ ~ n.flagged
    <3>1. call[a].target \in 0..MaxIds /\ "evidence" \in NodeKinds
      BY <2>1, AgentCallsAssumption DEF Ids, NodeKinds
    <3>2. PICK k, c, i : k = "evidence" /\ c = call[a].content /\ i = call[a].target
      OBVIOUS
    <3>3. k \in NodeKinds
      BY <3>1, <3>2
    <3>4. c \in Contents
      BY <2>1, <3>2
    <3>5. i \in 0..MaxIds
      BY <3>1, <3>2
    <3>6. /\ About(k, c, i) \in Node /\ About(k, c, i).kind = k /\ About(k, c, i).about = i
          /\ ~ About(k, c, i).flagged
      BY <3>3, <3>4, <3>5, AboutsAreNodes
    <3>7. QED
      BY <3>2, <3>6
  <2> HIDE DEF n
  <2>3. /\ Fallback(n) \in Node /\ Fallback(n).kind = "evidence"
        /\ Fallback(n).about = call[a].target /\ Fallback(n).flagged
    BY <2>2, FlagsOfNodes
  <2> DEFINE d == Written(call[a], fresh)
  <2>4. \/ Refused(a)
        \/ /\ fresh <= MaxIds /\ Create("ops", "ops", fresh, Fallback(n))
           /\ Return(a, [ok |-> TRUE])
        \/ /\ fresh <= MaxIds /\ Create("ops", "ops", fresh, n)
           /\ Set(a, d) /\ returned' = returned
    BY <1>4 DEF WriteEvidence, Writes, Stay, n, Written
  <2>5. CASE Refused(a)
    BY <2>1, <2>5, RefusedStep DEF EvidenceEffect, Returns
  <2>6. CASE /\ fresh <= MaxIds /\ Create("ops", "ops", fresh, Fallback(n))
             /\ Return(a, [ok |-> TRUE])
    <3>1. GraphTyped' /\ Made("ops", Fallback(n)) /\ UNCHANGED <<gone, shut, open>>
      BY <1>1, <2>3, <2>6, CreateMade
    <3>2. /\ call' \in [Agents -> Calls] /\ call'[a].op = "idle"
          /\ \A e \in Agents \ {a} : call'[e] = call[e]
          /\ returned \subseteq returned'
          /\ \A r \in returned' \ returned : r.op = call[a].op /\ r.result = [ok |-> TRUE]
      BY <1>1, <2>6, ReturnCall
    <3>3. \A r \in returned' \ returned : r.op = call[a].op /\ Plain(r)
      BY <3>2 DEF Plain
    <3>4. StepOf(a, "evidence")
      BY <2>1, <3>1, <3>2, <3>3, MakesStep DEF Aside
    <3>5. QED
      BY <2>1, <2>3, <3>1, <3>2, <3>4 DEF EvidenceEffect
  <2>7. CASE /\ fresh <= MaxIds /\ Create("ops", "ops", fresh, n)
             /\ Set(a, d) /\ returned' = returned
    <3>1. fresh \in OrNone
      BY <1>1, <2>7, AgentCallsAssumption DEF GraphTyped, OrNone
    <3>2. /\ d \in Calls /\ d.op = "evidence" /\ d.at = "link" /\ d.id = fresh
          /\ d.target = call[a].target
      BY <2>1, <3>1, EvidenceSets
    <3> HIDE DEF d
    <3>3. StepOf(a, "evidence") /\ Made("ops", n) /\ UNCHANGED <<open, returned>> /\ call'[a] = d
      BY <1>1, <2>1, <2>2, <2>7, <3>2, MadeStep
    <3>4. QED
      BY <2>1, <2>2, <3>2, <3>3 DEF EvidenceEffect
  <2>8. QED
    BY <2>4, <2>5, <2>6, <2>7
<1>5. CASE LinkEvidence(a)
  <2>1. call[a].op = "evidence" /\ call[a].at = "link" /\ Aside
    BY <1>1, <1>5 DEF LinkEvidence, At, bounds, Aside
  <2>2. CASE /\ CanLink("ops", call[a].id, call[a].target) /\ Return(a, [ok |-> TRUE])
             /\ AddEdge("ops", call[a].id, call[a].target, "Fulfills")
    <3>1. /\ GraphTyped' /\ UNCHANGED <<gone, shut, open>>
          /\ Tied("ops", [from |-> call[a].id, to |-> call[a].target, kind |-> "Fulfills"])
      BY <1>1, <2>2, LinkTied
    <3>2. /\ call' \in [Agents -> Calls] /\ call'[a].op = "idle"
          /\ \A d \in Agents \ {a} : call'[d] = call[d]
          /\ returned \subseteq returned'
          /\ \A r \in returned' \ returned : r.op = call[a].op /\ r.result = [ok |-> TRUE]
      BY <1>1, <2>2, ReturnCall
    <3>3. \A r \in returned' \ returned : r.op = call[a].op /\ Plain(r)
      BY <3>2 DEF Plain
    <3>4. StepOf(a, "evidence")
      BY <2>1, <3>1, <3>2, <3>3, MakesStep DEF Aside
    <3>5. QED
      BY <2>1, <3>1, <3>2, <3>4 DEF EvidenceEffect
  <2>3. CASE ~ CanLink("ops", call[a].id, call[a].target) /\ Refused(a)
    BY <2>1, <2>3, RefusedStep DEF EvidenceEffect, Returns
  <2>4. QED
    BY <1>5, <2>2, <2>3 DEF LinkEvidence
<1>6. QED
  BY <1>3, <1>4, <1>5 DEF EvidenceStep

RelinkStep(a) ==
  /\ ReplayEvidence(a) \/ RelinkFind(a) \/ RelinkAdd(a) \/ RelinkReturns(a)
  /\ UNCHANGED commsVars

RelinkEffect(a) ==
  \/ /\ call[a].op = "idle" /\ Still /\ replayed' = replayed
     /\ call'[a].op = "relink" /\ call'[a].at = "next" /\ call'[a].done = {}
     /\ call'[a].todo = {<<e, nodes["ops"][e].content>> : e \in Deferred(a)}
  \/ /\ call[a].op = "relink" /\ call[a].at = "next" /\ Still /\ replayed' = replayed
     /\ \E x \in call[a].todo :
          /\ call'[a].op = "relink" /\ call'[a].done = call[a].done
          /\ call'[a].todo = call[a].todo \ {x}
          /\ \/ call'[a].at = "next"
             \/ call'[a].at = "link" /\ call'[a].evidence = x[1]
  \/ /\ call[a].op = "relink" /\ call[a].at = "link" /\ replayed' = replayed
     /\ call'[a].op = "relink" /\ call'[a].at = "next" /\ call'[a].todo = call[a].todo
     /\ \/ /\ Tied("ops", [from |-> call[a].evidence, to |-> call[a].target,
                           kind |-> "Fulfills"])
           /\ call'[a].done = call[a].done \cup {call[a].evidence}
        \/ Still /\ call'[a].done = call[a].done
  \/ /\ call[a].op = "relink" /\ call[a].at = "next" /\ Still /\ call'[a].op = "idle"
     /\ replayed' = [replayed EXCEPT ![a] = @ \cup call[a].done]

Passed(c, x) == [c EXCEPT !.todo = @ \ {x}]
Aimed(c, x, e, i) == [Passed(c, x) EXCEPT !.at = "link", !.evidence = e, !.target = i]
Relinked(c) == [c EXCEPT !.at = "next", !.done = @ \cup {c.evidence}]
Unlinked(c) == [c EXCEPT !.at = "next"]

LEMMA RelinkSets ==
  ASSUME NEW c \in RelinkCalls, NEW x, NEW e \in OrNone, NEW i \in OrNone
  PROVE  /\ \A d \in {Passed(c, x), Aimed(c, x, e, i)} :
              /\ d \in Calls /\ d.op = "relink" /\ d.done = c.done /\ d.todo = c.todo \ {x}
         /\ Passed(c, x).at = c.at
         /\ Aimed(c, x, e, i).at = "link" /\ Aimed(c, x, e, i).evidence = e
<1>1. LET d == Passed(c, x) IN
      /\ d \in RelinkCalls /\ d.op = "relink" /\ d.done = c.done /\ d.todo = c.todo \ {x}
      /\ d.at = c.at
  BY DEF Passed, RelinkCalls
<1>2. ASSUME NEW d \in RelinkCalls
      PROVE  LET f == [d EXCEPT !.at = "link", !.evidence = e, !.target = i] IN
             /\ f \in RelinkCalls /\ f.op = "relink" /\ f.done = d.done /\ f.todo = d.todo
             /\ f.at = "link" /\ f.evidence = e
  BY DEF RelinkCalls
<1>3. RelinkCalls \subseteq Calls
  BY DEF Calls
<1>4. QED
  BY <1>1, <1>2, <1>3 DEF Aimed

LEMMA RelinkMoves ==
  ASSUME NEW c \in RelinkCalls
  PROVE  /\ Unlinked(c) \in Calls /\ Unlinked(c).op = "relink" /\ Unlinked(c).at = "next"
         /\ Unlinked(c).todo = c.todo /\ Unlinked(c).done = c.done
         /\ c.evidence \in Ids =>
              /\ Relinked(c) \in Calls /\ Relinked(c).op = "relink" /\ Relinked(c).at = "next"
              /\ Relinked(c).todo = c.todo /\ Relinked(c).done = c.done \cup {c.evidence}
BY DEF RelinkCalls, Calls, Unlinked, Relinked

LEMMA RelinkSteps ==
  ASSUME Typed, NEW a \in Agents, RelinkStep(a)
  PROVE  StepOf(a, "relink") /\ RelinkEffect(a)
<1>1. /\ GraphTyped /\ call \in [Agents -> Calls] /\ "ops" \in Bridges
      /\ UNCHANGED <<known, held, delivered>> /\ "Fulfills" \in EdgeKinds
      /\ "relink" \notin Verbose
  BY DEF Typed, RelinkStep, commsVars, Bridges, EdgeKinds, Verbose
<1>2. call[a].op = "relink" => call[a] \in RelinkCalls
  BY <1>1, OpCalls
<1>3. CASE ReplayEvidence(a)
  <2> DEFINE x == [op |-> "relink", at |-> "next", done |-> {}, evidence |-> 0, target |-> 0,
                   todo |-> {<<e, nodes["ops"][e].content>> : e \in Deferred(a)}]
  <2>1. x \in RelinkCalls
    <3>1. \A e \in Deferred(a) : e \in Ids /\ nodes["ops"][e].content \in Contents
      BY <1>1, NodeTyped DEF Deferred, OfKind, Node
    <3>2. 0 \in OrNone
      BY AgentCallsAssumption DEF OrNone
    <3>3. QED
      BY <3>1, <3>2 DEF RelinkCalls
  <2>2. x \in Calls /\ x.op = "relink" /\ x.at = "next" /\ x.done = {}
        /\ x.todo = {<<e, nodes["ops"][e].content>> : e \in Deferred(a)}
    BY <2>1 DEF Calls
  <2>3. call[a].op = "idle" /\ Aside /\ UNCHANGED <<graph, returned>> /\ Set(a, x)
    BY <1>1, <1>3 DEF ReplayEvidence, Starts, Idle, Aside
  <2> HIDE DEF x
  <2>4. StepOf(a, "relink") /\ Still /\ UNCHANGED <<open, returned>> /\ call'[a] = x
    BY <2>2, <2>3, SetStep
  <2>5. QED
    BY <2>2, <2>3, <2>4 DEF RelinkEffect, Aside
<1>4. CASE RelinkFind(a)
  <2>1. /\ call[a].op = "relink" /\ call[a].at = "next" /\ Aside /\ call[a] \in RelinkCalls
        /\ UNCHANGED <<graph, returned>>
    BY <1>1, <1>2, <1>4 DEF RelinkFind, At, bounds, Aside
  <2>2. PICK x \in call[a].todo :
          \/ Set(a, Passed(call[a], x))
          \/ \E i \in Matches("ops", "intent", x[2]) : Set(a, Aimed(call[a], x, x[1], i))
    BY <1>4 DEF RelinkFind, Passed, Aimed
  <2>3. x[1] \in OrNone /\ 0 \in OrNone
    BY <2>1, AgentCallsAssumption DEF RelinkCalls, OrNone, Ids
  <2>4. CASE Set(a, Passed(call[a], x))
    <3> DEFINE d == Passed(call[a], x)
    <3>1. /\ d \in Calls /\ d.op = "relink" /\ d.done = call[a].done
          /\ d.todo = call[a].todo \ {x} /\ d.at = "next"
      BY <2>1, <2>3, RelinkSets
    <3> HIDE DEF d
    <3>2. StepOf(a, "relink") /\ Still /\ UNCHANGED <<open, returned>> /\ call'[a] = d
      <4>1. Set(a, d)
        BY <2>4 DEF d
      <4>2. QED
        BY <2>1, <3>1, <4>1, SetStep
    <3>3. QED
      BY <2>1, <3>1, <3>2 DEF RelinkEffect, Aside
  <2>5. ASSUME NEW i \in Matches("ops", "intent", x[2]), Set(a, Aimed(call[a], x, x[1], i))
        PROVE  StepOf(a, "relink") /\ RelinkEffect(a)
    <3> DEFINE d == Aimed(call[a], x, x[1], i)
    <3>1. i \in OrNone
      BY <1>1, MatchesAreIds
    <3>2. /\ d \in Calls /\ d.op = "relink" /\ d.done = call[a].done
          /\ d.todo = call[a].todo \ {x} /\ d.at = "link" /\ d.evidence = x[1]
      <4>1. PICK e : e = x[1]
        OBVIOUS
      <4>2. e \in OrNone
        BY <2>3, <4>1
      <4> DEFINE f == Aimed(call[a], x, e, i)
      <4>3. /\ f \in Calls /\ f.op = "relink" /\ f.done = call[a].done
            /\ f.todo = call[a].todo \ {x} /\ f.at = "link" /\ f.evidence = e
        BY <2>1, <3>1, <4>2, RelinkSets
      <4>4. QED
        BY <4>1, <4>3
    <3> HIDE DEF d
    <3>3. StepOf(a, "relink") /\ Still /\ UNCHANGED <<open, returned>> /\ call'[a] = d
      <4>1. Set(a, d)
        BY <2>5 DEF d
      <4>2. QED
        BY <2>1, <3>2, <4>1, SetStep
    <3>4. QED
      BY <2>1, <3>2, <3>3 DEF RelinkEffect, Aside
  <2>6. QED
    BY <2>2, <2>4, <2>5
<1>5. CASE RelinkAdd(a)
  <2>1. /\ call[a].op = "relink" /\ call[a].at = "link" /\ Aside /\ call[a] \in RelinkCalls
        /\ returned' = returned
    BY <1>1, <1>2, <1>5 DEF RelinkAdd, At, bounds, Aside
  <2>2. CASE /\ CanLink("ops", call[a].evidence, call[a].target)
             /\ AddEdge("ops", call[a].evidence, call[a].target, "Fulfills")
             /\ Set(a, Relinked(call[a]))
    <3> DEFINE d == Relinked(call[a])
    <3>1. call[a].evidence \in Ids
      BY <1>1, <2>2, NodeTyped DEF CanLink
    <3>2. /\ d \in Calls /\ d.op = "relink" /\ d.at = "next" /\ d.todo = call[a].todo
          /\ d.done = call[a].done \cup {call[a].evidence}
      BY <2>1, <3>1, RelinkMoves
    <3> HIDE DEF d
    <3>3. Set(a, d)
      BY <2>2 DEF d
    <3>4. call' \in [Agents -> Calls] /\ call'[a] = d /\ \A f \in Agents \ {a} : call'[f] = call[f]
      BY <1>1, <3>2, <3>3, SetCall
    <3>5. /\ GraphTyped' /\ UNCHANGED <<gone, shut, open>>
          /\ Tied("ops", [from |-> call[a].evidence, to |-> call[a].target, kind |-> "Fulfills"])
      BY <1>1, <2>2, LinkTied
    <3>6. StepOf(a, "relink")
      BY <2>1, <3>2, <3>4, <3>5, MakesStep DEF Aside
    <3>7. QED
      BY <2>1, <3>2, <3>4, <3>5, <3>6 DEF RelinkEffect, Aside
  <2>3. CASE Set(a, Unlinked(call[a])) /\ UNCHANGED graph
    <3> DEFINE d == Unlinked(call[a])
    <3>1. /\ d \in Calls /\ d.op = "relink" /\ d.at = "next" /\ d.todo = call[a].todo
          /\ d.done = call[a].done
      BY <2>1, RelinkMoves
    <3> HIDE DEF d
    <3>2. StepOf(a, "relink") /\ Still /\ UNCHANGED <<open, returned>> /\ call'[a] = d
      <4>1. Set(a, d)
        BY <2>3 DEF d
      <4>2. QED
        BY <2>1, <2>3, <3>1, <4>1, SetStep
    <3>3. QED
      BY <2>1, <3>1, <3>2 DEF RelinkEffect, Aside
  <2>4. QED
    BY <1>5, <2>2, <2>3 DEF RelinkAdd, Goto, Relinked, Unlinked
<1>6. CASE RelinkReturns(a)
  <2>1. /\ call[a].op = "relink" /\ call[a].at = "next" /\ triggers' = triggers
        /\ call[a] \in RelinkCalls /\ UNCHANGED graph /\ Return(a, [ok |-> TRUE])
        /\ replayed' = [replayed EXCEPT ![a] = @ \cup call[a].done]
    BY <1>1, <1>2, <1>6 DEF RelinkReturns, At, bounds
  <2>2. GraphTyped' /\ Still /\ UNCHANGED <<gone, shut, open>>
    BY <2>1, SameGraph
  <2>3. /\ call' \in [Agents -> Calls] /\ call'[a].op = "idle"
        /\ \A d \in Agents \ {a} : call'[d] = call[d]
        /\ returned \subseteq returned'
        /\ \A r \in returned' \ returned : r.op = call[a].op /\ r.result = [ok |-> TRUE]
    BY <1>1, <2>1, ReturnCall
  <2>4. Typed'
    BY <1>1, <2>1, <2>2, <2>3 DEF Typed, SidesTyped, RelinkCalls
  <2>5. \A r \in returned' \ returned : r.op = call[a].op /\ Plain(r)
    BY <2>3 DEF Plain
  <2>6. StepOf(a, "relink")
    BY <1>1, <2>1, <2>2, <2>3, <2>4, <2>5 DEF StepOf
  <2>7. QED
    BY <2>1, <2>2, <2>3, <2>6 DEF RelinkEffect
<1>7. QED
  BY <1>3, <1>4, <1>5, <1>6 DEF RelinkStep

QueryStep(a) ==
  /\ QueryScan(a) \/ QueryEdges(a) \/ QueryRow(a) \/ QueryReturns(a)
  /\ UNCHANGED commsVars

Unclaimed == {"Orphaned", "Unstarted"}

SameQuery(a) ==
  /\ call'[a].op = "query"
  /\ call'[a].intents = call[a].intents /\ call'[a].since = call[a].since

QueryEffect(a) ==
  /\ Still
  /\ \/ /\ call'[a].op = "query" /\ call'[a].at = "edges" /\ call'[a].rows = {}
        /\ call'[a].claims = [c \in Contents |-> Cardinality(ClaimsOn(c))]
        /\ call'[a].since = fresh
     \/ /\ call[a].op = "query" /\ call[a].at = "edges" /\ SameQuery(a)
        /\ call'[a].at = "rows" /\ call'[a].todo = DOMAIN call[a].intents
        /\ call'[a].claims = call[a].claims /\ call'[a].rows = call[a].rows
     \/ /\ call[a].op = "query" /\ call[a].at = "rows" /\ SameQuery(a) /\ call'[a].at = "rows"
        /\ \E i \in call[a].todo, status \in Statuses :
             /\ status \in Unclaimed => call[a].claims[call[a].intents[i]] = 0
             /\ call'[a].todo = call[a].todo \ {i}
             /\ call'[a].claims = [call[a].claims EXCEPT ![call[a].intents[i]] = 0]
             /\ call'[a].rows = call[a].rows \cup {[id |-> i, status |-> status]}
     \/ call'[a].op = "idle"

Reads(c, S, T) == [c EXCEPT !.at = "rows", !.todo = DOMAIN c.intents, !.split = S, !.evidence = T]
Reports(c, i, d, s) == [c EXCEPT !.todo = @ \ {i}, !.claims = [@ EXCEPT ![d] = 0],
                                 !.rows = @ \cup {[id |-> i, status |-> s]}]

LEMMA QuerySets ==
  ASSUME NEW c \in QueryCalls, NEW S \in SUBSET Ids, NEW T \in SUBSET Contents
  PROVE  LET f == Reads(c, S, T) IN
         /\ f \in Calls /\ f.op = "query" /\ f.at = "rows" /\ f.todo = DOMAIN c.intents
         /\ f.claims = c.claims /\ f.rows = c.rows /\ f.intents = c.intents /\ f.since = c.since
<1>1. DOMAIN c.intents \in SUBSET Ids
  BY DEF QueryCalls, ContentsOf
<1>2. LET f == Reads(c, S, T) IN
         /\ f \in QueryCalls /\ f.op = "query" /\ f.at = "rows" /\ f.todo = DOMAIN c.intents
         /\ f.claims = c.claims /\ f.rows = c.rows /\ f.intents = c.intents /\ f.since = c.since
  BY <1>1 DEF QueryCalls, Reads
<1>3. QED
  BY <1>2 DEF Calls

\* Call f is c with the row of i reported as s.
Reported(f, c, i, d, s) ==
  /\ f \in Calls /\ f.op = "query" /\ f.at = c.at /\ f.todo = c.todo \ {i}
  /\ f.claims = [c.claims EXCEPT ![d] = 0]
  /\ f.rows = c.rows \cup {[id |-> i, status |-> s]}
  /\ f.intents = c.intents /\ f.since = c.since

LEMMA QueryReports ==
  ASSUME NEW c \in QueryCalls, NEW i, i \in c.todo, NEW d, NEW s \in Statuses
  PROVE  Reported(Reports(c, i, d, s), c, i, d, s)
<1>1. [c.claims EXCEPT ![d] = 0] \in [Contents -> Nat]
  BY DEF QueryCalls
<1>2. c.todo \ {i} \in SUBSET Ids
  BY DEF QueryCalls
<1>3. c.rows \cup {[id |-> i, status |-> s]} \in SUBSET [id : Ids, status : Statuses]
  BY DEF QueryCalls
<1>4. LET f == Reports(c, i, d, s) IN
         /\ f \in QueryCalls /\ f.op = "query" /\ f.at = c.at /\ f.todo = c.todo \ {i}
         /\ f.claims = [c.claims EXCEPT ![d] = 0]
         /\ f.rows = c.rows \cup {[id |-> i, status |-> s]}
         /\ f.intents = c.intents /\ f.since = c.since
  BY <1>1, <1>2, <1>3 DEF QueryCalls, Reports
<1>5. QED
  BY <1>4 DEF Calls, Reported

LEMMA ClaimsCounted ==
  ASSUME GraphTyped, NEW c
  PROVE  /\ ClaimsOn(c) \subseteq Ids /\ IsFiniteSet(ClaimsOn(c))
         /\ Cardinality(ClaimsOn(c)) \in Nat
         /\ Cardinality(ClaimsOn(c)) = 0 <=> ClaimsOn(c) = {}
<1>1. ClaimsOn(c) \subseteq Ids
  BY NodeTyped DEF ClaimsOn, OfKind, Bridges
<1>2. IsFiniteSet(ClaimsOn(c))
  BY <1>1, IdsAreNaturals, FS_Subset
<1>3. QED
  BY <1>1, <1>2, FS_CardinalityType, FS_EmptySet

LEMMA QuerySteps ==
  ASSUME Typed, NEW a \in Agents, QueryStep(a)
  PROVE  StepOf(a, "query") /\ QueryEffect(a)
<1>1. /\ GraphTyped /\ call \in [Agents -> Calls] /\ "query" \notin Verbose
      /\ UNCHANGED <<known, held, delivered, replayed>> /\ UNCHANGED <<graph, returned>>
  BY DEF Typed, QueryStep, QueryScan, QueryEdges, QueryRow, QueryReturns, commsVars, Verbose
<1>2. call[a].op = "query" => call[a] \in QueryCalls
  BY <1>1, OpCalls
<1>3. CASE QueryScan(a)
  <2> DEFINE f == [i \in Intents |-> nodes["ops"][i].content]
             g == [c \in Contents |-> Cardinality(ClaimsOn(c))]
             x == [op |-> "query", at |-> "edges", todo |-> {}, split |-> {}, evidence |-> {},
                   intents |-> f, claims |-> g, rows |-> {}, since |-> fresh]
  <2>1. f \in ContentsOf
    <3>1. f \in [Intents -> Contents] /\ Intents \subseteq Ids
      BY <1>1, IntentsHaveContents
    <3>2. QED
      BY <3>1 DEF ContentsOf
  <2>2. g \in [Contents -> Nat] /\ fresh \in Nat
    BY <1>1, ClaimsCounted, AgentCallsAssumption DEF GraphTyped
  <2> HIDE DEF f, g
  <2>3. /\ x \in Calls /\ x.op = "query" /\ x.at = "edges" /\ x.rows = {} /\ x.claims = g
        /\ x.since = fresh
    <3>1. x \in QueryCalls
      BY <2>1, <2>2 DEF QueryCalls
    <3>2. QED
      BY <3>1 DEF Calls
  <2>4. call[a].op = "idle" /\ Aside /\ Set(a, x)
    BY <1>1, <1>3 DEF QueryScan, Starts, Idle, Aside, f, g
  <2> HIDE DEF x
  <2>5. StepOf(a, "query") /\ Still /\ UNCHANGED <<open, returned>> /\ call'[a] = x
    BY <1>1, <2>3, <2>4, SetStep
  <2>6. QED
    BY <2>3, <2>5 DEF QueryEffect, g
<1>4. CASE QueryEdges(a)
  <2>1. call[a].op = "query" /\ call[a].at = "edges" /\ Aside /\ call[a] \in QueryCalls
    BY <1>1, <1>2, <1>4 DEF QueryEdges, At, bounds, Aside
  <2>2. PICK S \in SUBSET Ids, T \in SUBSET Contents : Set(a, Reads(call[a], S, T))
    <3> DEFINE incoming(k) == {i \in DOMAIN call[a].intents :
                                \E s \in In("ops") : Linked("ops", s, i, k)}
               split == incoming("SplitFrom")
               evidence == {call[a].intents[i] : i \in incoming("Fulfills")}
    <3>1. /\ DOMAIN call[a].intents \in SUBSET Ids
          /\ \A i \in DOMAIN call[a].intents : call[a].intents[i] \in Contents
      BY <2>1 DEF QueryCalls, ContentsOf
    <3>2. split \in SUBSET Ids /\ evidence \in SUBSET Contents
      BY <3>1
    <3>3. Set(a, Reads(call[a], split, evidence))
      BY <1>4 DEF QueryEdges, Reads
    <3> HIDE DEF split, evidence
    <3>4. QED
      BY <3>2, <3>3
  <2> DEFINE d == Reads(call[a], S, T)
  <2>3. /\ d \in Calls /\ d.op = "query" /\ d.at = "rows" /\ d.todo = DOMAIN call[a].intents
        /\ d.claims = call[a].claims /\ d.rows = call[a].rows
        /\ d.intents = call[a].intents /\ d.since = call[a].since
    BY <2>1, QuerySets
  <2> HIDE DEF d
  <2>4. StepOf(a, "query") /\ Still /\ UNCHANGED <<open, returned>> /\ call'[a] = d
    <3>1. Set(a, d)
      BY <2>2 DEF d
    <3>2. QED
      BY <1>1, <2>1, <2>3, <3>1, SetStep
  <2>5. QED
    BY <2>1, <2>3, <2>4 DEF QueryEffect, SameQuery
<1>5. CASE QueryRow(a)
  <2>1. call[a].op = "query" /\ call[a].at = "rows" /\ Aside /\ call[a] \in QueryCalls
    BY <1>1, <1>2, <1>5 DEF QueryRow, At, bounds, Aside
  <2>2. PICK i \in call[a].todo, s \in Statuses :
          /\ s \in Unclaimed => call[a].claims[call[a].intents[i]] = 0
          /\ Set(a, Reports(call[a], i, call[a].intents[i], s))
    <3>1. PICK i \in call[a].todo, faint \in BOOLEAN, old \in BOOLEAN, stale \in BOOLEAN,
               checked \in BOOLEAN :
            LET c == call[a].intents[i]
                passes == checked /\ OfKind("ops", "evidence") # {}
                status == Classify(c, i \in call[a].split, faint, old, call[a].claims[c],
                                   c \in call[a].evidence, passes, stale)
            IN Set(a, Reports(call[a], i, c, status))
      BY <1>5 DEF QueryRow, Taken, Reports
    <3> DEFINE c == call[a].intents[i]
               passes == checked /\ OfKind("ops", "evidence") # {}
               status == Classify(c, i \in call[a].split, faint, old, call[a].claims[c],
                                  c \in call[a].evidence, passes, stale)
    <3>2. status \in Statuses /\ (status \in Unclaimed => call[a].claims[c] = 0)
      BY DEF Classify, Statuses, Unclaimed
    <3> HIDE DEF status
    <3>3. QED
      BY <3>1, <3>2 DEF status
  <2>3. PICK y, e : y = call[a] /\ e = call[a].intents[i]
    OBVIOUS
  <2> DEFINE d == Reports(y, i, e, s)
  <2>4. /\ d \in Calls /\ d.op = "query" /\ d.at = "rows" /\ d.todo = call[a].todo \ {i}
        /\ d.claims = [call[a].claims EXCEPT ![e] = 0]
        /\ d.rows = call[a].rows \cup {[id |-> i, status |-> s]}
        /\ d.intents = call[a].intents /\ d.since = call[a].since
    <3>1. Reported(d, y, i, e, s)
      <4>1. y \in QueryCalls /\ i \in y.todo
        BY <2>1, <2>3
      <4>2. QED
        BY <4>1, QueryReports
    <3> HIDE DEF d
    <3>2. QED
      BY <2>1, <2>3, <3>1 DEF Reported
  <2> HIDE DEF d
  <2>5. StepOf(a, "query") /\ Still /\ UNCHANGED <<open, returned>> /\ call'[a] = d
    <3>1. Set(a, d)
      BY <2>2, <2>3 DEF d
    <3>2. QED
      BY <1>1, <2>1, <2>4, <3>1, SetStep
  <2>6. QED
    BY <2>1, <2>2, <2>3, <2>4, <2>5 DEF QueryEffect, SameQuery
<1>6. CASE QueryReturns(a)
  <2>1. call[a].op = "query" /\ Aside /\ Set(a, Idle)
    BY <1>1, <1>6 DEF QueryReturns, At, bounds, Aside
  <2>2. Idle \in Calls /\ Idle.op = "idle"
    BY DEF Calls, Idle
  <2>3. StepOf(a, "query") /\ Still /\ UNCHANGED <<open, returned>> /\ call'[a] = Idle
    BY <1>1, <2>1, <2>2, SetStep
  <2>4. QED
    BY <2>2, <2>3 DEF QueryEffect
<1>7. QED
  BY <1>3, <1>4, <1>5, <1>6 DEF QueryStep

-----------------------------------------------------------------------------
(***************************************************************************)
(* All steps: which helper makes which node and which edge, and what no    *)
(* step undoes.                                                            *)
(***************************************************************************)
MayMake(f, b, k) ==
  \/ f = "message" /\ k = "message"
  \/ f = "decision" /\ b = "comms" /\ k \in {"decision", "marker"}
  \/ f = "operator" /\ b = "comms" /\ k \in {"message", "companion"}
  \/ f \in {"intent", "claim", "evidence"} /\ b = "ops" /\ k = f

MayTie(f, b, k) ==
  \/ f = "decision" /\ b = "comms" /\ k = "Thread"
  \/ f = "operator" /\ b = "comms" /\ k = "DerivedFrom"
  \/ f = "split" /\ b = "ops" /\ k = "SplitFrom"
  \/ f = "merge" /\ b = "ops" /\ k = "ConvergedWith"
  \/ f \in {"evidence", "relink"} /\ b = "ops" /\ k = "Fulfills"

GraphEffect(a, f) ==
  \/ Still
  \/ \E b \in Bridges, n \in Node :
       Made(b, n) /\ MayMake(f, b, n.kind) /\ (b = "comms" => ~ n.flagged)
  \/ \E b \in Bridges, e \in Edge : Tied(b, e) /\ MayTie(f, b, e.kind)
  \/ f = "replay" /\ call[a].op = "replay"
     /\ \E x \in call[a].todo, n \in Node : Rewrote(x[1], n)

AgentStep(a) ==
  \/ MessageStep(a) \/ ReplayStep(a) \/ DecisionStep(a) \/ OperatorStep(a)
  \/ CheckStep(a) \/ AuditStep(a) \/ PostStep(a) \/ ClaimStep(a) \/ SplitStep(a)
  \/ MergeStep(a) \/ EvidenceStep(a) \/ RelinkStep(a) \/ QueryStep(a)

AgentEffect(a, f) ==
  /\ StepOf(a, f) /\ GraphEffect(a, f)
  /\ f = "replay" => ReplayStep(a)
  /\ f = "decision" => DecisionEffect(a)
  /\ f = "operator" => OperatorEffect(a)
  /\ f = "check" => CheckEffect(a)
  /\ f = "audit" => AuditEffect(a)
  /\ f = "merge" => MergeEffect(a)
  /\ f = "evidence" => EvidenceEffect(a)
  /\ f = "relink" => RelinkEffect(a)
  /\ f = "query" => QueryEffect(a)

LEMMA AgentSteps ==
  ASSUME Typed, NEW a \in Agents, TodoHeld(a), AgentStep(a)
  PROVE  \E f : AgentEffect(a, f)
<1>1. GraphTyped /\ {"comms", "ops"} \subseteq Bridges
  BY DEF Typed, Bridges
<1>2. CASE MessageStep(a)
  <2>1. StepOf(a, "message")
    BY <1>2, MessageSteps
  <2>2. GraphEffect(a, "message")
    BY <1>2, MessageSteps DEF GraphEffect, MayMake, Bridges
  <2>3. QED
    BY <2>1, <2>2 DEF AgentEffect
<1>3. CASE ReplayStep(a)
  <2>1. StepOf(a, "replay")
    BY <1>3, ReplaySteps
  <2>2. GraphEffect(a, "replay")
    BY <1>3, ReplaySteps DEF GraphEffect
  <2>3. QED
    BY <1>3, <2>1, <2>2 DEF AgentEffect
<1>4. CASE DecisionStep(a)
  <2>1. StepOf(a, "decision") /\ DecisionEffect(a)
    BY <1>4, DecisionSteps
  <2>2. \/ Still
        \/ \E n \in Node : Made("comms", n) /\ n.kind \in {"decision", "marker"} /\ ~ n.flagged
        \/ \E e \in Edge : Tied("comms", e) /\ e.kind = "Thread"
    <3>1. /\ About("decision", AnyContent, Item).kind = "decision"
          /\ ~ About("decision", AnyContent, Item).flagged
          /\ MarkerNode(Item).kind = "marker" /\ ~ MarkerNode(Item).flagged
      <4>1. AnyContent \in Contents /\ Item \in 0..MaxIds
        BY AgentCallsAssumption DEF Typed, SidesTyped, Item
      <4>2. QED
        BY <4>1, AboutsAreNodes DEF MarkerNode, NodeKinds
    <3>2. QED
      BY <2>1, <3>1 DEF DecisionEffect, Made, Tied
  <2>3. GraphEffect(a, "decision")
    BY <1>1, <2>2 DEF GraphEffect, MayMake, MayTie
  <2>4. QED
    BY <2>1, <2>3 DEF AgentEffect
<1>5. CASE OperatorStep(a)
  <2>1. StepOf(a, "operator") /\ OperatorEffect(a)
    BY <1>5, OperatorSteps
  <2>2. \/ Still
        \/ \E n \in Node : Made("comms", n) /\ n.kind \in {"message", "companion"} /\ ~ n.flagged
        \/ \E e \in Edge : Tied("comms", e) /\ e.kind = "DerivedFrom"
    <3>1. AnyContent \in Contents
      BY DEF Typed, SidesTyped
    <3>2. MessageNode(AnyContent).kind = "message" /\ ~ MessageNode(AnyContent).flagged
      BY <3>1, KindsAreNodes DEF MessageNode, NodeKinds
    <3>3. call[a].op = "operator" =>
            CompanionNode(call[a].id).kind = "companion" /\ ~ CompanionNode(call[a].id).flagged
      <4>1. SUFFICES ASSUME call[a].op = "operator"
                     PROVE  /\ CompanionNode(call[a].id).kind = "companion"
                            /\ ~ CompanionNode(call[a].id).flagged
        OBVIOUS
      <4>2. call[a].id \in 0..MaxIds
        BY <4>1, OpCalls, AgentCallsAssumption DEF Typed, OperatorCalls, Ids
      <4>3. QED
        BY <3>1, <4>2, AboutsAreNodes DEF CompanionNode, NodeKinds
    <3>4. QED
      BY <2>1, <3>2, <3>3 DEF OperatorEffect, Made, Tied
  <2>3. GraphEffect(a, "operator")
    BY <1>1, <2>2 DEF GraphEffect, MayMake, MayTie
  <2>4. QED
    BY <2>1, <2>3 DEF AgentEffect
<1>6. CASE CheckStep(a)
  <2>1. StepOf(a, "check") /\ CheckEffect(a)
    BY <1>6, CheckSteps
  <2>2. QED
    BY <2>1 DEF AgentEffect, GraphEffect, CheckEffect
<1>7. CASE AuditStep(a)
  <2>1. StepOf(a, "audit") /\ AuditEffect(a)
    BY <1>7, AuditSteps
  <2>2. QED
    BY <2>1 DEF AgentEffect, GraphEffect, AuditEffect
<1>8. CASE PostStep(a)
  <2>1. StepOf(a, "intent") /\ (Still \/ \E c \in Contents : Made("ops", IntentNode(c)))
    BY <1>8, PostSteps
  <2>2. \A c \in Contents : IntentNode(c) \in Node /\ IntentNode(c).kind = "intent"
    BY KindsAreNodes DEF IntentNode, NodeKinds
  <2>3. GraphEffect(a, "intent")
    BY <1>1, <2>1, <2>2 DEF GraphEffect, MayMake
  <2>4. QED
    BY <2>1, <2>3 DEF AgentEffect
<1>9. CASE ClaimStep(a)
  <2>1. StepOf(a, "claim") /\ (Still \/ \E c \in Contents : Made("ops", ClaimNode(c)))
    BY <1>9, ClaimSteps
  <2>2. \A c \in Contents : ClaimNode(c) \in Node /\ ClaimNode(c).kind = "claim"
    BY KindsAreNodes DEF ClaimNode, NodeKinds
  <2>3. GraphEffect(a, "claim")
    BY <1>1, <2>1, <2>2 DEF GraphEffect, MayMake
  <2>4. QED
    BY <2>1, <2>3 DEF AgentEffect
<1>10. CASE SplitStep(a)
  <2>1. StepOf(a, "split") /\ (Still \/ \E e : Tied("ops", e) /\ e.kind = "SplitFrom")
    BY <1>10, SplitSteps
  <2>2. GraphEffect(a, "split")
    BY <1>1, <2>1 DEF GraphEffect, MayTie, Tied
  <2>3. QED
    BY <2>1, <2>2 DEF AgentEffect
<1>11. CASE MergeStep(a)
  <2>1. StepOf(a, "merge") /\ MergeEffect(a)
    BY <1>11, MergeSteps
  <2>2. Still \/ \E e \in Edge : Tied("ops", e) /\ e.kind = "ConvergedWith"
    BY <2>1 DEF MergeEffect, Tied
  <2>3. GraphEffect(a, "merge")
    BY <1>1, <2>2 DEF GraphEffect, MayTie
  <2>4. QED
    BY <2>1, <2>3 DEF AgentEffect
<1>12. CASE EvidenceStep(a)
  <2>1. StepOf(a, "evidence") /\ EvidenceEffect(a)
    BY <1>12, EvidenceSteps
  <2>2. \/ Still \/ \E n \in Node : Made("ops", n) /\ n.kind = "evidence"
        \/ \E e \in Edge : Tied("ops", e) /\ e.kind = "Fulfills"
    BY <2>1 DEF EvidenceEffect, Tied
  <2>3. GraphEffect(a, "evidence")
    BY <1>1, <2>2 DEF GraphEffect, MayMake, MayTie
  <2>4. QED
    BY <2>1, <2>3 DEF AgentEffect
<1>13. CASE RelinkStep(a)
  <2>1. StepOf(a, "relink") /\ RelinkEffect(a)
    BY <1>13, RelinkSteps
  <2>2. Still \/ \E e \in Edge : Tied("ops", e) /\ e.kind = "Fulfills"
    BY <2>1 DEF RelinkEffect, Tied
  <2>3. GraphEffect(a, "relink")
    BY <1>1, <2>2 DEF GraphEffect, MayTie
  <2>4. QED
    BY <2>1, <2>3 DEF AgentEffect
<1>14. CASE QueryStep(a)
  <2>1. StepOf(a, "query") /\ QueryEffect(a)
    BY <1>14, QuerySteps
  <2>2. QED
    BY <2>1 DEF AgentEffect, GraphEffect, QueryEffect
<1>15. QED
  BY <1>2, <1>3, <1>4, <1>5, <1>6, <1>7, <1>8, <1>9, <1>10, <1>11, <1>12, <1>13, <1>14
     DEF AgentStep

Delivers ==
  /\ FlushHeld \/ \E dnd \in BOOLEAN : Project(dnd)
  /\ UNCHANGED replayed
NodeEnds(b, i) == TerminateNode(b, i) /\ UNCHANGED <<commsVars, replayed>>
RegionEnds(r) == TerminateRegion(r) /\ UNCHANGED <<commsVars, replayed>>

Next ==
  \/ CommsNext /\ UNCHANGED replayed
  \/ WorkNext /\ UNCHANGED commsVars
  \/ /\ \/ \E b \in Bridges, i \in Ids : TerminateNode(b, i)
        \/ \E r \in Regions : TerminateRegion(r)
     /\ UNCHANGED <<commsVars, replayed>>

LEMMA NextCases ==
  ASSUME Next
  PROVE  \/ \E a \in Agents : AgentStep(a)
         \/ Delivers
         \/ \E b \in Bridges, i \in Ids : NodeEnds(b, i)
         \/ \E r \in Regions : RegionEnds(r)
<1>1. ASSUME NEW a \in Agents, CommsStep(a), UNCHANGED replayed
      PROVE  AgentStep(a)
  <2>1. Identify(a) => At(a, "decision", "identify") \/ At(a, "operator", "identify")
    BY DEF Identify
  <2>2. QED
    BY <1>1, <2>1 DEF CommsStep, AgentStep, MessageStep, ReplayStep, DecisionStep, OperatorStep,
                      CheckStep, AuditStep
<1>2. ASSUME NEW a \in Agents, WorkStep(a), UNCHANGED commsVars
      PROVE  AgentStep(a)
  BY <1>2 DEF WorkStep, AgentStep, PostStep, ClaimStep, SplitStep, MergeStep, EvidenceStep,
              RelinkStep, QueryStep
<1>3. QED
  BY <1>1, <1>2 DEF Next, CommsNext, WorkNext, Delivers, NodeEnds, RegionEnds

\* Ids are handed out once; an id of the operational bridge that is also in
\* comms is a message that was replayed; an edge has its two ends; what is
\* terminated in the operational bridge does not come back.
Grounded ==
  /\ \A b \in Bridges : \A i \in Held(b) : i < fresh
  /\ \A i \in Held("ops") \cap In("comms") : IsMessage(nodes["comms"][i])
  /\ \A b \in Bridges : \A e \in DOMAIN edges[b] : e.from # e.to /\ {e.from, e.to} \subseteq In(b)
  /\ In("ops") \cap gone["ops"] = {}

Sound == Typed /\ Grounded /\ \A a \in Agents : TodoHeld(a)

\* What no step undoes.
Grows ==
  /\ fresh <= fresh' /\ triggers <= triggers' /\ returned \subseteq returned'
  /\ shut \subseteq shut'
  /\ \A b \in Bridges :
       gone[b] \subseteq gone'[b] /\ gone'[b] \subseteq Held(b) /\ Held(b) \subseteq Held(b)'
  /\ \A b \in Bridges : \A i \in In(b)' \ In(b) :
       i = fresh \/ (b = "comms" /\ i \in Held("ops"))
  /\ \A b \in Bridges : \A i \in In(b) \cap In(b)' :
       nodes'[b][i] = nodes[b][i] \/ (b = "comms" /\ i \in Held("ops"))
  /\ \A b \in Bridges : \A e \in DOMAIN edges[b] \ DOMAIN edges'[b] :
       \E i \in {e.from, e.to} : i \in gone'[b] /\ i \notin In(b)'
  /\ triggers' = triggers =>
       /\ gone' = gone
       /\ \A b \in Bridges : In(b) \subseteq In(b)' /\ DOMAIN edges[b] \subseteq DOMAIN edges'[b]

LEMMA AgentGrows ==
  ASSUME Sound, NEW a \in Agents, AgentStep(a)
  PROVE  Grows /\ Sound'
<1>1. Typed /\ GraphTyped /\ Grounded /\ TodoHeld(a)
  BY DEF Sound, Typed
<1>2. PICK f : AgentEffect(a, f)
  BY <1>1, AgentSteps
<1>3. StepOf(a, f) /\ GraphEffect(a, f)
  BY <1>2 DEF AgentEffect
<1>4. /\ Typed' /\ UNCHANGED <<gone, shut, triggers>> /\ returned \subseteq returned'
      /\ fresh \in Nat /\ triggers \in Nat /\ {"comms", "ops"} = Bridges
  BY <1>1, <1>3, AgentCallsAssumption DEF StepOf, GraphTyped, Typed, SidesTyped, Bridges
<1>5. \A b \in Bridges : In(b) \subseteq Ids /\ fresh \notin Held(b) /\ gone[b] \subseteq Held(b)
  BY <1>1, <1>4, NodeTyped DEF Grounded, Held
<1>6. ASSUME Still
      PROVE  Grows /\ Grounded'
  <2>1. \A b \in Bridges : In(b)' = In(b) /\ Held(b)' = Held(b)
    BY <1>4, <1>6 DEF Still, In, Held
  <2>2. Grows
    BY <1>4, <1>5, <1>6, <2>1 DEF Still, Grows
  <2>3. nodes' = nodes /\ edges' = edges /\ gone' = gone /\ fresh' = fresh
    BY <1>4, <1>6 DEF Still
  <2>4. Grounded'
    <3>1. \A b \in Bridges : \A i \in Held(b)' : i < fresh'
      BY <1>1, <2>1, <2>3 DEF Grounded
    <3>2. \A i \in Held("ops")' \cap In("comms")' : IsMessage(nodes'["comms"][i])
      BY <1>1, <1>4, <2>1, <2>3 DEF Grounded
    <3>3. \A b \in Bridges : \A e \in DOMAIN edges'[b] : e.from # e.to /\ {e.from, e.to} \subseteq In(b)'
      BY <1>1, <2>1, <2>3 DEF Grounded
    <3>4. In("ops")' \cap gone'["ops"] = {}
      BY <1>1, <1>4, <2>1, <2>3 DEF Grounded
    <3>5. QED
      BY <3>1, <3>2, <3>3, <3>4 DEF Grounded
  <2>5. QED
    BY <2>2, <2>4
<1>7. ASSUME NEW b \in Bridges, NEW n \in Node, Made(b, n)
      PROVE  Grows /\ Grounded'
  <2>1. /\ In(b)' = In(b) \cup {fresh} /\ nodes'[b][fresh] = n
        /\ \A j \in In(b) \ {fresh} : nodes'[b][j] = nodes[b][j]
        /\ \A c \in Bridges \ {b} : nodes'[c] = nodes[c]
        /\ fresh' = fresh + 1 /\ edges' = edges
    BY <1>7 DEF Made, NodeIsNow
  <2>2. \A c \in Bridges \ {b} : In(c)' = In(c) /\ Held(c)' = Held(c)
    BY <1>4, <2>1 DEF In, Held
  <2>3. Held(b)' = Held(b) \cup {fresh}
    BY <1>4, <2>1 DEF Held
  <2>4. Grows
    BY <1>4, <1>5, <2>1, <2>2, <2>3 DEF Grows, Held
  <2>5. \A c \in Bridges : \A i \in Held(c)' : i < fresh'
    <3>1. \A c \in Bridges : \A i \in Held(c) : i \in Nat /\ i < fresh
      BY <1>1, <1>5, IdsAreNaturals DEF Grounded, Held, GraphTyped
    <3>2. QED
      BY <1>4, <2>1, <2>2, <2>3, <3>1
  <2>6. \A i \in Held("ops")' \cap In("comms")' : IsMessage(nodes'["comms"][i])
    <3>1. CASE b = "ops"
      BY <1>1, <1>4, <1>5, <2>1, <2>2, <2>3, <3>1 DEF Grounded, Held
    <3>2. CASE b = "comms"
      BY <1>1, <1>4, <1>5, <2>1, <2>2, <2>3, <3>2 DEF Grounded
    <3>3. QED
      BY <1>4, <3>1, <3>2
  <2>7. \A c \in Bridges : \A e \in DOMAIN edges'[c] : e.from # e.to /\ {e.from, e.to} \subseteq In(c)'
    BY <1>1, <2>1, <2>2 DEF Grounded
  <2>8. In("ops")' \cap gone'["ops"] = {}
    BY <1>1, <1>4, <1>5, <2>1, <2>2 DEF Grounded, Held
  <2>9. QED
    BY <2>4, <2>5, <2>6, <2>7, <2>8 DEF Grounded
<1>8. ASSUME NEW b \in Bridges, NEW e, Tied(b, e)
      PROVE  Grows /\ Grounded'
  <2>1. /\ UNCHANGED <<nodes, fresh>> /\ e.from # e.to /\ {e.from, e.to} \subseteq In(b)
        /\ DOMAIN edges'[b] = DOMAIN edges[b] \cup {e}
        /\ \A c \in Bridges \ {b} : edges'[c] = edges[c]
    BY <1>8 DEF Tied, EdgeAdded
  <2>2. \A c \in Bridges : In(c)' = In(c) /\ Held(c)' = Held(c)
    BY <1>4, <2>1 DEF In, Held
  <2>3. Grows
    BY <1>4, <1>5, <2>1, <2>2 DEF Grows
  <2>4. Grounded'
    BY <1>1, <1>4, <2>1, <2>2 DEF Grounded
  <2>5. QED
    BY <2>3, <2>4
<1>9. ASSUME NEW x \in call[a].todo, NEW n \in Node, call[a].op = "replay", Rewrote(x[1], n)
      PROVE  Grows /\ Grounded'
  <2>1. /\ In("comms")' = In("comms") \cup {x[1]} /\ nodes'["comms"][x[1]] = n /\ IsMessage(n)
        /\ \A j \in In("comms") \ {x[1]} : nodes'["comms"][j] = nodes["comms"][j]
        /\ nodes'["ops"] = nodes["ops"] /\ UNCHANGED <<edges, fresh>>
    BY <1>4, <1>9 DEF Rewrote, NodeIsNow
  <2>2. x[1] \in Held("ops") /\ x[1] < fresh
    BY <1>1, <1>9 DEF TodoHeld
  <2>3. /\ In("ops")' = In("ops") /\ Held("ops")' = Held("ops")
        /\ Held("comms")' = Held("comms") \cup {x[1]}
    BY <1>4, <2>1 DEF In, Held
  <2>4. Grows
    BY <1>4, <1>5, <2>1, <2>2, <2>3 DEF Grows
  <2>5. Grounded'
    BY <1>1, <1>4, <2>1, <2>2, <2>3 DEF Grounded
  <2>6. QED
    BY <2>4, <2>5
<1>10. Grows /\ Grounded'
  <2>1. \/ Still
        \/ \E b \in Bridges, n \in Node : Made(b, n)
        \/ \E b \in Bridges, e \in Edge : Tied(b, e)
        \/ \E x \in call[a].todo, n \in Node : call[a].op = "replay" /\ Rewrote(x[1], n)
    BY <1>3 DEF GraphEffect
  <2>2. CASE Still
    BY <1>6, <2>2
  <2>3. CASE \E b \in Bridges, n \in Node : Made(b, n)
    BY <1>7, <2>3
  <2>4. CASE \E b \in Bridges, e \in Edge : Tied(b, e)
    BY <1>8, <2>4
  <2>5. CASE \E x \in call[a].todo, n \in Node : call[a].op = "replay" /\ Rewrote(x[1], n)
    BY <1>9, <2>5
  <2>6. QED
    BY <2>1, <2>2, <2>3, <2>4, <2>5
<1>11. ASSUME NEW d \in Agents
       PROVE  TodoHeld(d)'
  <2>1. /\ Held("ops") \subseteq Held("ops")' /\ fresh <= fresh' /\ fresh' \in Nat
    BY <1>4, <1>10, AgentCallsAssumption DEF Grows, Typed, GraphTyped
  <2>2. \A i \in Held("ops") : i \in Nat
    BY <1>1, <1>4, <1>5, IdsAreNaturals DEF Held, GraphTyped
  <2>3. CASE d # a
    BY <1>1, <1>3, <1>4, <2>1, <2>2, <2>3 DEF StepOf, TodoHeld, Sound
  <2>4. CASE d = a /\ f # "replay"
    BY <1>3, <2>4 DEF StepOf, TodoHeld
  <2>5. CASE d = a /\ f = "replay"
    <3>1. \/ ReplayMessages(a)
          \/ call[a].op = "replay" /\ call'[a].op = "replay" => call'[a].todo \subseteq call[a].todo
      <4>1. call \in [Agents -> Calls] /\ (call[a].op = "replay" => call[a] \in ReplayCalls)
        BY <1>1, OpCalls DEF Typed
      <4>2. ReplayStep(a)
        BY <1>2, <2>5 DEF AgentEffect
      <4>3. CASE ReplayNext(a)
        <5>1. CASE \E x : ReplayWrites(a, x)
          <6>1. PICK x : ReplayWrites(a, x)
            BY <5>1
          <6>2. call[a].op = "replay" /\ UNCHANGED <<replayed, projection, triggers>>
            BY <4>2, <4>3 DEF ReplayStep, ReplayNext, At, bounds
          <6>3. call'[a].todo = call[a].todo \ {x}
            BY <1>1, <6>1, <6>2, ReplayWriteStep
          <6>4. QED
            BY <6>3
        <5>2. CASE Refused(a) \/ Return(a, [ok |-> TRUE])
          BY <4>1, <5>2, ReturnCall, RefusedCall
        <5>3. QED
          BY <4>3, <5>1, <5>2 DEF ReplayNext, ReplayWrites
      <4>4. QED
        BY <4>2, <4>3 DEF ReplayStep
    <3>2. CASE ReplayMessages(a)
      <4>1. call'[a].todo = {<<i, nodes["ops"][i]>> : i \in Candidates(a)}
        BY <1>1, <3>2 DEF ReplayMessages, Set, Typed
      <4>2. \A i \in Candidates(a) : i \in Held("ops") /\ i < fresh /\ nodes["ops"][i].kind = "message"
        BY <1>1, <1>4 DEF Candidates, OfKind, Held, Grounded
      <4>3. QED
        BY <1>4, <2>1, <2>2, <2>5, <4>1, <4>2 DEF TodoHeld
    <3>3. CASE call[a].op = "replay" /\ call'[a].op = "replay" => call'[a].todo \subseteq call[a].todo
      <4>1. CASE call'[a].op = "replay"
        <5>1. CASE call[a].op = "replay"
          BY <1>1, <1>4, <2>1, <2>2, <2>5, <3>3, <4>1, <5>1 DEF TodoHeld
        <5>2. CASE call[a].op # "replay"
          <6>1. ReplayMessages(a)
            BY <1>2, <2>5, <5>2 DEF AgentEffect, ReplayStep, ReplayNext, At
          <6>2. QED
            BY <3>2, <6>1
        <5>3. QED
          BY <5>1, <5>2
      <4>2. QED
        BY <2>5, <4>1 DEF TodoHeld
    <3>4. QED
      BY <3>1, <3>2, <3>3
  <2>6. QED
    BY <2>3, <2>4, <2>5
<1>12. QED
  BY <1>4, <1>10, <1>11 DEF Sound

LEMMA StartSound ==
  ASSUME Start
  PROVE  Sound
<1>1. {"comms", "ops"} = Bridges /\ {Thread, Item, Work} \subseteq Ids
  BY IdsAreNaturals DEF Bridges
<1>2. PICK c \in Contents :
        nodes = [b \in Bridges |->
                  IF b = "comms"
                  THEN [i \in {Thread, Item} |-> Kind(IF i = Thread THEN "thread" ELSE "item", c)]
                  ELSE [i \in {Work} |-> Kind("intent", c)]]
  BY DEF Start, Init
<1>3. nodes \in [Bridges -> MapsOf(Node)]
  <2>1. \A k \in {"thread", "item", "intent"} : Kind(k, c) \in Node
    BY KindsAreNodes DEF NodeKinds
  <2> DEFINE m == [i \in {Thread, Item} |-> Kind(IF i = Thread THEN "thread" ELSE "item", c)]
             w == [i \in {Work} |-> Kind("intent", c)]
  <2>2. m \in [{Thread, Item} -> Node] /\ w \in [{Work} -> Node]
    BY <2>1
  <2>3. m \in MapsOf(Node) /\ w \in MapsOf(Node)
    BY <1>1, <2>2 DEF MapsOf
  <2>4. nodes = [b \in Bridges |-> IF b = "comms" THEN m ELSE w]
    BY <1>2
  <2> HIDE DEF m, w
  <2>5. QED
    BY <2>3, <2>4
<1>4. In("comms") = {1, 2} /\ In("ops") = {3}
  BY <1>1, <1>2 DEF In, Thread, Item, Work
<1>5. /\ edges = [b \in Bridges |-> EmptyBag] /\ gone = [b \in Bridges |-> {}] /\ shut = {}
      /\ open = [i \in Ids |-> 0] /\ fresh = 4 /\ inbox = EmptyBag
      /\ call = [a \in Agents |-> Idle] /\ triggers = 0
      /\ known = [a \in Agents |-> {}] /\ held = EmptyBag /\ delivered = EmptyBag
      /\ replayed = [a \in Agents |-> {}]
  BY DEF Start, Init, CommsInit, WorkInit
<1>6. /\ EmptyBag \in BagsOf(Edge) /\ EmptyBag \in BagsOf(Messages) /\ EmptyBag \in BagsOf(Ids)
      /\ DOMAIN EmptyBag = {}
  BY EmptyBagOf
<1>7. GraphTyped
  <2>1. edges \in [Bridges -> BagsOf(Edge)] /\ gone \in [Bridges -> SUBSET Ids]
        /\ open \in [Ids -> Nat] /\ shut \subseteq Regions
    BY <1>5, <1>6
  <2>2. fresh \in 4..(MaxIds + 1) /\ inbox \in BagsOf(Messages) /\ IsFiniteSet(DOMAIN inbox)
    BY <1>5, <1>6, FS_EmptySet, AgentCallsAssumption
  <2>3. QED
    BY <1>3, <2>1, <2>2 DEF GraphTyped
<1>8. SidesTyped
  BY <1>2, <1>5, <1>6 DEF SidesTyped, AnyContent
<1>9. call \in [Agents -> Calls] /\ \A a \in Agents : call[a].op = "idle"
  BY <1>5 DEF Calls, Idle
<1>10. Grounded
  <2>1. \A b \in Bridges : Held(b) = In(b) /\ DOMAIN edges[b] = {}
    BY <1>5, <1>6 DEF Held
  <2>2. \A b \in Bridges : \A i \in Held(b) : i < fresh
    BY <1>1, <1>4, <1>5, <2>1
  <2>3. Held("ops") \cap In("comms") = {}
    BY <1>1, <1>4, <2>1
  <2>4. QED
    BY <1>1, <1>5, <2>1, <2>2, <2>3 DEF Grounded
<1>11. QED
  BY <1>7, <1>8, <1>9, <1>10 DEF Sound, Typed, TodoHeld

\* The projection moves what waits; nothing else changes.
Projects(m) ==
  /\ inbox' = inbox (-) SetToBag({m})
  /\ \/ held' = held (+) SetToBag({m.id}) /\ delivered' = delivered
     \/ delivered' = delivered (+) SetToBag({m.id}) /\ held' = held

DeliversEffect ==
  /\ UNCHANGED <<nodes, edges, gone, shut, open, fresh, call, returned, known, replayed, triggers>>
  /\ \/ \E m \in DOMAIN inbox : Projects(m)
     \/ inbox' = inbox /\ delivered' = delivered (+) held /\ held' = EmptyBag

LEMMA DeliversStep ==
  ASSUME Sound, Delivers
  PROVE  DeliversEffect /\ Grows /\ Sound'
<1>1. DeliversEffect
  BY DEF Delivers, Project, FlushHeld, Flush, DeliversEffect, Projects, BagToSet, bounds, graph
<1>2. /\ inbox \in BagsOf(Messages) /\ IsFiniteSet(DOMAIN inbox)
      /\ held \in BagsOf(Ids) /\ delivered \in BagsOf(Ids)
  BY DEF Sound, Typed, GraphTyped, SidesTyped
<1>3. /\ inbox' \in BagsOf(Messages) /\ DOMAIN inbox' \subseteq DOMAIN inbox
      /\ held' \in BagsOf(Ids) /\ delivered' \in BagsOf(Ids)
  <2>1. CASE \E m \in DOMAIN inbox : Projects(m)
    <3>1. PICK m \in DOMAIN inbox : Projects(m)
      BY <2>1
    <3>2. m \in Messages /\ m.id \in Ids
      <4>1. m \in Messages
        BY <1>2, <3>1, BagValue
      <4>2. QED
        BY <4>1 DEF Messages
    <3>3. /\ inbox (-) SetToBag({m}) \in BagsOf(Messages)
          /\ DOMAIN (inbox (-) SetToBag({m})) \subseteq DOMAIN inbox
      BY <1>2, <3>1, TakeOne
    <3>4. held (+) SetToBag({m.id}) \in BagsOf(Ids) /\ delivered (+) SetToBag({m.id}) \in BagsOf(Ids)
      BY <1>2, <3>2, AddOne
    <3>5. QED
      BY <1>2, <3>1, <3>3, <3>4 DEF Projects
  <2>2. CASE inbox' = inbox /\ delivered' = delivered (+) held /\ held' = EmptyBag
    BY <1>2, <2>2, JoinBags, EmptyBagOf
  <2>3. QED
    BY <1>1, <2>1, <2>2 DEF DeliversEffect
<1>4. IsFiniteSet(DOMAIN inbox')
  BY <1>2, <1>3, FS_Subset
<1>5. Typed'
  BY <1>1, <1>3, <1>4 DEF DeliversEffect, Sound, Typed, GraphTyped, SidesTyped
<1>6. \A b \in Bridges : In(b)' = In(b) /\ Held(b)' = Held(b) /\ gone[b] \subseteq Held(b)
  BY <1>1 DEF DeliversEffect, In, Held
<1>7. Grows
  BY <1>1, <1>6 DEF DeliversEffect, Grows, Sound, Typed, GraphTyped, SidesTyped
<1>8. Grounded' /\ \A a \in Agents : TodoHeld(a)'
  BY <1>1, <1>6 DEF DeliversEffect, Sound, Grounded, TodoHeld, Bridges
<1>9. QED
  BY <1>1, <1>5, <1>7, <1>8 DEF Sound

LEMMA NodeEndsStep ==
  ASSUME Sound, NEW b \in Bridges, NEW i, NodeEnds(b, i)
  PROVE  Grows /\ Sound'
<1>1. /\ GraphTyped' /\ NodeFaded(b, i) /\ i \in In(b) \ gone[b]
      /\ gone' = [gone EXCEPT ![b] = @ \cup {i}]
  BY FadeTyped DEF NodeEnds, Sound, Typed
<1>2. /\ UNCHANGED <<shut, open, fresh, call, returned, known, held, delivered, replayed>>
      /\ triggers' = triggers + 1 /\ triggers \in Nat /\ fresh \in Nat
      /\ {"comms", "ops"} = Bridges
  BY AgentCallsAssumption
     DEF NodeEnds, TerminateNode, commsVars, Sound, Typed, SidesTyped, GraphTyped, Bridges
<1>3. Typed'
  BY <1>1, <1>2 DEF Sound, Typed, SidesTyped
<1>4. /\ gone'[b] = gone[b] \cup {i} /\ In(b)' = In(b) \ {i} /\ Held(b)' = Held(b)
      /\ \A c \in Bridges \ {b} :
           gone'[c] = gone[c] /\ In(c)' = In(c) /\ Held(c)' = Held(c) /\ edges'[c] = edges[c]
  BY <1>1 DEF NodeFaded, In, Held, Sound, Typed, GraphTyped
<1>5. \A c \in Bridges :
        /\ gone[c] \subseteq gone'[c] /\ gone'[c] \subseteq Held(c)
        /\ Held(c)' = Held(c) /\ In(c)' \subseteq In(c)
        /\ DOMAIN edges'[c] \subseteq DOMAIN edges[c]
        /\ \A j \in In(c)' : nodes'[c][j] = nodes[c][j]
  BY <1>1, <1>4 DEF NodeFaded, Held
<1>6. \A c \in Bridges : \A e \in DOMAIN edges[c] \ DOMAIN edges'[c] :
        \E j \in {e.from, e.to} : j \in gone'[c] /\ j \notin In(c)'
  BY <1>1, <1>4 DEF NodeFaded
<1>7. Grows
  BY <1>2, <1>5, <1>6 DEF Grows
<1>8. Grounded'
  <2>1. \A c \in Bridges : \A j \in Held(c)' : j < fresh'
    BY <1>2, <1>5 DEF Sound, Grounded
  <2>2. \A j \in Held("ops")' \cap In("comms")' : IsMessage(nodes'["comms"][j])
    BY <1>2, <1>5 DEF Sound, Grounded
  <2>3. \A c \in Bridges : \A e \in DOMAIN edges'[c] : e.from # e.to /\ {e.from, e.to} \subseteq In(c)'
    BY <1>1, <1>4, <1>5 DEF Sound, Grounded, NodeFaded
  <2>4. In("ops")' \cap gone'["ops"] = {}
    BY <1>1, <1>2, <1>4 DEF Sound, Grounded
  <2>5. QED
    BY <2>1, <2>2, <2>3, <2>4 DEF Grounded
<1>9. \A a \in Agents : TodoHeld(a)'
  BY <1>2, <1>5 DEF Sound, TodoHeld
<1>10. QED
  BY <1>3, <1>7, <1>8, <1>9 DEF Sound

LEMMA RegionEndsStep ==
  ASSUME Sound, NEW r \in Regions, RegionEnds(r)
  PROVE  Grows /\ Sound'
<1>1. /\ UNCHANGED <<nodes, edges, gone, open, fresh, inbox, call, returned, known, held,
                     delivered, replayed>>
      /\ shut \subseteq shut' /\ shut' \subseteq Regions
      /\ triggers' = triggers + 1 /\ triggers \in Nat /\ fresh \in Nat
  BY AgentCallsAssumption
     DEF RegionEnds, TerminateRegion, commsVars, Sound, Typed, SidesTyped, GraphTyped
<1>2. Typed'
  BY <1>1 DEF Sound, Typed, SidesTyped, GraphTyped
<1>3. \A b \in Bridges : In(b)' = In(b) /\ Held(b)' = Held(b) /\ gone[b] \subseteq Held(b)
  BY <1>1 DEF In, Held
<1>4. Grows
  BY <1>1, <1>3 DEF Grows
<1>5. Grounded' /\ \A a \in Agents : TodoHeld(a)'
  BY <1>1, <1>3 DEF Sound, Grounded, TodoHeld, Bridges
<1>6. QED
  BY <1>2, <1>4, <1>5 DEF Sound

LEMMA IdleStep ==
  ASSUME Sound, UNCHANGED vars
  PROVE  Grows /\ Sound'
<1>1. /\ UNCHANGED <<nodes, edges, gone, shut, open, fresh, inbox, call, returned, known, held,
                     delivered, replayed, triggers>>
      /\ triggers \in Nat /\ fresh \in Nat
  BY AgentCallsAssumption
     DEF vars, graph, bounds, commsVars, Sound, Typed, SidesTyped, GraphTyped
<1>2. Typed'
  BY <1>1 DEF Sound, Typed, SidesTyped, GraphTyped
<1>3. \A b \in Bridges : In(b)' = In(b) /\ Held(b)' = Held(b) /\ gone[b] \subseteq Held(b)
  BY <1>1 DEF In, Held
<1>4. Grows
  BY <1>1, <1>3 DEF Grows
<1>5. Grounded' /\ \A a \in Agents : TodoHeld(a)'
  BY <1>1, <1>3 DEF Sound, Grounded, TodoHeld, Bridges
<1>6. QED
  BY <1>2, <1>4, <1>5 DEF Sound

LEMMA EveryStep ==
  ASSUME Sound, [Next]_vars
  PROVE  Grows /\ Sound'
<1>1. CASE Next
  BY <1>1, NextCases, AgentGrows, DeliversStep, NodeEndsStep, RegionEndsStep
<1>2. CASE UNCHANGED vars
  BY <1>2, IdleStep
<1>3. QED
  BY <1>1, <1>2

\* Every state is well typed and its graph hangs together, however the calls
\* of the helpers and the terminations interleave.
THEOREM SoundAlways == Spec => []Sound
<1>1. Start => Sound
  BY StartSound
<1>2. Sound /\ [Next]_vars => Sound'
  BY EveryStep
<1>3. QED
  BY <1>1, <1>2, PTL DEF Spec, Next

\* Every reachable state has the model's types.
THEOREM TypeCorrect == Spec => []TypeOK
<1>1. Sound => TypeOK
  <2>1. SUFFICES ASSUME Sound PROVE TypeOK
    OBVIOUS
  <2>2. GraphTyped /\ SidesTyped
    BY <2>1 DEF Sound, Typed
  <2>3. \A b \in Bridges : In(b) \subseteq Ids /\ \A i \in In(b) : nodes[b][i] \in Node
    BY <2>2, NodeTyped
  <2>4. \A b \in Bridges : IsABag(edges[b]) /\ BagToSet(edges[b]) \subseteq Edge
    <3>1. SUFFICES ASSUME NEW b \in Bridges
                   PROVE  IsABag(edges[b]) /\ BagToSet(edges[b]) \subseteq Edge
      OBVIOUS
    <3>2. PICK T \in SUBSET Edge : edges[b] \in [T -> Nat \ {0}]
      BY <2>2 DEF GraphTyped, BagsOf
    <3>3. QED
      BY <3>2 DEF IsABag, BagToSet
  <2>5. QED
    BY <2>2, <2>3, <2>4 DEF GraphTyped, SidesTyped, TypeOK
<1>2. QED
  BY <1>1, SoundAlways, PTL

-----------------------------------------------------------------------------
(***************************************************************************)
(* How a step looks to an invariant: a call of some helper goes on, or     *)
(* something outside the calls happens.                                    *)
(***************************************************************************)
MayRewrite(f, b, i) ==
  /\ f = "replay" /\ b = "comms" /\ i \in Held("ops")
  /\ IsMessage(nodes'[b][i]) /\ (i \in In(b) => IsMessage(nodes[b][i]))

AgentGraph(f) ==
  /\ UNCHANGED <<gone, shut, triggers>>
  /\ \A b \in Bridges :
       /\ In(b) \subseteq In(b)' /\ Held(b) \subseteq Held(b)'
       /\ DOMAIN edges[b] \subseteq DOMAIN edges'[b]
       /\ \A e \in DOMAIN edges'[b] : e \in DOMAIN edges[b] \/ MayTie(f, b, e.kind)
       /\ \A e \in Edge : ~ MayTie(f, b, e.kind) => Copies(e, edges'[b]) = Copies(e, edges[b])
       /\ \A i \in In(b)' :
            \/ i \in In(b) /\ nodes'[b][i] = nodes[b][i]
            \/ /\ i = fresh /\ fresh' = fresh + 1 /\ MayMake(f, b, nodes'[b][i].kind)
               /\ b = "comms" => ~ nodes'[b][i].flagged
            \/ MayRewrite(f, b, i)

LEMMA AgentsGraph ==
  ASSUME Sound, NEW a \in Agents, NEW f, AgentEffect(a, f)
  PROVE  AgentGraph(f)
<1>1. /\ GraphTyped /\ Grounded /\ TodoHeld(a) /\ UNCHANGED <<gone, shut, triggers>>
      /\ GraphEffect(a, f) /\ fresh \in Nat /\ {"comms", "ops"} = Bridges
  BY AgentCallsAssumption DEF Sound, Typed, GraphTyped, AgentEffect, StepOf, Bridges
<1>2. \A b \in Bridges : In(b) \subseteq Ids /\ fresh \notin Held(b)
  BY <1>1, NodeTyped DEF Grounded
<1> DEFINE Holds(b) == Held(b) \subseteq Held(b)'
<1>3. ASSUME NEW b \in Bridges, In(b) \subseteq In(b)'
      PROVE  Held(b) \subseteq Held(b)'
  BY <1>1, <1>3 DEF Held
<1>4. ASSUME nodes' = nodes, edges' = edges
      PROVE  AgentGraph(f)
  <2>1. \A b \in Bridges : In(b)' = In(b)
    BY <1>4 DEF In
  <2>2. QED
    BY <1>1, <1>3, <1>4, <2>1 DEF AgentGraph, Copies, BagIn, BagToSet
<1>5. ASSUME NEW b \in Bridges, NEW n \in Node, Made(b, n), MayMake(f, b, n.kind),
             b = "comms" => ~ n.flagged
      PROVE  AgentGraph(f)
  <2>1. /\ In(b)' = In(b) \cup {fresh} /\ nodes'[b][fresh] = n
        /\ \A j \in In(b) \ {fresh} : nodes'[b][j] = nodes[b][j]
        /\ \A c \in Bridges \ {b} : nodes'[c] = nodes[c]
        /\ fresh' = fresh + 1 /\ edges' = edges
    BY <1>5 DEF Made, NodeIsNow
  <2>2. \A c \in Bridges \ {b} : In(c)' = In(c)
    BY <2>1 DEF In
  <2>3. \A c \in Bridges : In(c) \subseteq In(c)'
    BY <2>1, <2>2
  <2>4. \A j \in In(b)' : \/ j \in In(b) /\ nodes'[b][j] = nodes[b][j]
                          \/ j = fresh /\ nodes'[b][j] = n
    BY <1>2, <2>1 DEF Held
  <2>5. \A c \in Bridges : c # b => \A j \in In(c)' : j \in In(c) /\ nodes'[c][j] = nodes[c][j]
    BY <2>1, <2>2
  <2>6. QED
    BY <1>1, <1>3, <1>5, <2>1, <2>3, <2>4, <2>5 DEF AgentGraph, Copies, BagIn, BagToSet
<1>6. ASSUME NEW b \in Bridges, NEW e \in Edge, Tied(b, e), MayTie(f, b, e.kind)
      PROVE  AgentGraph(f)
  <2>1. /\ UNCHANGED <<nodes, fresh>>
        /\ DOMAIN edges'[b] = DOMAIN edges[b] \cup {e}
        /\ \A x : Copies(x, edges'[b]) = Copies(x, edges[b]) + IF x = e THEN 1 ELSE 0
        /\ \A c \in Bridges \ {b} : edges'[c] = edges[c]
    BY <1>6 DEF Tied, EdgeAdded
  <2>2. \A c \in Bridges : In(c)' = In(c)
    BY <2>1 DEF In
  <2>3. \A x : x # e => Copies(x, edges'[b]) = Copies(x, edges[b])
    <3>1. \A x : Copies(x, edges[b]) \in Nat
      BY <1>1, BagValue DEF GraphTyped
    <3>2. QED
      BY <2>1, <3>1
  <2>4. \A c \in Bridges : c # b => \A x : Copies(x, edges'[c]) = Copies(x, edges[c])
    BY <2>1 DEF Copies, BagIn, BagToSet
  <2>5. QED
    BY <1>1, <1>3, <1>6, <2>1, <2>2, <2>3, <2>4 DEF AgentGraph
<1>7. ASSUME f = "replay", call[a].op = "replay", NEW x \in call[a].todo, NEW n \in Node,
             Rewrote(x[1], n)
      PROVE  AgentGraph(f)
  <2>1. /\ In("comms")' = In("comms") \cup {x[1]} /\ nodes'["comms"][x[1]] = n /\ IsMessage(n)
        /\ \A j \in In("comms") \ {x[1]} : nodes'["comms"][j] = nodes["comms"][j]
        /\ nodes'["ops"] = nodes["ops"] /\ UNCHANGED <<edges, fresh>>
    BY <1>1, <1>7 DEF Rewrote, NodeIsNow
  <2>2. x[1] \in Held("ops") /\ (x[1] \in In("comms") => IsMessage(nodes["comms"][x[1]]))
    BY <1>1, <1>7 DEF TodoHeld, Grounded
  <2>3. In("ops")' = In("ops")
    BY <2>1 DEF In
  <2>4. \A b \in Bridges : In(b) \subseteq In(b)'
    BY <1>1, <2>1, <2>3
  <2>5. MayRewrite(f, "comms", x[1])
    BY <1>7, <2>1, <2>2 DEF MayRewrite
  <2>6. \A b \in Bridges : \A i \in In(b)' :
          (i \in In(b) /\ nodes'[b][i] = nodes[b][i]) \/ MayRewrite(f, b, i)
    BY <1>1, <2>1, <2>3, <2>5
  <2>7. QED
    BY <1>1, <1>3, <2>1, <2>4, <2>6 DEF AgentGraph, Copies, BagIn, BagToSet
<1>8. QED
  BY <1>1, <1>4, <1>5, <1>6, <1>7 DEF GraphEffect, Still

\* Outside the calls: the projection takes its messages, something is terminated.
Outside ==
  /\ UNCHANGED <<call, returned, open, fresh, known, replayed>>
  /\ \A b \in Bridges :
       /\ In(b)' \subseteq In(b) /\ Held(b)' = Held(b)
       /\ \A i \in In(b)' : nodes'[b][i] = nodes[b][i]
       /\ DOMAIN edges'[b] \subseteq DOMAIN edges[b]
       /\ \A e \in DOMAIN edges'[b] : edges'[b][e] = edges[b][e]
  /\ triggers' = triggers => UNCHANGED <<nodes, edges>>

LEMMA StepCases ==
  ASSUME Sound, [Next]_vars
  PROVE  /\ Grows /\ Sound'
         /\ Outside \/ \E a \in Agents : \E f : AgentEffect(a, f) /\ AgentGraph(f)
<1>1. Grows /\ Sound'
  BY EveryStep
<1>2. ASSUME UNCHANGED <<call, returned, open, fresh, known, replayed, nodes, edges, gone>>
      PROVE  Outside
  BY <1>2 DEF Outside, In, Held
<1>3. CASE UNCHANGED vars
  BY <1>1, <1>2, <1>3 DEF vars, graph, commsVars
<1>4. CASE Delivers
  BY <1>1, <1>2, <1>4, DeliversStep DEF DeliversEffect
<1>5. CASE \E r \in Regions : RegionEnds(r)
  BY <1>1, <1>2, <1>5 DEF RegionEnds, TerminateRegion, commsVars
<1>6. ASSUME NEW b \in Bridges, NEW i \in Ids, NodeEnds(b, i)
      PROVE  Outside
  <2>1. NodeFaded(b, i) /\ i \in In(b) /\ gone' = [gone EXCEPT ![b] = @ \cup {i}]
    BY <1>6, FadeTyped DEF NodeEnds, Sound, Typed
  <2>2. /\ UNCHANGED <<open, fresh, call, returned, known, replayed>>
        /\ triggers' = triggers + 1 /\ triggers \in Nat
    BY <1>6 DEF NodeEnds, TerminateNode, commsVars, Sound, Typed, SidesTyped
  <2>3. Held(b)' = Held(b) /\ \A c \in Bridges \ {b} : In(c)' = In(c) /\ Held(c)' = Held(c)
    BY <2>1 DEF NodeFaded, In, Held, Sound, Typed, GraphTyped
  <2>4. QED
    BY <2>1, <2>2, <2>3 DEF NodeFaded, Outside
<1>7. CASE \E a \in Agents : AgentStep(a)
  BY <1>1, <1>7, AgentSteps, AgentsGraph DEF Sound
<1>8. QED
  BY <1>1, <1>3, <1>4, <1>5, <1>6, <1>7, NextCases

-----------------------------------------------------------------------------
(***************************************************************************)
(* Convergence.                                                            *)
(***************************************************************************)
Converged(i, j) == [from |-> i, to |-> j, kind |-> "ConvergedWith"]

\* A merge that has its first edge still has it, unless one end is gone.
MergesHalfDone ==
  \A a \in Agents : call[a].op = "merge" =>
    /\ {call[a].from, call[a].to} \subseteq Held("ops")
    /\ {call[a].from, call[a].to} \subseteq In("ops") =>
         Linked("ops", call[a].to, call[a].from, "ConvergedWith")

LEMMA LinkedIs ==
  ASSUME NEW b, NEW i, NEW j, NEW k
  PROVE  Linked(b, i, j, k) <=> [from |-> i, to |-> j, kind |-> k] \in DOMAIN edges[b]
BY DEF Linked, BagIn, BagToSet

Mutual == MergesHalfDone /\ MergeIsMutual

LEMMA MutualStarts ==
  ASSUME Start
  PROVE  Mutual
<1>1. \A a \in Agents : call[a].op = "idle"
  BY DEF Start, Init, Idle
<1>2. DOMAIN edges["ops"] = {}
  BY EmptyBagOf DEF Start, Init, Bridges
<1>3. QED
  BY <1>1, <1>2, LinkedIs DEF Mutual, MergesHalfDone, MergeIsMutual

\* What keeps the edges of one kind: any step that ties none, and a termination.
KeepsEdges(b, k) ==
  /\ \A i \in Held(b) : i \in In(b)' => i \in In(b) \/ (b = "comms" /\ i \in Held("ops"))
  /\ Held(b) \subseteq Held(b)'
  /\ \A e \in Edge : e.kind = k =>
       /\ e \in DOMAIN edges'[b] => e \in DOMAIN edges[b]
       /\ e \in DOMAIN edges[b] /\ {e.from, e.to} \subseteq In(b)' => e \in DOMAIN edges'[b]

LEMMA EdgesKept ==
  ASSUME Sound, Grows, NEW b \in Bridges, NEW k,
         Outside \/ \E f : AgentGraph(f) /\ ~ MayTie(f, b, k)
  PROVE  KeepsEdges(b, k)
<1>1. /\ \A i \in Held(b) : i < fresh
      /\ fresh \in Nat
      /\ \A i \in In(b)' \ In(b) : i = fresh \/ (b = "comms" /\ i \in Held("ops"))
  BY AgentCallsAssumption DEF Sound, Typed, GraphTyped, Grounded, Grows
<1>2. \A i \in Held(b) : i \in In(b)' => i \in In(b) \/ (b = "comms" /\ i \in Held("ops"))
  BY <1>1
<1>3. /\ Held(b) \subseteq Held(b)'
      /\ \A e \in DOMAIN edges[b] : {e.from, e.to} \subseteq In(b)' => e \in DOMAIN edges'[b]
  BY DEF Grows
<1>4. \A e \in Edge : e.kind = k /\ e \in DOMAIN edges'[b] => e \in DOMAIN edges[b]
  BY DEF Outside, AgentGraph
<1>5. QED
  BY <1>2, <1>3, <1>4 DEF KeepsEdges

LEMMA MutualKept ==
  ASSUME Sound, Mutual, [Next]_vars
  PROVE  Mutual'
<1>1. /\ Grows /\ Sound' /\ Grounded /\ Grounded' /\ {"comms", "ops"} = Bridges
      /\ call \in [Agents -> Calls] /\ call' \in [Agents -> Calls]
      /\ \A i \in Ids, j \in Ids : Converged(i, j) \in Edge
      /\ DOMAIN edges["ops"] \subseteq Edge /\ DOMAIN edges'["ops"] \subseteq Edge
  <2>1. Grows /\ Sound'
    BY StepCases
  <2>2. DOMAIN edges["ops"] \subseteq Edge
    BY NodeTyped DEF Sound, Typed, Bridges
  <2>3. DOMAIN edges'["ops"] \subseteq Edge
    BY <2>1, BagValue DEF Sound, Typed, GraphTyped, Bridges
  <2>4. QED
    BY <2>1, <2>2, <2>3 DEF Sound, Typed, Bridges, Converged, Edge
<1>2. /\ \A a \in Agents : call[a].op = "merge" => call[a].from \in Ids /\ call[a].to \in Ids
      /\ \A a \in Agents : call'[a].op = "merge" => call'[a].from \in Ids /\ call'[a].to \in Ids
  BY <1>1, OpCalls DEF MergeCalls
<1>4. ASSUME KeepsEdges("ops", "ConvergedWith"),
             \A a \in Agents : call'[a] = call[a] \/ (call'[a].op # "merge" /\ call[a].op # "merge")
      PROVE  Mutual'
  <2>1. \A i \in Ids, j \in Ids :
          /\ Converged(i, j) \in DOMAIN edges'["ops"] =>
               Converged(i, j) \in DOMAIN edges["ops"] /\ {i, j} \subseteq In("ops")'
          /\ Converged(i, j) \in DOMAIN edges["ops"] /\ {i, j} \subseteq In("ops")' =>
               Converged(i, j) \in DOMAIN edges'["ops"]
    BY <1>1, <1>4 DEF KeepsEdges, Converged, Grounded
  <2>2. MergesHalfDone'
    <3>1. SUFFICES ASSUME NEW a \in Agents, call'[a].op = "merge"
                   PROVE  /\ {call'[a].from, call'[a].to} \subseteq Held("ops")'
                          /\ {call'[a].from, call'[a].to} \subseteq In("ops")' =>
                               Converged(call'[a].to, call'[a].from) \in DOMAIN edges'["ops"]
      BY DEF MergesHalfDone, Linked, BagIn, BagToSet, Converged
    <3>2. call'[a] = call[a] /\ call[a].op = "merge"
      BY <1>4, <3>1
    <3>3. /\ {call[a].from, call[a].to} \subseteq Held("ops")
          /\ {call[a].from, call[a].to} \subseteq In("ops") =>
               Converged(call[a].to, call[a].from) \in DOMAIN edges["ops"]
      BY <3>2 DEF Mutual, MergesHalfDone, Linked, BagIn, BagToSet, Converged
    <3>4. QED
      BY <1>2, <1>4, <2>1, <3>2, <3>3 DEF KeepsEdges
  <2>3. MergeIsMutual'
    <3>1. SUFFICES ASSUME NEW i \in Ids, NEW j \in Ids, Converged(i, j) \in DOMAIN edges'["ops"],
                          Converged(j, i) \notin DOMAIN edges'["ops"]
                   PROVE  \E a \in Agents : call'[a].op = "merge" /\ call'[a].from = j /\ call'[a].to = i
      BY DEF MergeIsMutual, InFlight, Linked, BagIn, BagToSet, Converged
    <3>2. Converged(i, j) \in DOMAIN edges["ops"] /\ Converged(j, i) \notin DOMAIN edges["ops"]
      BY <2>1, <3>1
    <3>3. PICK a \in Agents : call[a].op = "merge" /\ call[a].from = j /\ call[a].to = i
      BY <3>2 DEF Mutual, MergeIsMutual, InFlight, Linked, BagIn, BagToSet, Converged
    <3>4. QED
      BY <1>4, <3>3
  <2>4. QED
    BY <2>2, <2>3 DEF Mutual
<1>5. CASE Outside
  <2>1. KeepsEdges("ops", "ConvergedWith")
    BY <1>1, <1>5, EdgesKept
  <2>2. \A d \in Agents : call'[d] = call[d] \/ (call'[d].op # "merge" /\ call[d].op # "merge")
    BY <1>5 DEF Outside
  <2>3. QED
    BY <1>4, <2>1, <2>2
<1>6. ASSUME NEW a \in Agents, NEW f, f # "merge", AgentEffect(a, f), AgentGraph(f)
      PROVE  Mutual'
  <2>1. KeepsEdges("ops", "ConvergedWith")
    <3>1. ~ MayTie(f, "ops", "ConvergedWith")
      BY <1>6 DEF MayTie
    <3>2. QED
      BY <1>1, <1>6, <3>1, EdgesKept
  <2>2. \A d \in Agents : call'[d] = call[d] \/ (call'[d].op # "merge" /\ call[d].op # "merge")
    BY <1>6 DEF AgentEffect, StepOf
  <2>3. QED
    BY <1>4, <2>1, <2>2
<1>7. ASSUME NEW a \in Agents, AgentEffect(a, "merge"), AgentGraph("merge")
      PROVE  Mutual'
  <2>1. /\ MergeEffect(a) /\ \A d \in Agents \ {a} : call'[d] = call[d]
        /\ In("ops") \subseteq Held("ops") /\ Held("ops") \subseteq Held("ops")'
        /\ DOMAIN edges["ops"] \subseteq DOMAIN edges'["ops"]
    BY <1>1, <1>7 DEF AgentEffect, StepOf, AgentGraph, Held
  <2>2. ASSUME call[a].op = "idle", call'[a].op = "merge",
               Tied("ops", Converged(call'[a].to, call'[a].from))
        PROVE  Mutual'
    <3>1. /\ DOMAIN edges'["ops"] = DOMAIN edges["ops"] \cup {Converged(call'[a].to, call'[a].from)}
          /\ {call'[a].to, call'[a].from} \subseteq In("ops") /\ nodes' = nodes /\ In("ops")' = In("ops")
      BY <2>2 DEF Tied, EdgeAdded, Converged, In
    <3>2. MergesHalfDone'
      <4>1. SUFFICES ASSUME NEW d \in Agents, call'[d].op = "merge"
                     PROVE  /\ {call'[d].from, call'[d].to} \subseteq Held("ops")'
                            /\ {call'[d].from, call'[d].to} \subseteq In("ops")' =>
                                 Converged(call'[d].to, call'[d].from) \in DOMAIN edges'["ops"]
        BY DEF MergesHalfDone, Linked, BagIn, BagToSet, Converged
      <4>2. CASE d = a
        BY <2>1, <3>1, <4>2
      <4>3. CASE d # a
        <5>1. call'[d] = call[d]
          BY <2>1, <4>3
        <5>2. /\ {call[d].from, call[d].to} \subseteq Held("ops")
              /\ {call[d].from, call[d].to} \subseteq In("ops") =>
                   Converged(call[d].to, call[d].from) \in DOMAIN edges["ops"]
          BY <4>1, <5>1 DEF Mutual, MergesHalfDone, Linked, BagIn, BagToSet, Converged
        <5>3. QED
          BY <2>1, <3>1, <5>1, <5>2
      <4>4. QED
        BY <4>2, <4>3
    <3>3. MergeIsMutual'
      <4>1. SUFFICES ASSUME NEW i \in Ids, NEW j \in Ids, Converged(i, j) \in DOMAIN edges'["ops"],
                            Converged(j, i) \notin DOMAIN edges'["ops"]
                     PROVE  \E d \in Agents : call'[d].op = "merge" /\ call'[d].from = j /\ call'[d].to = i
        BY DEF MergeIsMutual, InFlight, Linked, BagIn, BagToSet, Converged
      <4>2. CASE Converged(i, j) = Converged(call'[a].to, call'[a].from)
        BY <2>2, <4>2 DEF Converged
      <4>3. CASE Converged(i, j) \in DOMAIN edges["ops"]
        <5>1. Converged(j, i) \notin DOMAIN edges["ops"]
          BY <3>1, <4>1
        <5>2. PICK d \in Agents : call[d].op = "merge" /\ call[d].from = j /\ call[d].to = i
          BY <4>3, <5>1 DEF Mutual, MergeIsMutual, InFlight, Linked, BagIn, BagToSet, Converged
        <5>3. d # a
          BY <2>2, <5>2
        <5>4. QED
          BY <2>1, <5>2, <5>3
      <4>4. QED
        BY <3>1, <4>1, <4>2, <4>3
    <3>4. QED
      BY <3>2, <3>3 DEF Mutual
  <2>3. ASSUME call[a].op = "merge", call'[a].op = "idle",
               \/ Tied("ops", Converged(call[a].from, call[a].to))
               \/ Still /\ ~ CanLink("ops", call[a].from, call[a].to)
        PROVE  Mutual'
    <3> DEFINE back == Converged(call[a].to, call[a].from)
               forth == Converged(call[a].from, call[a].to)
    <3>1. /\ In("ops")' = In("ops")
          /\ \/ DOMAIN edges'["ops"] = DOMAIN edges["ops"] \cup {forth}
                /\ {call[a].from, call[a].to} \subseteq In("ops")
             \/ DOMAIN edges'["ops"] = DOMAIN edges["ops"] /\ ~ CanLink("ops", call[a].from, call[a].to)
      BY <2>3 DEF Tied, EdgeAdded, Converged, In, Still
    <3>2. /\ back \in DOMAIN edges["ops"] => CanLink("ops", call[a].from, call[a].to)
          /\ {call[a].from, call[a].to} \subseteq In("ops") => back \in DOMAIN edges["ops"]
      BY <1>1, <2>3
         DEF Grounded, CanLink, Converged, Mutual, MergesHalfDone, Linked, BagIn, BagToSet
    <3>3. /\ back \in DOMAIN edges'["ops"] => forth \in DOMAIN edges'["ops"]
          /\ forth \in DOMAIN edges'["ops"] \ DOMAIN edges["ops"] => back \in DOMAIN edges'["ops"]
      <4>1. back = forth => back \notin DOMAIN edges["ops"]
        BY <1>1 DEF Grounded, Converged
      <4>2. QED
        BY <3>1, <3>2, <4>1
    <3>4. MergesHalfDone'
      <4>1. SUFFICES ASSUME NEW d \in Agents, call'[d].op = "merge"
                     PROVE  /\ {call'[d].from, call'[d].to} \subseteq Held("ops")'
                            /\ {call'[d].from, call'[d].to} \subseteq In("ops")' =>
                                 Converged(call'[d].to, call'[d].from) \in DOMAIN edges'["ops"]
        BY DEF MergesHalfDone, Linked, BagIn, BagToSet, Converged
      <4>2. call'[d] = call[d]
        BY <2>1, <2>3, <4>1
      <4>3. /\ {call[d].from, call[d].to} \subseteq Held("ops")
            /\ {call[d].from, call[d].to} \subseteq In("ops") =>
                 Converged(call[d].to, call[d].from) \in DOMAIN edges["ops"]
        BY <4>1, <4>2 DEF Mutual, MergesHalfDone, Linked, BagIn, BagToSet, Converged
      <4>4. QED
        BY <2>1, <3>1, <4>2, <4>3
    <3>5. MergeIsMutual'
      <4>1. SUFFICES ASSUME NEW i \in Ids, NEW j \in Ids, Converged(i, j) \in DOMAIN edges'["ops"],
                            Converged(j, i) \notin DOMAIN edges'["ops"]
                     PROVE  \E d \in Agents : call'[d].op = "merge" /\ call'[d].from = j /\ call'[d].to = i
        BY DEF MergeIsMutual, InFlight, Linked, BagIn, BagToSet, Converged
      <4>2. Converged(i, j) # back
        BY <3>3, <4>1 DEF Converged
      <4>3. Converged(i, j) \in DOMAIN edges["ops"]
        BY <3>1, <3>3, <4>1 DEF Converged
      <4>4. PICK d \in Agents : call[d].op = "merge" /\ call[d].from = j /\ call[d].to = i
        <5>1. Converged(j, i) \notin DOMAIN edges["ops"]
          BY <2>1, <4>1
        <5>2. QED
          BY <4>3, <5>1 DEF Mutual, MergeIsMutual, InFlight, Linked, BagIn, BagToSet, Converged
      <4>5. d # a
        BY <4>2, <4>4
      <4>6. QED
        BY <2>1, <4>4, <4>5
    <3>6. QED
      BY <3>4, <3>5 DEF Mutual
  <2>4. QED
    BY <2>1, <2>2, <2>3 DEF MergeEffect, Converged
<1>8. QED
  BY <1>5, <1>6, <1>7, StepCases

\* Convergence is mutual in every reachable state (merge_intents, integration.rs).
THEOREM ConvergenceMutual == Spec => []MergeIsMutual
<1>1. Start => Mutual
  BY MutualStarts
<1>2. Sound /\ Mutual /\ [Next]_vars => Mutual'
  BY MutualKept
<1>3. Mutual => MergeIsMutual
  BY DEF Mutual
<1>4. QED
  BY <1>1, <1>2, <1>3, SoundAlways, PTL DEF Spec, Next

-----------------------------------------------------------------------------
(***************************************************************************)
(* Decisions, operator messages and audits.                                *)
(***************************************************************************)
\* What was made in comms and never waited in the operational bridge: no replay
\* brings it back or writes over it.
Own(i) == i \in Held("comms") \ Held("ops")
IsDecision(i) == Own(i) /\ (i \in In("comms") => nodes["comms"][i].kind = "decision")

Attached(i, j, k) ==
  \/ "comms" \in shut \/ {i, j} \cap gone["comms"] # {}
  \/ [from |-> i, to |-> j, kind |-> k] \in DOMAIN edges["comms"]

CallFits(c) ==
  /\ c.op = "decision" =>
       /\ IsDecision(c.id)
       /\ c.at \in {"identify", "thread"} => c.thread = 0
       /\ c.thread # 0 =>
            /\ Own(c.thread) /\ c.id # c.thread
            /\ c.at # "attach" => Attached(c.id, c.thread, "Thread")
  /\ c.op = "operator" =>
       /\ Own(c.id) /\ c.id > 3
       /\ c.at = "tie" => Own(c.companion) /\ c.companion # c.id
  /\ c.op = "audit" =>
       \A i \in c.standing :
         IsDecision(i) /\ (c.found = 0 => i \in c.todo \cup gone["comms"])

ResultFits(r) ==
  /\ r.op = "decision" /\ "id" \in DOMAIN r.result => IsDecision(r.result.id)
  /\ {"id", "thread"} \subseteq DOMAIN r.result /\ r.result.thread # 0 =>
       r.result.thread \in Ids /\ Attached(r.result.id, r.result.thread, "Thread")
  /\ {"id", "companion"} \subseteq DOMAIN r.result =>
       Attached(r.result.companion, r.result.id, "DerivedFrom")
  /\ "panicked" \in DOMAIN r.result => r.result.panicked \in gone["comms"]
  /\ r.op = "audit" /\ ~ r.result.anomaly => r.result.standing \subseteq gone["comms"]

Fits ==
  /\ \A a \in Agents : \A c \in {call[a]} : CallFits(c)
  /\ \A r \in returned : ResultFits(r)
  /\ \A e \in DOMAIN edges["comms"] : e.kind = "Thread" \/ e.to > 3

LEMMA OwnKept ==
  ASSUME Sound, Grows
  PROVE  /\ \A i : Own(i) => Own(i)'
         /\ \A i : IsDecision(i) => IsDecision(i)'
         /\ \A i, j, k : Attached(i, j, k) => Attached(i, j, k)'
<1>1. /\ {"comms", "ops"} = Bridges /\ fresh \in Nat
      /\ \A b \in Bridges : \A i \in Held(b) : i < fresh
  BY AgentCallsAssumption DEF Sound, Typed, GraphTyped, Grounded, Bridges
<1>2. /\ gone["comms"] \subseteq gone'["comms"] /\ Held("comms") \subseteq Held("comms")'
      /\ gone'["ops"] \subseteq Held("ops") /\ In("ops")' \subseteq In("ops") \cup {fresh}
      /\ \A i \in In("comms") \cap In("comms")' :
           nodes'["comms"][i] = nodes["comms"][i] \/ i \in Held("ops")
      /\ In("comms")' \subseteq In("comms") \cup {fresh} \cup Held("ops")
  BY <1>1 DEF Grows
<1>3. Held("ops")' \subseteq Held("ops") \cup {fresh}
  BY <1>2 DEF Held
<1>4. ASSUME NEW i, Own(i)
      PROVE  Own(i)' /\ i # fresh
  BY <1>1, <1>2, <1>3, <1>4 DEF Own
<1>5. ASSUME NEW i, IsDecision(i)
      PROVE  IsDecision(i)'
  BY <1>2, <1>4, <1>5 DEF IsDecision, Own
<1>6. ASSUME NEW i, NEW j, NEW k, Attached(i, j, k)
      PROVE  Attached(i, j, k)'
  <2>1. CASE "comms" \in shut \/ {i, j} \cap gone["comms"] # {}
    BY <1>2, <2>1 DEF Attached, Grows
  <2>2. CASE [from |-> i, to |-> j, kind |-> k] \in DOMAIN edges["comms"]
    <3> DEFINE e == [from |-> i, to |-> j, kind |-> k]
    <3>1. e.from = i /\ e.to = j /\ e \in DOMAIN edges["comms"]
      BY <2>2
    <3>2. e \notin DOMAIN edges'["comms"] => \E d \in {i, j} : d \in gone'["comms"]
      BY <1>1, <3>1 DEF Grows
    <3>3. QED
      BY <3>2 DEF Attached
  <2>3. QED
    BY <1>6, <2>1, <2>2 DEF Attached
<1>7. QED
  BY <1>4, <1>5, <1>6

LEMMA FitsStarts ==
  ASSUME Start
  PROVE  Fits
<1>1. \A a \in Agents : call[a].op = "idle"
  BY DEF Start, Init, Idle
<1>2. DOMAIN edges["comms"] = {} /\ returned = {}
  BY EmptyBagOf DEF Start, Init, Bridges
<1>3. QED
  BY <1>1, <1>2 DEF Fits, CallFits

LEMMA ResultFitsKept ==
  ASSUME Sound, Grows, NEW r, ResultFits(r)
  PROVE  ResultFits(r)'
<1>1. gone["comms"] \subseteq gone'["comms"]
  BY DEF Grows, Bridges
<1>2. r.op = "decision" /\ "id" \in DOMAIN r.result => IsDecision(r.result.id)'
  BY OwnKept DEF ResultFits
<1>3. {"id", "thread"} \subseteq DOMAIN r.result /\ r.result.thread # 0 =>
        r.result.thread \in Ids /\ Attached(r.result.id, r.result.thread, "Thread")'
  BY OwnKept DEF ResultFits
<1>4. {"id", "companion"} \subseteq DOMAIN r.result =>
        Attached(r.result.companion, r.result.id, "DerivedFrom")'
  BY OwnKept DEF ResultFits
<1>5. QED
  BY <1>1, <1>2, <1>3, <1>4 DEF ResultFits

LEMMA CallFitsKept ==
  ASSUME Sound, Grows, NEW c, CallFits(c)
  PROVE  CallFits(c)'
<1>1. gone["comms"] \subseteq gone'["comms"]
  BY DEF Grows, Bridges
<1>2. ASSUME c.op = "decision"
      PROVE  /\ IsDecision(c.id)'
             /\ c.at \in {"identify", "thread"} => c.thread = 0
             /\ c.thread # 0 =>
                  /\ Own(c.thread)' /\ c.id # c.thread
                  /\ c.at # "attach" => Attached(c.id, c.thread, "Thread")'
  BY <1>2, OwnKept DEF CallFits
<1>3. ASSUME c.op = "operator"
      PROVE  /\ Own(c.id)' /\ c.id > 3
             /\ c.at = "tie" => Own(c.companion)' /\ c.companion # c.id
  BY <1>3, OwnKept DEF CallFits
<1>4. ASSUME c.op = "audit", NEW i \in c.standing
      PROVE  IsDecision(i)' /\ (c.found = 0 => i \in c.todo \cup gone'["comms"])
  BY <1>1, <1>4, OwnKept DEF CallFits
<1>5. QED
  BY <1>2, <1>3, <1>4 DEF CallFits

LEMMA MadeOwn ==
  ASSUME Sound, NEW n, NEW i, i = fresh, Made("comms", n), gone' = gone
  PROVE  Own(i)' /\ i \in In("comms")' /\ nodes'["comms"][i] = n /\ i > 3
<1>1. /\ In("comms")' = In("comms") \cup {i} /\ nodes'["comms"][i] = n
      /\ nodes'["ops"] = nodes["ops"]
  BY DEF Made, NodeIsNow, Bridges
<1>2. i \in Nat /\ i > 3 /\ \A j \in Held("ops") : j < i
  BY AgentCallsAssumption DEF Sound, Typed, GraphTyped, Grounded, Bridges
<1>3. Held("ops")' = Held("ops") /\ i \in Held("comms")'
  BY <1>1 DEF Held, In
<1>4. i \notin Held("ops")
  BY <1>2
<1>5. QED
  BY <1>1, <1>2, <1>3, <1>4 DEF Own

LEMMA PlainFits ==
  ASSUME NEW r, DOMAIN r.result \subseteq {"ok", "id"}, r.op \notin {"decision", "audit"}
  PROVE  ResultFits(r)'
BY DEF ResultFits

LEMMA DecisionFits ==
  ASSUME Sound, Grows, Fits, NEW a \in Agents, AgentEffect(a, "decision")
  PROVE  /\ \A d \in {call'[a]} : CallFits(d)'
         /\ \A r \in returned' \ returned : ResultFits(r)'
<1>1. PICK c, d, i : c = call[a] /\ d = call'[a] /\ i = fresh
  OBVIOUS
<1>2. /\ DecisionEffect(a) /\ {c.op, d.op} \subseteq {"idle", "decision"} /\ gone' = gone
      /\ shut' = shut /\ {"comms", "ops"} = Bridges /\ c \in Calls
      /\ \A r \in returned' \ returned : r.op = "idle" => Plain(r)
  BY <1>1 DEF AgentEffect, StepOf, Bridges, Sound, Typed
<1>3. CallFits(c) /\ CallFits(c)'
  BY <1>1, CallFitsKept DEF Fits
<1>4. ASSUME Returns(a, [ok |-> FALSE])
      PROVE  CallFits(d)' /\ \A r \in returned' \ returned : ResultFits(r)'
  BY <1>1, <1>2, <1>4 DEF Returns, CallFits, ResultFits, Plain
<1>5. ASSUME c.op = "decision", Returns(a, [panicked |-> c.id]), c.id \notin In("comms")
      PROVE  CallFits(d)' /\ \A r \in returned' \ returned : ResultFits(r)'
  <2>1. c.id \in gone["comms"]
    BY <1>3, <1>5 DEF CallFits, IsDecision, Own, Held
  <2>2. QED
    BY <1>1, <1>2, <1>5, <2>1 DEF Returns, CallFits, ResultFits
<1>6. ASSUME c.op = "decision", c.at \in {"validate", "register"},
             NEW o \in BOOLEAN, Returns(a, Submission(a, o))
      PROVE  CallFits(d)' /\ \A r \in returned' \ returned : ResultFits(r)'
  <2>1. /\ IsDecision(c.id)' /\ c.thread \in OrNone
        /\ c.thread # 0 => c.thread \in Ids /\ Attached(c.id, c.thread, "Thread")'
    <3>1. c \in DecisionCalls
      BY <1>2, <1>6, OpCalls
    <3>2. QED
      BY <1>3, <1>6, <3>1, AgentCallsAssumption DEF CallFits, DecisionCalls, Ids, OrNone
  <2>2. ASSUME NEW r \in returned' \ returned
        PROVE  /\ r.op = "decision" /\ r.result.id = c.id /\ r.result.thread = c.thread
               /\ DOMAIN r.result = {"ok", "id", "thread", "marker", "checkout", "until"}
    BY <1>1, <1>6, <2>2 DEF Returns, Submission
  <2>3. CallFits(d)'
    BY <1>1, <1>6 DEF Returns, CallFits
  <2>4. QED
    BY <2>1, <2>2, <2>3 DEF ResultFits
<1>7. ASSUME d.op = "decision", returned' = returned, IsDecision(d.id)',
             \/ d.thread = 0
             \/ /\ d.at \notin {"identify", "thread"}
                /\ Own(d.thread)' /\ d.id # d.thread
                /\ d.at # "attach" => Attached(d.id, d.thread, "Thread")'
      PROVE  CallFits(d)' /\ \A r \in returned' \ returned : ResultFits(r)'
  BY <1>7 DEF CallFits
<1>8. CASE /\ Made("comms", About("decision", AnyContent, Item)) /\ returned' = returned
           /\ d.op = "decision" /\ d.id = fresh /\ d.thread = 0
  <2>1. About("decision", AnyContent, Item).kind = "decision"
    <3>1. AnyContent \in Contents /\ Item \in 0..MaxIds /\ "decision" \in NodeKinds
      BY AgentCallsAssumption DEF Sound, Typed, SidesTyped, NodeKinds, Item
    <3>2. QED
      BY <3>1, AboutsAreNodes
  <2>2. IsDecision(i)'
    <3>1. Own(i)' /\ nodes'["comms"][i] = About("decision", AnyContent, Item)
      BY <1>1, <1>2, <1>8, MadeOwn
    <3>2. QED
      BY <2>1, <3>1 DEF IsDecision
  <2>3. d.id = i
    BY <1>1, <1>8
  <2>4. QED
    BY <1>1, <1>7, <1>8, <2>2, <2>3
<1>9. ASSUME c.op = "decision", d.op = "decision", d.id = c.id, returned' = returned
      PROVE  /\ IsDecision(c.id) /\ IsDecision(c.id)'
             /\ c.at \in {"identify", "thread"} => c.thread = 0
             /\ c.thread # 0 => Own(c.thread)' /\ c.id # c.thread
             /\ c.thread # 0 /\ c.at # "attach" => Attached(c.id, c.thread, "Thread")'
  BY <1>3, <1>9 DEF CallFits
<1>10. CASE /\ c.op = "decision" /\ d.op = "decision" /\ d.id = c.id /\ returned' = returned
            /\ d.thread = c.thread /\ c.at # "attach"
            /\ c.at \in {"identify", "thread"} \/ d.at \in {"count", "mark", "tie", "validate", "register"}
  BY <1>1, <1>7, <1>9, <1>10
<1>11. CASE /\ c.op = "decision" /\ d.op = "decision" /\ d.id = c.id /\ returned' = returned
            /\ d.at = "attach" /\ d.thread \in OfKind("comms", "thread")
  <2>1. IsDecision(c.id) /\ IsDecision(c.id)' /\ d.thread \in In("comms")
        /\ nodes["comms"][d.thread].kind = "thread"
    BY <1>9, <1>11 DEF OfKind
  <2>2. d.thread # d.id /\ Own(d.thread)
    BY <1>2, <1>11, <2>1 DEF IsDecision, Own, Held, Sound, Grounded, IsMessage
  <2>3. Own(d.thread)'
    BY <2>2, OwnKept
  <2>4. QED
    BY <1>1, <1>7, <1>11, <2>1, <2>2, <2>3
<1>12. CASE /\ c.op = "decision" /\ d.op = "decision" /\ d.id = c.id /\ returned' = returned
            /\ c.at = "attach" /\ d.at = "count" /\ d.thread = c.thread
            /\ \/ Still /\ (CanLink("comms", c.id, c.thread) => "comms" \in shut)
               \/ Tied("comms", [from |-> c.id, to |-> c.thread, kind |-> "Thread"])
  <2>1. c.thread # 0 => Attached(c.id, c.thread, "Thread")'
    <3>1. SUFFICES ASSUME c.thread # 0
                   PROVE  Attached(c.id, c.thread, "Thread")'
      OBVIOUS
    <3>2. c.id # c.thread /\ Own(c.id) /\ Own(c.thread)
      BY <1>3, <1>12, <3>1 DEF CallFits, IsDecision
    <3>3. CASE Tied("comms", [from |-> c.id, to |-> c.thread, kind |-> "Thread"])
      BY <3>3 DEF Tied, EdgeAdded, Attached
    <3>4. CASE "comms" \in shut
      BY <1>2, <3>4 DEF Attached
    <3>5. CASE ~ CanLink("comms", c.id, c.thread)
      BY <1>2, <3>2, <3>5 DEF CanLink, Own, Held, Attached
    <3>6. QED
      BY <1>12, <3>3, <3>4, <3>5
  <2>2. QED
    BY <1>1, <1>7, <1>9, <1>12, <2>1
<1>13. \/ Returns(a, [ok |-> FALSE])
       \/ c.op = "decision" /\ Returns(a, [panicked |-> c.id]) /\ c.id \notin In("comms")
       \/ /\ c.op = "decision" /\ c.at \in {"validate", "register"}
          /\ \E o \in BOOLEAN : Returns(a, Submission(a, o))
       \/ /\ Made("comms", About("decision", AnyContent, Item)) /\ returned' = returned
          /\ d.op = "decision" /\ d.id = fresh /\ d.thread = 0
       \/ /\ c.op = "decision" /\ d.op = "decision" /\ d.id = c.id /\ returned' = returned
          /\ \/ /\ d.thread = c.thread /\ c.at # "attach"
                /\ \/ c.at \in {"identify", "thread"}
                   \/ d.at \in {"count", "mark", "tie", "validate", "register"}
             \/ d.at = "attach" /\ d.thread \in OfKind("comms", "thread")
             \/ /\ c.at = "attach" /\ d.at = "count" /\ d.thread = c.thread
                /\ \/ Still /\ (CanLink("comms", c.id, c.thread) => "comms" \in shut)
                   \/ Tied("comms", [from |-> c.id, to |-> c.thread, kind |-> "Thread"])
  BY <1>1, <1>2 DEF DecisionEffect, Moves
<1>14. CASE \/ Returns(a, [ok |-> FALSE])
            \/ c.op = "decision" /\ Returns(a, [panicked |-> c.id]) /\ c.id \notin In("comms")
            \/ /\ c.op = "decision" /\ c.at \in {"validate", "register"}
               /\ \E o \in BOOLEAN : Returns(a, Submission(a, o))
  BY <1>1, <1>4, <1>5, <1>6, <1>14
<1>15. QED
  BY <1>8, <1>10, <1>11, <1>12, <1>13, <1>14

LEMMA OperatorFits ==
  ASSUME Sound, Grows, Fits, NEW a \in Agents, AgentEffect(a, "operator")
  PROVE  /\ \A d \in {call'[a]} : CallFits(d)'
         /\ \A r \in returned' \ returned : ResultFits(r)'
<1>1. PICK c, d, i : c = call[a] /\ d = call'[a] /\ i = fresh
  OBVIOUS
<1>2. /\ OperatorEffect(a) /\ {c.op, d.op} \subseteq {"idle", "operator"} /\ gone' = gone
      /\ shut' = shut
      /\ \A r \in returned' \ returned : r.op = "idle" => Plain(r)
  BY <1>1 DEF AgentEffect, StepOf
<1>3. CallFits(c) /\ CallFits(c)' /\ fresh \in Nat /\ \A j \in Held("comms") : j < fresh
  BY <1>1, CallFitsKept, AgentCallsAssumption
     DEF Fits, Sound, Typed, GraphTyped, Grounded, Bridges
<1>4. CASE Returns(a, [ok |-> FALSE])
  BY <1>1, <1>2, <1>4 DEF Returns, CallFits, ResultFits, Plain
<1>5. CASE c.op = "operator" /\ Returns(a, [panicked |-> c.id]) /\ c.id \notin In("comms")
  <2>1. c.id \in gone["comms"]
    BY <1>3, <1>5 DEF CallFits, Own, Held
  <2>2. QED
    BY <1>1, <1>2, <1>5, <2>1 DEF Returns, CallFits, ResultFits
<1>6. CASE /\ Made("comms", MessageNode(AnyContent)) /\ returned' = returned
           /\ d.op = "operator" /\ d.at = "identify" /\ d.id = fresh
  <2>1. Own(i)' /\ i > 3
    BY <1>1, <1>2, <1>6, MadeOwn
  <2>2. CallFits(d)'
    BY <1>1, <1>6, <2>1 DEF CallFits
  <2>3. QED
    BY <1>1, <1>6, <2>2
<1>7. CASE /\ c.op = "operator" /\ returned' = returned
           /\ d.op = "operator" /\ d.at = "companion" /\ d.id = c.id
  BY <1>1, <1>3, <1>7 DEF CallFits
<1>8. CASE /\ c.op = "operator" /\ returned' = returned /\ Made("comms", CompanionNode(c.id))
           /\ d.op = "operator" /\ d.id = c.id /\ d.companion = fresh
  <2>1. Own(i)' /\ i # c.id
    BY <1>1, <1>2, <1>3, <1>8, MadeOwn DEF CallFits, Own
  <2>2. CallFits(d)'
    BY <1>1, <1>3, <1>8, <2>1 DEF CallFits
  <2>3. QED
    BY <1>1, <1>8, <2>2
<1>9. CASE /\ c.op = "operator" /\ c.at = "tie" /\ Returns(a, Accompanied(a))
           /\ \/ Still /\ (CanLink("comms", c.companion, c.id) => "comms" \in shut)
              \/ Tied("comms", [from |-> c.companion, to |-> c.id, kind |-> "DerivedFrom"])
  <2>1. c.id # c.companion /\ Own(c.id) /\ Own(c.companion)
    BY <1>3, <1>9 DEF CallFits
  <2>2. Attached(c.companion, c.id, "DerivedFrom")'
    <3>1. CASE Tied("comms", [from |-> c.companion, to |-> c.id, kind |-> "DerivedFrom"])
      BY <3>1 DEF Tied, EdgeAdded, Attached
    <3>2. CASE "comms" \in shut
      BY <1>2, <3>2 DEF Attached
    <3>3. CASE ~ CanLink("comms", c.companion, c.id)
      BY <1>2, <2>1, <3>3 DEF CanLink, Own, Held, Attached
    <3>4. QED
      BY <1>9, <3>1, <3>2, <3>3
  <2>3. ASSUME NEW r \in returned' \ returned
        PROVE  r.op = "operator" /\ r.result = [ok |-> TRUE, id |-> c.id, companion |-> c.companion]
    BY <1>1, <1>9, <2>3 DEF Returns, Accompanied
  <2>4. CallFits(d)'
    BY <1>1, <1>9 DEF Returns, CallFits
  <2>5. QED
    BY <1>1, <2>2, <2>3, <2>4 DEF ResultFits
<1>10. QED
  BY <1>1, <1>2, <1>4, <1>5, <1>6, <1>7, <1>8, <1>9 DEF OperatorEffect

LEMMA AuditFits ==
  ASSUME Sound, Grows, Fits, NEW a \in Agents, AgentEffect(a, "audit")
  PROVE  /\ \A d \in {call'[a]} : CallFits(d)'
         /\ \A r \in returned' \ returned : ResultFits(r)'
<1>1. PICK c, d : c = call[a] /\ d = call'[a]
  OBVIOUS
<1>2. /\ AuditEffect(a) /\ {c.op, d.op} \subseteq {"idle", "audit"} /\ gone' = gone
      /\ \A r \in returned' \ returned : r.op = "idle" => Plain(r)
      /\ c \in Calls
  BY <1>1 DEF AgentEffect, StepOf, Sound, Typed
<1>3. CallFits(c) /\ CallFits(c)'
  BY <1>1, CallFitsKept DEF Fits
<1>4. CASE returned' = returned /\ d.todo = Reached("comms", Thread) /\ d.standing = Standing
  <2>1. ASSUME NEW j \in Standing
        PROVE  IsDecision(j)' /\ j \in Reached("comms", Thread)
    <3>1. PICK r \in returned : r.op = "decision" /\ "id" \in DOMAIN r.result /\ r.result.id = j
      BY <2>1 DEF Standing
    <3>2. PICK e \in DOMAIN edges["comms"] : e.from = j /\ e.to = Thread
      BY <2>1 DEF Standing, BagToSet
    <3>3. IsDecision(j)'
      <4>1. IsDecision(j)
        BY <3>1 DEF Fits, ResultFits
      <4>2. QED
        BY <4>1, OwnKept
    <3>4. e.kind = "Thread" /\ e.from # e.to /\ In("comms") # {}
      BY <3>2 DEF Fits, Thread, Sound, Grounded, Bridges
    <3>5. {e.from, e.to} \ {Thread} \subseteq Reached("comms", Thread)
      BY <3>2, <3>4, ReachedNeighbors, IdsAreNaturals DEF Sound, Typed, Bridges
    <3>6. QED
      BY <3>2, <3>3, <3>4, <3>5
  <2>2. CallFits(d)'
    BY <1>2, <1>4, <2>1 DEF CallFits
  <2>3. QED
    BY <1>1, <1>4, <2>2
<1>5. CASE /\ c.op = "audit" /\ returned' = returned
           /\ \E j \in c.todo :
                /\ d.todo = c.todo \ {j} /\ d.standing = c.standing
                /\ d.found = c.found + Cardinality(OfKind("comms", "decision") \cap {j})
  <2>1. PICK j \in c.todo :
          /\ d.todo = c.todo \ {j} /\ d.standing = c.standing
          /\ d.found = c.found + Cardinality(OfKind("comms", "decision") \cap {j})
    BY <1>5
  <2>2. c.found \in Nat
    BY <1>2, <1>5, OpCalls DEF AuditCalls
  <2>3. j \in OfKind("comms", "decision") => d.found # 0
    <3>1. SUFFICES ASSUME j \in OfKind("comms", "decision")
                   PROVE  d.found # 0
      OBVIOUS
    <3>2. OfKind("comms", "decision") \cap {j} = {j}
      BY <3>1
    <3>3. Cardinality(OfKind("comms", "decision") \cap {j}) = 1
      BY <3>2, FS_Singleton
    <3>4. QED
      BY <2>1, <2>2, <3>3
  <2>4. d.found = 0 => c.found = 0
    <3>1. CASE j \in OfKind("comms", "decision")
      BY <2>3, <3>1
    <3>2. CASE j \notin OfKind("comms", "decision")
      <4>1. OfKind("comms", "decision") \cap {j} = {}
        BY <3>2
      <4>2. QED
        BY <2>1, <2>2, <4>1, FS_EmptySet
    <3>3. QED
      BY <3>1, <3>2
  <2>5. ASSUME NEW k \in d.standing
        PROVE  IsDecision(k)' /\ (d.found = 0 => k \in d.todo \cup gone'["comms"])
    <3>1. /\ IsDecision(k) /\ IsDecision(k)'
          /\ c.found = 0 => k \in c.todo \cup gone["comms"]
      BY <1>3, <1>5, <2>1, <2>5 DEF CallFits
    <3>2. k = j => k \in OfKind("comms", "decision") \cup gone["comms"]
      BY <3>1 DEF IsDecision, Own, Held, OfKind
    <3>3. QED
      BY <1>2, <2>1, <2>3, <2>4, <3>1, <3>2
  <2>6. CallFits(d)'
    BY <1>2, <2>5 DEF CallFits
  <2>7. QED
    BY <1>1, <1>5, <2>6
<1>6. CASE /\ c.op = "audit" /\ c.todo = {}
           /\ Returns(a, [anomaly |-> c.found > 0, standing |-> c.standing])
  <2>1. c.found \in Nat
    BY <1>2, <1>6, OpCalls DEF AuditCalls
  <2>2. c.found = 0 => c.standing \subseteq gone'["comms"]
    BY <1>3, <1>6 DEF CallFits
  <2>3. ASSUME NEW r \in returned' \ returned
        PROVE  ResultFits(r)'
    <3>1. r.op = "audit" /\ r.result = [anomaly |-> c.found > 0, standing |-> c.standing]
      BY <1>1, <1>6, <2>3 DEF Returns
    <3>2. r.result.anomaly = (c.found > 0) /\ r.result.standing = c.standing
          /\ DOMAIN r.result = {"anomaly", "standing"}
      BY <3>1
    <3>3. ~ r.result.anomaly => ~ (c.found > 0)
      BY <3>2, Zenon
    <3>4. ~ (c.found > 0) => c.found = 0
      BY <2>1
    <3>5. ~ r.result.anomaly => r.result.standing \subseteq gone'["comms"]
      BY <2>2, <3>2, <3>3, <3>4
    <3>6. QED
      BY <3>1, <3>2, <3>5 DEF ResultFits
  <2>4. CallFits(d)'
    BY <1>1, <1>6 DEF Returns, CallFits
  <2>5. QED
    BY <1>1, <2>3, <2>4
<1>7. QED
  BY <1>1, <1>2, <1>4, <1>5, <1>6 DEF AuditEffect

LEMMA OtherFits ==
  ASSUME Sound, Grows, Fits, NEW a \in Agents, NEW f, AgentEffect(a, f),
         f \notin {"decision", "operator", "audit"}
  PROVE  /\ \A d \in {call'[a]} : CallFits(d)'
         /\ \A r \in returned' \ returned : ResultFits(r)'
<1>1. call'[a].op \in {"idle", f} /\ gone' = gone
  BY DEF AgentEffect, StepOf
<1>2. \A d \in {call'[a]} : CallFits(d)'
  BY <1>1 DEF CallFits
<1>3. ASSUME NEW r \in returned' \ returned
      PROVE  ResultFits(r)'
  <2>1. r.op \in {"idle", f} /\ ((r.op = "idle" \/ f \notin Verbose) => Plain(r))
    BY <1>3 DEF AgentEffect, StepOf
  <2>2. CASE Plain(r)
    BY <2>1, <2>2, PlainFits DEF Plain
  <2>3. CASE ~ Plain(r)
    <3>1. f = "check" /\ CheckEffect(a) /\ r.op = "check"
      BY <2>1, <2>3 DEF Verbose, AgentEffect
    <3>2. \E pass : Returns(a, Verdict(a, pass))
      <4>1. returned' # returned
        BY <1>3
      <4>2. QED
        BY <3>1, <4>1 DEF CheckEffect
    <3>3. PICK pass : Returns(a, Verdict(a, pass))
      BY <3>2
    <3>4. r.result = Verdict(a, pass)
      BY <1>3, <3>3 DEF Returns
    <3>5. DOMAIN r.result = {"check", "pass", "kept"}
      BY <3>4 DEF Verdict
    <3>6. QED
      BY <3>1, <3>5 DEF ResultFits
  <2>4. QED
    BY <2>2, <2>3
<1>4. QED
  BY <1>2, <1>3

LEMMA FitsKept ==
  ASSUME Sound, Fits, [Next]_vars
  PROVE  Fits'
<1>1. Grows /\ Sound'
  BY StepCases
<1>2. \A r \in returned : ResultFits(r)'
  BY <1>1, ResultFitsKept DEF Fits
<1>3. \A a \in Agents : \A c \in {call[a]} : CallFits(c)'
  BY <1>1, CallFitsKept DEF Fits
<1>4. CASE Outside
  <2>1. UNCHANGED <<call, returned>> /\ DOMAIN edges'["comms"] \subseteq DOMAIN edges["comms"]
    BY <1>4 DEF Outside, Bridges
  <2>2. QED
    BY <1>2, <1>3, <2>1 DEF Fits
<1>5. ASSUME NEW a \in Agents, NEW f, AgentEffect(a, f), AgentGraph(f)
      PROVE  Fits'
  <2>1. \A d \in Agents \ {a} : call'[d] = call[d]
    BY <1>5 DEF AgentEffect, StepOf
  <2>2. /\ \A d \in {call'[a]} : CallFits(d)'
        /\ \A r \in returned' \ returned : ResultFits(r)'
    BY <1>1, <1>5, DecisionFits, OperatorFits, AuditFits, OtherFits
  <2>3. \A e \in DOMAIN edges'["comms"] : e.kind = "Thread" \/ e.to > 3
    <3>1. CASE f = "operator"
      <4>1. OperatorEffect(a) /\ \A c \in {call[a]} : c.op = "operator" => c.id > 3
        BY <1>5, <3>1 DEF AgentEffect, Fits, CallFits
      <4>2. CASE edges' = edges
        BY <4>2 DEF Fits
      <4>3. CASE call[a].op = "operator" /\
                 Tied("comms", [from |-> call[a].companion, to |-> call[a].id, kind |-> "DerivedFrom"])
        <5>1. call[a].id > 3
          BY <4>1, <4>3
        <5>2. QED
          BY <4>3, <5>1 DEF Tied, EdgeAdded, Fits
      <4>4. QED
        BY <4>1, <4>2, <4>3 DEF OperatorEffect, Still, Made
    <3>2. CASE f # "operator"
      BY <1>5, <3>2 DEF Fits, AgentGraph, MayTie, Bridges
    <3>3. QED
      BY <3>1, <3>2
  <2>4. QED
    BY <1>2, <1>3, <2>1, <2>2, <2>3 DEF Fits
<1>6. QED
  BY <1>4, <1>5, StepCases

\* What a decision's and an operator's submission return is there, attached and found, or
\* something was terminated (decision.rs, operator.rs, introspect.rs).
THEOREM DecisionsAttached == Spec => []DecisionsSound
<1>1. Start => Fits
  BY FitsStarts
<1>2. Sound /\ Fits /\ [Next]_vars => Fits'
  BY FitsKept
<1>3. ASSUME Sound, Fits
      PROVE  DecisionsSound
  <2>1. ReturnedIsAttached
    <3>1. SUFFICES ASSUME NEW r \in returned, NEW x, x = r.result, "id" \in DOMAIN x
                   PROVE  /\ "thread" \in DOMAIN x /\ x.thread # 0 =>
                               \/ "comms" \in shut \/ {x.id, x.thread} \cap gone["comms"] # {}
                               \/ x.id \in Reached("comms", x.thread)
                          /\ "companion" \in DOMAIN x =>
                               \/ "comms" \in shut \/ {x.id, x.companion} \cap gone["comms"] # {}
                               \/ Linked("comms", x.companion, x.id, "DerivedFrom")
      BY DEF ReturnedIsAttached
    <3>2. ResultFits(r)
      BY <1>3, <3>1 DEF Fits
    <3>3. ASSUME "thread" \in DOMAIN x, x.thread # 0
          PROVE  \/ "comms" \in shut \/ {x.id, x.thread} \cap gone["comms"] # {}
                 \/ x.id \in Reached("comms", x.thread)
      <4>1. x.thread \in Ids /\ Attached(x.id, x.thread, "Thread")
        BY <3>1, <3>2, <3>3 DEF ResultFits
      <4> DEFINE e == [from |-> x.id, to |-> x.thread, kind |-> "Thread"]
      <4>2. CASE e \in DOMAIN edges["comms"]
        <5>1. e.from # e.to /\ In("comms") # {} /\ e.from = x.id /\ e.to = x.thread /\ e.kind = "Thread"
          BY <1>3, <4>2 DEF Sound, Grounded, Bridges
        <5>2. \A g \in DOMAIN edges["comms"] : g.kind = "Thread" /\ x.thread \in {g.from, g.to} =>
                {g.from, g.to} \ {x.thread} \subseteq Reached("comms", x.thread)
          BY <1>3, <4>1, <5>1, ReachedNeighbors DEF Sound, Typed, Bridges
        <5>3. QED
          BY <4>2, <5>1, <5>2
      <4>3. QED
        BY <4>1, <4>2 DEF Attached
    <3>4. ASSUME "companion" \in DOMAIN x
          PROVE  \/ "comms" \in shut \/ {x.id, x.companion} \cap gone["comms"] # {}
                 \/ Linked("comms", x.companion, x.id, "DerivedFrom")
      BY <3>1, <3>2, <3>4 DEF ResultFits, Attached, Linked, BagIn, BagToSet
    <3>5. QED
      BY <3>3, <3>4
  <2>2. PanicNeedsTermination /\ AuditSeesDecisions
    BY <1>3 DEF Fits, ResultFits, PanicNeedsTermination, AuditSeesDecisions
  <2>3. QED
    BY <2>1, <2>2 DEF DecisionsSound
<1>4. QED
  BY <1>1, <1>2, <1>3, SoundAlways, PTL DEF Spec, Next

-----------------------------------------------------------------------------
(***************************************************************************)
(* Checkouts and their markers.                                            *)
(***************************************************************************)
\* The marker of a collision, and a decision that may have met one: it has counted
\* the checkouts, and an earlier one had opened its own.
IsMarker(i) == Own(i) /\ (i \in In("comms") => nodes["comms"][i] = MarkerNode(Item))
Registering(c) == c.op = "decision" /\ c.at \in {"tie", "validate", "register"}
Preceded(i) == \E r \in returned : Opened(r) /\ r.result.until <= i

CallMarks(c) ==
  Registering(c) /\ Preceded(c.id) =>
    /\ c.marker # 0 /\ IsMarker(c.marker)
    /\ c.thread # 0 => \/ c.at = "tie" /\ c.marker # c.thread
                       \/ Attached(c.marker, c.thread, "Thread")

ResultMarks(r) ==
  Proposed(r) /\ Preceded(r.result.id) =>
    /\ r.result.marker # 0 /\ IsMarker(r.result.marker)
    /\ r.result.thread # 0 => Attached(r.result.marker, r.result.thread, "Thread")

Marks ==
  /\ \A a \in Agents : \A c \in {call[a]} : CallMarks(c)
  /\ \A r \in returned : ResultMarks(r) /\ (Opened(r) => open[Item] > 0)

LEMMA MarkerKept ==
  ASSUME Sound, Grows, NEW i, IsMarker(i)
  PROVE  IsMarker(i)'
<1>1. Own(i) /\ Own(i)'
  BY OwnKept DEF IsMarker
<1>2. i \in Held("comms") /\ i \notin Held("ops") /\ i < fresh /\ fresh \in Nat
  BY <1>1, AgentCallsAssumption DEF Own, Sound, Typed, GraphTyped, Grounded, Bridges
<1>3. i \in In("comms")' => i \in In("comms") /\ nodes'["comms"][i] = nodes["comms"][i]
  BY <1>2 DEF Grows, Bridges
<1>4. QED
  BY <1>1, <1>3 DEF IsMarker

\* What a step returns of a decision opened its checkout just now, if at all, and
\* no step takes a checkout away.
LEMMA OpensNow ==
  ASSUME Sound, [Next]_vars
  PROVE  /\ open[Item] \in Nat /\ open'[Item] \in Nat /\ open[Item] <= open'[Item]
         /\ \A r \in returned' \ returned :
              Opened(r) => r.result.until = fresh /\ open'[Item] > 0
<1>1. /\ Sound' /\ open \in [Ids -> Nat] /\ open' \in [Ids -> Nat] /\ Item \in Ids
  BY StepCases, IdsAreNaturals DEF Sound, Typed, GraphTyped
<1>2. CASE Outside
  BY <1>1, <1>2 DEF Outside
<1>3. ASSUME NEW a \in Agents, NEW f, AgentEffect(a, f)
      PROVE  /\ open[Item] <= open'[Item]
             /\ \A r \in returned' \ returned :
                  Opened(r) => r.result.until = fresh /\ open'[Item] > 0
  <2>1. CASE f # "decision"
    <3>1. open' = open /\ \A r \in returned' \ returned : r.op \in {"idle", f}
      BY <1>3, <2>1 DEF AgentEffect, StepOf
    <3>2. QED
      BY <1>1, <2>1, <3>1 DEF Opened, Proposed
  <2>2. CASE f = "decision"
    <3>1. DecisionEffect(a)
      BY <1>3, <2>2 DEF AgentEffect
    <3>2. CASE open' = open /\ returned' = returned
      BY <1>1, <3>2
    <3>3. CASE /\ open' = open
               /\ \E x \in {[ok |-> FALSE], [panicked |-> call[a].id], Submission(a, FALSE)} :
                    Returns(a, x)
      <4>1. \A r \in returned' \ returned : ~ Opened(r)
        BY <3>3 DEF Returns, Submission, Opened, Proposed
      <4>2. QED
        BY <1>1, <3>3, <4>1
    <3>4. CASE open' = [open EXCEPT ![Item] = @ + 1] /\ Returns(a, Submission(a, TRUE))
      <4>1. \A r \in returned' \ returned : r.result.until = fresh
        BY <3>4 DEF Returns, Submission
      <4>2. open'[Item] = open[Item] + 1 /\ open[Item] \in Nat
        BY <1>1, <3>4
      <4>3. QED
        BY <4>1, <4>2
    <3>5. QED
      BY <3>1, <3>2, <3>3, <3>4 DEF DecisionEffect, Moves
  <2>3. QED
    BY <2>1, <2>2
<1>4. QED
  BY <1>1, <1>2, <1>3, StepCases

\* A decision's section, of a call c that becomes d.
LEMMA DecisionMarks ==
  ASSUME Sound, Fits, Marks, [Next]_vars, NEW a \in Agents, AgentEffect(a, "decision"),
         NEW c, NEW d, c = call[a], d = call'[a],
         CallMarks(c)', c.op = "decision" /\ Preceded(c.id)' => Preceded(c.id)
  PROVE  /\ CallMarks(d)'
         /\ \A r \in returned' \ returned : ResultMarks(r)'
<1>1. /\ DecisionEffect(a) /\ {c.op, d.op} \subseteq {"idle", "decision"} /\ gone' = gone
      /\ shut' = shut /\ "comms" \in Bridges /\ CallFits(c) /\ CallMarks(c)
      /\ \A r \in returned' \ returned : r.op \in {"idle", "decision"}
  BY DEF AgentEffect, StepOf, Bridges, Fits, Marks
<1>2. Grows
  BY StepCases
<1>3. CASE \E x \in {[ok |-> FALSE], [panicked |-> c.id]} : Returns(a, x)
  BY <1>3 DEF Returns, CallMarks, Registering, ResultMarks, Proposed
<1>4. ASSUME c.op = "decision", c.at \in {"validate", "register"},
             NEW o \in BOOLEAN, Returns(a, Submission(a, o))
      PROVE  CallMarks(d)' /\ \A r \in returned' \ returned : ResultMarks(r)'
  <2>1. ASSUME NEW r \in returned' \ returned
        PROVE  r.result.id = c.id /\ r.result.marker = c.marker /\ r.result.thread = c.thread
    BY <1>4, <2>1 DEF Returns, Submission
  <2>2. CallMarks(d)'
    BY <1>4 DEF Returns, CallMarks, Registering
  <2>3. Registering(c) /\ c.at # "tie"
    BY <1>4 DEF Registering
  <2>4. QED
    BY <2>1, <2>2, <2>3 DEF CallMarks, ResultMarks
<1>5. CASE returned' = returned /\ d.at \notin {"tie", "validate", "register"}
  BY <1>5 DEF CallMarks, Registering
<1>6. CASE c.op = "decision" /\ returned' = returned /\ d.id = c.id /\ open[Item] = 0
  <2>1. ~ Preceded(c.id)
    BY <1>6 DEF Marks, Preceded
  <2>2. QED
    BY <1>6, <2>1 DEF CallMarks
<1>7. CASE /\ c.op = "decision" /\ returned' = returned /\ Made("comms", MarkerNode(Item))
           /\ c.at = "mark" /\ d.thread = c.thread /\ d.marker = fresh
           /\ d.at = IF c.thread = 0 THEN "validate" ELSE "tie"
  <2>1. PICK i : i = fresh
    OBVIOUS
  <2>2. Own(i)' /\ nodes'["comms"][i] = MarkerNode(Item) /\ i > 3 /\ i \in Nat
    BY <1>1, <1>7, <2>1, MadeOwn, AgentCallsAssumption DEF Sound, Typed, GraphTyped
  <2>3. c.thread # 0 => c.thread \in Held("comms")
    BY <1>1, <1>7 DEF CallFits, Own
  <2>4. c.thread # i
    BY <2>1, <2>2, <2>3 DEF Sound, Grounded, Bridges
  <2>5. IsMarker(i)' /\ d.marker = i /\ i # 0
    BY <1>7, <2>1, <2>2 DEF IsMarker
  <2>6. QED
    BY <1>7, <2>4, <2>5 DEF CallMarks
<1>8. CASE /\ c.op = "decision" /\ returned' = returned /\ c.at = "tie" /\ d.at = "validate"
           /\ d.id = c.id /\ d.thread = c.thread /\ d.marker = c.marker
           /\ \/ Still /\ (CanLink("comms", c.marker, c.thread) => "comms" \in shut)
              \/ Tied("comms", [from |-> c.marker, to |-> c.thread, kind |-> "Thread"])
  <2>1. SUFFICES ASSUME Preceded(c.id)'
                 PROVE  CallMarks(d)'
    BY <1>8 DEF CallMarks
  <2>2. /\ c.marker # 0 /\ IsMarker(c.marker) /\ IsMarker(c.marker)'
        /\ c.thread # 0 => \/ c.marker # c.thread
                           \/ Attached(c.marker, c.thread, "Thread")
    <3>1. Registering(c) /\ Preceded(c.id)
      BY <1>8, <2>1 DEF Registering
    <3>2. QED
      BY <1>1, <1>2, <3>1, MarkerKept DEF CallMarks
  <2>3. ASSUME c.thread # 0
        PROVE  Attached(c.marker, c.thread, "Thread")'
    <3>1. CASE Attached(c.marker, c.thread, "Thread")
      BY <1>2, <3>1, OwnKept
    <3>2. CASE c.marker # c.thread
      <4>1. Own(c.marker) /\ Own(c.thread)
        BY <1>1, <1>8, <2>2, <2>3 DEF CallFits, IsMarker
      <4>2. CASE Tied("comms", [from |-> c.marker, to |-> c.thread, kind |-> "Thread"])
        BY <4>2 DEF Tied, EdgeAdded, Attached
      <4>3. CASE "comms" \in shut
        BY <1>1, <4>3 DEF Attached
      <4>4. CASE ~ CanLink("comms", c.marker, c.thread)
        BY <1>1, <3>2, <4>1, <4>4 DEF CanLink, Own, Held, Attached
      <4>5. QED
        BY <1>8, <4>2, <4>3, <4>4
    <3>3. QED
      BY <2>2, <2>3, <3>1, <3>2
  <2>4. QED
    BY <1>8, <2>2, <2>3 DEF CallMarks
<1>9. CASE /\ returned' = returned /\ Registering(c) /\ c.at = "validate"
           /\ d.id = c.id /\ d.thread = c.thread /\ d.marker = c.marker
  BY <1>9 DEF CallMarks
<1>10. \/ \E x \in {[ok |-> FALSE], [panicked |-> c.id]} : Returns(a, x)
       \/ /\ c.op = "decision" /\ c.at \in {"validate", "register"}
          /\ \E o \in BOOLEAN : Returns(a, Submission(a, o))
       \/ returned' = returned /\ d.at \notin {"tie", "validate", "register"}
       \/ /\ c.op = "decision" /\ returned' = returned /\ d.id = c.id
          /\ \/ open[Item] = 0
             \/ /\ Made("comms", MarkerNode(Item)) /\ c.at = "mark" /\ d.thread = c.thread
                /\ d.marker = fresh /\ d.at = IF c.thread = 0 THEN "validate" ELSE "tie"
             \/ /\ c.at = "tie" /\ d.at = "validate" /\ d.thread = c.thread /\ d.marker = c.marker
                /\ \/ Still /\ (CanLink("comms", c.marker, c.thread) => "comms" \in shut)
                   \/ Tied("comms", [from |-> c.marker, to |-> c.thread, kind |-> "Thread"])
             \/ c.at = "validate" /\ d.thread = c.thread /\ d.marker = c.marker
  <2>1. open[Item] \in Nat
    BY OpensNow
  <2>3. CASE c.op # "decision"
    BY <1>1, <2>3 DEF DecisionEffect
  <2>4. CASE c.op = "decision" /\ c.at \in {"identify", "thread", "attach"}
    BY <1>1, <2>4 DEF DecisionEffect, Moves
  <2>5. CASE c.op = "decision" /\ c.at = "count"
    BY <1>1, <2>1, <2>5 DEF DecisionEffect, Moves
  <2>6. CASE c.op = "decision" /\ c.at \in {"mark", "tie"}
    BY <1>1, <2>6 DEF DecisionEffect, Moves
  <2>7. CASE c.op = "decision" /\ c.at \in {"validate", "register"}
    BY <1>1, <2>7 DEF DecisionEffect, Moves
  <2>8. QED
    BY <1>1, <2>3, <2>4, <2>5, <2>6, <2>7 DEF DecisionEffect
<1>11. QED
  BY <1>3, <1>4, <1>5, <1>6, <1>7, <1>8, <1>9, <1>10 DEF Registering

LEMMA MarksKept ==
  ASSUME Sound, Fits, Marks, [Next]_vars
  PROVE  Marks'
<1>1. /\ Grows /\ Sound' /\ fresh \in Nat /\ returned \subseteq returned'
      /\ \A i \in Held("comms") : i < fresh
  BY StepCases, AgentCallsAssumption DEF Grows, Sound, Typed, GraphTyped, Grounded, Bridges
<1>2. ASSUME NEW i \in Held("comms"), Preceded(i)'
      PROVE  Preceded(i)
  <2>1. PICK r \in returned' : Opened(r) /\ r.result.until <= i
    BY <1>2 DEF Preceded
  <2>2. CASE r \in returned
    BY <2>1, <2>2 DEF Preceded
  <2>3. CASE r \notin returned
    <3>1. r.result.until = fresh /\ i < fresh
      BY <1>1, <2>1, <2>3, OpensNow
    <3>2. i \in Nat
      BY NodeTyped, IdsAreNaturals DEF Held, Sound, Typed, GraphTyped, Bridges, Ids
    <3>3. QED
      BY <1>1, <2>1, <3>1, <3>2
  <2>4. QED
    BY <2>2, <2>3
<1>3. ASSUME NEW a \in Agents, NEW c, c = call[a]
      PROVE  CallMarks(c)' /\ (c.op = "decision" /\ Preceded(c.id)' => Preceded(c.id))
  <2>1. CallFits(c) /\ CallMarks(c)
    BY <1>3 DEF Fits, Marks
  <2>2. c.op = "decision" => c.id \in Held("comms")
    BY <2>1 DEF CallFits, IsDecision, Own
  <2>3. /\ \A j, k : Attached(j, k, "Thread") => Attached(j, k, "Thread")'
        /\ \A j : IsMarker(j) => IsMarker(j)'
    BY <1>1, OwnKept, MarkerKept
  <2>4. QED
    BY <1>2, <2>1, <2>2, <2>3 DEF CallMarks, Registering
<1>4. ASSUME NEW r \in returned
      PROVE  ResultMarks(r)' /\ (Opened(r) => open'[Item] > 0)
  <2>1. ResultFits(r) /\ ResultMarks(r) /\ (Opened(r) => open[Item] > 0)
    BY DEF Fits, Marks
  <2>2. Proposed(r) => r.result.id \in Held("comms")
    BY <2>1 DEF ResultFits, Proposed, IsDecision, Own
  <2>3. /\ \A j, k : Attached(j, k, "Thread") => Attached(j, k, "Thread")'
        /\ \A j : IsMarker(j) => IsMarker(j)'
    BY <1>1, OwnKept, MarkerKept
  <2>4. ResultMarks(r)'
    BY <1>2, <2>1, <2>2, <2>3 DEF ResultMarks
  <2>5. QED
    BY <2>1, <2>4, OpensNow
<1>5. CASE Outside
  <2>1. call' = call /\ returned' = returned
    BY <1>5 DEF Outside
  <2>2. QED
    BY <1>3, <1>4, <2>1 DEF Marks
<1>6. ASSUME NEW a \in Agents, NEW f, AgentEffect(a, f)
      PROVE  Marks'
  <2>1. /\ \A e \in Agents \ {a} : call'[e] = call[e]
        /\ call'[a].op \in {"idle", f}
        /\ f # "decision" => \A r \in returned' \ returned : r.op # "decision"
    BY <1>6 DEF AgentEffect, StepOf
  <2>2. /\ \A d \in {call'[a]} : CallMarks(d)'
        /\ \A r \in returned' \ returned : ResultMarks(r)'
    <3>1. CASE f # "decision"
      BY <2>1, <3>1 DEF CallMarks, Registering, ResultMarks, Proposed
    <3>2. CASE f = "decision"
      <4>1. PICK c, d : c = call[a] /\ d = call'[a]
        OBVIOUS
      <4>2. CallMarks(c)' /\ (c.op = "decision" /\ Preceded(c.id)' => Preceded(c.id))
        BY <1>3, <4>1
      <4>3. QED
        BY <1>6, <3>2, <4>1, <4>2, DecisionMarks
    <3>3. QED
      BY <3>1, <3>2
  <2>3. \A e \in Agents : \A d \in {call'[e]} : CallMarks(d)'
    BY <1>3, <2>1, <2>2
  <2>4. \A r \in returned' : ResultMarks(r)' /\ (Opened(r) => open'[Item] > 0)
    BY <1>4, <2>2, OpensNow
  <2>5. QED
    BY <2>3, <2>4 DEF Marks
<1>7. QED
  BY <1>5, <1>6, StepCases

\* A decision made after another opened its checkout returns a marker that names
\* the node and hangs on its thread, or something was terminated (decision.rs).
THEOREM CollisionsMarked == Spec => []CollisionsAreMarked
<1>1. Start => Fits /\ Marks
  <2>1. SUFFICES ASSUME Start
                 PROVE  Fits /\ Marks
    OBVIOUS
  <2>2. returned = {} /\ \A a \in Agents : call[a].op = "idle"
    BY <2>1 DEF Start, Init, Idle
  <2>3. QED
    BY <2>1, <2>2, FitsStarts DEF Marks, CallMarks, Registering
<1>2. Sound /\ (Fits /\ Marks) /\ [Next]_vars => (Fits /\ Marks)'
  BY FitsKept, MarksKept
<1>3. Sound /\ (Fits /\ Marks) => CollisionsAreMarked
  <2>1. SUFFICES ASSUME Sound, Fits, Marks,
                        NEW r \in returned, NEW s \in returned, NEW m, NEW t,
                        Opened(r), Proposed(s), r.result.until <= s.result.id,
                        m = s.result.marker, t = s.result.thread
                 PROVE  /\ m # 0
                        /\ \/ m \in gone["comms"]
                           \/ m \in In("comms") /\ nodes["comms"][m] = MarkerNode(Item)
                        /\ t # 0 => \/ "comms" \in shut \/ {m, t} \cap gone["comms"] # {}
                                    \/ m \in Reached("comms", t)
    BY DEF CollisionsAreMarked
  <2>2. m # 0 /\ IsMarker(m) /\ (t # 0 => Attached(m, t, "Thread"))
    BY <2>1 DEF Marks, ResultMarks, Preceded
  <2>3. m \in gone["comms"] \/ (m \in In("comms") /\ nodes["comms"][m] = MarkerNode(Item))
    BY <2>2 DEF IsMarker, Own, Held
  <2>4. ASSUME [from |-> m, to |-> t, kind |-> "Thread"] \in DOMAIN edges["comms"]
        PROVE  m \in Reached("comms", t)
    <3>1. PICK e \in DOMAIN edges["comms"] : e.from = m /\ e.to = t /\ e.kind = "Thread"
      BY <2>4
    <3>2. e.from # e.to /\ In("comms") # {} /\ t \in Ids
      BY <2>1, <3>1, NodeTyped DEF Sound, Grounded, Typed, GraphTyped, Bridges
    <3>3. \A g \in DOMAIN edges["comms"] : g.kind = "Thread" /\ t \in {g.from, g.to} =>
            {g.from, g.to} \ {t} \subseteq Reached("comms", t)
      BY <2>1, <3>2, ReachedNeighbors DEF Sound, Typed, Bridges
    <3>4. QED
      BY <3>1, <3>2, <3>3
  <2>5. QED
    BY <2>2, <2>3, <2>4 DEF Attached
<1>4. QED
  BY <1>1, <1>2, <1>3, SoundAlways, PTL DEF Spec, Next

-----------------------------------------------------------------------------
(***************************************************************************)
(* Hand-off checks.                                                        *)
(***************************************************************************)
IsOwn(i, k) ==
  /\ Own(i)
  /\ i \in In("comms") => nodes["comms"][i].kind = k /\ nodes["comms"][i].content = AnyContent

\* A check that lost nothing while it looked holds a companion and a message.
LookedUp(c) ==
  /\ c.op = "operator" =>
       IsOwn(c.id, "message") /\ (c.at = "tie" => IsOwn(c.companion, "companion"))
  /\ c.op = "check" /\ c.check = "EdgeExists" /\ triggers = 0 =>
       /\ c.at \in {"to", "answer"} => c.from \in OfKind("comms", "companion")
       /\ c.at = "answer" => c.to \in OfKind("comms", "message")

Many(k) == Cardinality(OfKind("comms", k)) > 1
Explained(r) ==
  {"check", "pass", "kept"} \subseteq DOMAIN r.result =>
    (r.result.check = "EdgeExists" /\ ~ r.result.pass /\ r.result.kept =>
       triggers > 0 \/ Many("companion") \/ Many("message"))

Companions == \A e \in DOMAIN edges["comms"] : e.kind = "DerivedFrom" =>
                IsOwn(e.from, "companion") /\ IsOwn(e.to, "message")

Looked ==
  /\ \A a \in Agents : \A c \in {call[a]} : LookedUp(c)
  /\ \A r \in returned :
       Explained(r) /\ ("check" \in DOMAIN r.result => {"pass", "kept"} \subseteq DOMAIN r.result)
  /\ Companions

LEMMA OfKindKept ==
  ASSUME Sound, Grows, Sound', triggers' = triggers, NEW k \in {"companion", "message"}
  PROVE  OfKind("comms", k) \subseteq OfKind("comms", k)'
<1>1. SUFFICES ASSUME NEW i \in In("comms"), nodes["comms"][i].kind = k
               PROVE  i \in In("comms")' /\ nodes'["comms"][i].kind = k
  BY DEF OfKind
<1>2. /\ i \in In("comms")' /\ (nodes'["comms"][i] = nodes["comms"][i] \/ i \in Held("ops"))
      /\ Held("ops") \subseteq Held("ops")'
  BY <1>1 DEF Grows, Bridges
<1>3. i \in Held("ops") => IsMessage(nodes["comms"][i]) /\ IsMessage(nodes'["comms"][i])
  BY <1>1, <1>2 DEF Sound, Grounded
<1>4. QED
  BY <1>1, <1>2, <1>3 DEF IsMessage

LEMMA OfKindFinite ==
  ASSUME Sound, NEW k
  PROVE  IsFiniteSet(OfKind("comms", k)) /\ Cardinality(OfKind("comms", k)) \in Nat
<1>1. In("comms") \subseteq Ids
  BY NodeTyped DEF Sound, Typed, Bridges
<1>2. OfKind("comms", k) \subseteq Ids
  BY <1>1 DEF OfKind
<1>3. QED
  BY <1>2, IdsAreNaturals, FS_Subset, FS_CardinalityType

LEMMA TwoAreMany ==
  ASSUME Sound, NEW k, NEW i \in OfKind("comms", k), NEW j \in OfKind("comms", k), i # j
  PROVE  Many(k)
<1>1. {i, j} \subseteq OfKind("comms", k) /\ IsFiniteSet(OfKind("comms", k))
      /\ Cardinality(OfKind("comms", k)) \in Nat
  BY OfKindFinite
<1>2. IsFiniteSet({i}) /\ Cardinality({i}) = 1 /\ {i, j} = {i} \cup {j}
  BY FS_Singleton
<1>3. Cardinality({i} \cup {j}) = Cardinality({i}) + 1
  BY <1>2, FS_AddElement
<1>4. Cardinality({i, j}) <= Cardinality(OfKind("comms", k))
  BY <1>1, FS_Subset
<1>5. QED
  BY <1>1, <1>2, <1>3, <1>4 DEF Many

LEMMA ManyKept ==
  ASSUME Sound, Grows, Sound', triggers' = triggers, NEW k \in {"companion", "message"}, Many(k)
  PROVE  Many(k)'
<1>1. OfKind("comms", k) \subseteq OfKind("comms", k)'
  BY OfKindKept
<1>2. /\ IsFiniteSet(OfKind("comms", k)) /\ Cardinality(OfKind("comms", k)) \in Nat
  BY OfKindFinite
<1>3. IsFiniteSet(OfKind("comms", k)') /\ Cardinality(OfKind("comms", k)') \in Nat
  <2>1. nodes'["comms"] \in MapsOf(Node)
    BY DEF Sound, Typed, GraphTyped, Bridges
  <2>2. DOMAIN nodes'["comms"] \subseteq Ids
    BY <2>1 DEF MapsOf
  <2>3. OfKind("comms", k)' \subseteq Ids
    BY <2>2 DEF OfKind, In
  <2>4. QED
    BY <2>3, IdsAreNaturals, FS_Subset, FS_CardinalityType
<1>4. Cardinality(OfKind("comms", k)) <= Cardinality(OfKind("comms", k)')
  BY <1>1, <1>2, <1>3, FS_Subset
<1>5. QED
  BY <1>2, <1>3, <1>4 DEF Many

LEMMA IsOwnKept ==
  ASSUME Sound, Grows
  PROVE  \A i, k : IsOwn(i, k) => IsOwn(i, k)'
<1>1. SUFFICES ASSUME NEW i, NEW k, IsOwn(i, k)
               PROVE  IsOwn(i, k)'
  OBVIOUS
<1>2. Own(i)' /\ Own(i)
  BY <1>1, OwnKept DEF IsOwn
<1>3. i \in Held("comms") /\ i # fresh /\ i \notin Held("ops")
  BY <1>2, AgentCallsAssumption DEF Own, Sound, Typed, GraphTyped, Grounded, Bridges
<1>4. i \in In("comms")' => i \in In("comms") /\ nodes'["comms"][i] = nodes["comms"][i]
  BY <1>3 DEF Grows, Bridges
<1>5. QED
  BY <1>1, <1>2, <1>4 DEF IsOwn

LEMMA LookedUpKept ==
  ASSUME Sound, Grows, Sound', NEW c, LookedUp(c)
  PROVE  LookedUp(c)'
<1>1. c.op = "operator" =>
        IsOwn(c.id, "message")' /\ (c.at = "tie" => IsOwn(c.companion, "companion")')
  BY IsOwnKept DEF LookedUp
<1>2. ASSUME c.op = "check", c.check = "EdgeExists", triggers' = 0
      PROVE  /\ c.at \in {"to", "answer"} => c.from \in OfKind("comms", "companion")'
             /\ c.at = "answer" => c.to \in OfKind("comms", "message")'
  <2>1. triggers = 0 /\ triggers' = triggers
    BY <1>2 DEF Grows, Sound, Typed, SidesTyped
  <2>2. QED
    BY <1>2, <2>1, OfKindKept DEF LookedUp
<1>3. QED
  BY <1>1, <1>2 DEF LookedUp

LEMMA ExplainedKept ==
  ASSUME Sound, Grows, Sound', NEW r, Explained(r)
  PROVE  Explained(r)'
<1>1. ASSUME triggers > 0 \/ Many("companion") \/ Many("message")
      PROVE  triggers' > 0 \/ Many("companion")' \/ Many("message")'
  <2>1. triggers \in Nat /\ triggers' \in Nat /\ triggers <= triggers'
    BY DEF Grows, Sound, Typed, SidesTyped
  <2>2. CASE triggers' = triggers
    BY <1>1, <2>2, ManyKept
  <2>3. CASE triggers' # triggers
    BY <2>1, <2>3
  <2>4. QED
    BY <2>2, <2>3
<1>2. QED
  BY <1>1 DEF Explained

LEMMA CheckLooks ==
  ASSUME Sound, Grows, Sound', Looked, NEW a \in Agents, AgentEffect(a, "check")
  PROVE  /\ \A d \in {call'[a]} : LookedUp(d)'
         /\ \A r \in returned' \ returned :
              Explained(r)' /\ ("check" \in DOMAIN r.result => {"pass", "kept"} \subseteq DOMAIN r.result)
<1>1. PICK c, d : c = call[a] /\ d = call'[a]
  OBVIOUS
<1>2. /\ CheckEffect(a) /\ {c.op, d.op} \subseteq {"idle", "check"} /\ triggers' = triggers
      /\ \A e \in DOMAIN edges["comms"] :
           /\ e = [from |-> e.from, to |-> e.to, kind |-> e.kind] /\ {e.from, e.to} \subseteq In("comms")
  <2>1. \A e \in DOMAIN edges["comms"] :
           /\ e = [from |-> e.from, to |-> e.to, kind |-> e.kind] /\ {e.from, e.to} \subseteq In("comms")
    BY NodeTyped DEF Sound, Typed, Grounded, Bridges, Edge
  <2>2. QED
    BY <1>1, <2>1 DEF AgentEffect, StepOf
<1>3. LookedUp(c) /\ LookedUp(c)'
  BY <1>1, LookedUpKept DEF Looked
<1>4. \A k \in {"companion", "message"} : Matches("comms", k, AnyContent) \subseteq OfKind("comms", k)
  BY DEF Matches
<1>5. ASSUME returned' = returned, triggers = 0 => LookedUp(d)
      PROVE  /\ LookedUp(d)'
             /\ \A r \in returned' \ returned :
                  Explained(r)' /\ ("check" \in DOMAIN r.result => {"pass", "kept"} \subseteq DOMAIN r.result)
  <2>1. CASE triggers = 0
    BY <1>5, <2>1, LookedUpKept
  <2>2. CASE triggers # 0
    BY <1>2, <1>5, <2>2 DEF LookedUp
  <2>3. QED
    BY <2>1, <2>2
<1>6. ASSUME c.op = "check", NEW pass, Returns(a, Verdict(a, pass)),
             \A e \in c.there \cap CompanionEdges :
               c.check = "EdgeExists" /\ ~ pass => triggers > 0 \/ Many("companion") \/ Many("message")
      PROVE  /\ LookedUp(d)'
             /\ \A r \in returned' \ returned :
                  Explained(r)' /\ ("check" \in DOMAIN r.result => {"pass", "kept"} \subseteq DOMAIN r.result)
  <2>1. LookedUp(d)'
    BY <1>1, <1>6 DEF Returns, LookedUp
  <2>2. ASSUME NEW r \in returned' \ returned
        PROVE  Explained(r)' /\ {"pass", "kept"} \subseteq DOMAIN r.result
    <3>1. r.result = [check |-> c.check, pass |-> pass, kept |-> c.there \cap CompanionEdges # {}]
      BY <1>1, <1>6, <2>2 DEF Returns, Verdict
    <3>2. r.result.check = c.check /\ r.result.pass = pass
          /\ r.result.kept = (c.there \cap CompanionEdges # {})
      BY <3>1
    <3>3. r.result.kept => c.there \cap CompanionEdges # {}
      BY <3>2, Zenon
    <3>4. Explained(r)
      BY <1>6, <3>2, <3>3 DEF Explained
    <3>5. QED
      BY <3>1, <3>4, ExplainedKept
  <2>3. QED
    BY <2>1, <2>2
<1>7. ASSUME NEW e \in CompanionEdges
      PROVE  /\ e.from \in Matches("comms", "companion", AnyContent)
             /\ e.to \in Matches("comms", "message", AnyContent)
             /\ e = [from |-> e.from, to |-> e.to, kind |-> "DerivedFrom"] /\ e \in DOMAIN edges["comms"]
  <2>1. e \in DOMAIN edges["comms"] /\ e.kind = "DerivedFrom"
    BY <1>7 DEF CompanionEdges, BagToSet
  <2>2. {e.from, e.to} \subseteq In("comms") /\ IsOwn(e.from, "companion") /\ IsOwn(e.to, "message")
    BY <1>2, <2>1 DEF Looked, Companions
  <2>3. QED
    BY <1>2, <2>1, <2>2 DEF IsOwn, Matches, OfKind
<1>8. CASE /\ returned' = returned /\ d.at \in {"find", "answer"}
           /\ d.at = "answer" => d.check # "EdgeExists"
  <2>1. LookedUp(d)
    BY <1>2, <1>8 DEF LookedUp
  <2>2. QED
    BY <1>1, <1>5, <1>8, <2>1
<1>9. CASE /\ c.op = "check" /\ c.at = "find" /\ returned' = returned /\ d.check = c.check
           /\ d.from \in Matches("comms", "companion", AnyContent)
           /\ d.at = IF c.check = "EdgeExists" THEN "to" ELSE "answer"
  <2>1. LookedUp(d)
    BY <1>2, <1>4, <1>9 DEF LookedUp
  <2>2. QED
    BY <1>1, <1>5, <1>9, <2>1
<1>10. CASE /\ c.op = "check" /\ c.at = "to" /\ returned' = returned /\ d.check = c.check
            /\ d.from = c.from /\ d.at = "answer" /\ d.to \in Matches("comms", "message", AnyContent)
  <2>1. LookedUp(d)
    BY <1>2, <1>3, <1>4, <1>10 DEF LookedUp
  <2>2. QED
    BY <1>1, <1>5, <1>10, <2>1
<1>11. CASE /\ c.op = "check" /\ Returns(a, Verdict(a, FALSE))
            /\ \/ Matches("comms", "companion", AnyContent) = {}
               \/ Matches("comms", "message", AnyContent) = {}
  <2>1. CompanionEdges = {}
    BY <1>7, <1>11
  <2>2. QED
    BY <1>1, <1>6, <1>11, <2>1
<1>12. ASSUME c.op = "check", c.at = "answer", NEW pass, Returns(a, Verdict(a, pass)),
              c.check = "EdgeExists" => pass = Linked("comms", c.from, c.to, "DerivedFrom")
       PROVE  /\ LookedUp(d)'
              /\ \A r \in returned' \ returned :
                   Explained(r)' /\ ("check" \in DOMAIN r.result => {"pass", "kept"} \subseteq DOMAIN r.result)
  <2>1. ASSUME NEW e \in CompanionEdges, c.check = "EdgeExists", ~ pass, triggers = 0
        PROVE  Many("companion") \/ Many("message")
    <3>1. /\ e.from \in OfKind("comms", "companion") /\ e.to \in OfKind("comms", "message")
          /\ c.from \in OfKind("comms", "companion") /\ c.to \in OfKind("comms", "message")
      BY <1>3, <1>4, <1>7, <1>12, <2>1 DEF LookedUp
    <3>2. ~ Linked("comms", c.from, c.to, "DerivedFrom")
      BY <1>12, <2>1, Zenon
    <3>3. e.from # c.from \/ e.to # c.to
      BY <1>7, <3>2 DEF Linked, BagIn, BagToSet
    <3>4. QED
      BY <3>1, <3>3, TwoAreMany
  <2>2. triggers \in Nat
    BY DEF Sound, Typed, SidesTyped
  <2>3. triggers > 0 \/ triggers = 0
    BY <2>2
  <2>4. QED
    BY <1>6, <1>12, <2>1, <2>3
<1>13. \/ /\ returned' = returned /\ d.at \in {"find", "answer"}
          /\ d.at = "answer" => d.check # "EdgeExists"
       \/ /\ c.op = "check" /\ c.at = "find" /\ returned' = returned /\ d.check = c.check
          /\ d.from \in Matches("comms", "companion", AnyContent)
          /\ d.at = IF c.check = "EdgeExists" THEN "to" ELSE "answer"
       \/ /\ c.op = "check" /\ c.at = "to" /\ returned' = returned /\ d.check = c.check
          /\ d.from = c.from /\ d.at = "answer" /\ d.to \in Matches("comms", "message", AnyContent)
       \/ /\ c.op = "check" /\ Returns(a, Verdict(a, FALSE))
          /\ \/ Matches("comms", "companion", AnyContent) = {}
             \/ Matches("comms", "message", AnyContent) = {}
       \/ /\ c.op = "check" /\ c.at = "answer"
          /\ \E pass : /\ Returns(a, Verdict(a, pass))
                       /\ c.check = "EdgeExists" =>
                            pass = Linked("comms", c.from, c.to, "DerivedFrom")
  BY <1>1, <1>2 DEF CheckEffect
<1>14. CASE /\ c.op = "check" /\ c.at = "answer"
            /\ \E pass : /\ Returns(a, Verdict(a, pass))
                         /\ c.check = "EdgeExists" =>
                              pass = Linked("comms", c.from, c.to, "DerivedFrom")
  BY <1>1, <1>12, <1>14
<1>15. QED
  BY <1>8, <1>9, <1>10, <1>11, <1>13, <1>14

LEMMA OperatorLooks ==
  ASSUME Sound, Grows, Sound', Looked, NEW a \in Agents, AgentEffect(a, "operator")
  PROVE  /\ \A d \in {call'[a]} : LookedUp(d)'
         /\ \A r \in returned' \ returned : "check" \notin DOMAIN r.result
         /\ Companions'
<1>1. PICK c, d, i : c = call[a] /\ d = call'[a] /\ i = fresh
  OBVIOUS
<1>2. /\ OperatorEffect(a) /\ {c.op, d.op} \subseteq {"idle", "operator"} /\ gone' = gone
      /\ AnyContent \in Contents /\ {"message", "companion"} \subseteq NodeKinds
      /\ c \in Calls
  BY <1>1 DEF AgentEffect, StepOf, Sound, Typed, SidesTyped, NodeKinds
<1>3. LookedUp(c) /\ LookedUp(c)'
  BY <1>1, LookedUpKept DEF Looked
<1>4. ASSUME NEW n, Made("comms", n), n.content = AnyContent
      PROVE  IsOwn(i, n.kind)'
  <2>1. Own(i)' /\ nodes'["comms"][i] = n
    BY <1>1, <1>2, <1>4, MadeOwn
  <2>2. QED
    BY <1>4, <2>1 DEF IsOwn
<1>5. LookedUp(d)'
  <2>1. CASE d.op = "idle"
    BY <2>1 DEF LookedUp
  <2>2. CASE Made("comms", MessageNode(AnyContent)) /\ d.at = "identify" /\ d.id = i
    <3>1. MessageNode(AnyContent).kind = "message" /\ MessageNode(AnyContent).content = AnyContent
      BY <1>2, KindsAreNodes DEF MessageNode
    <3>2. IsOwn(i, "message")'
      BY <1>4, <2>2, <3>1
    <3>3. QED
      BY <1>2, <2>2, <3>2 DEF LookedUp
  <2>3. CASE c.op = "operator" /\ d.id = c.id /\ d.at = "companion"
    BY <1>2, <1>3, <2>3 DEF LookedUp
  <2>4. CASE Made("comms", CompanionNode(c.id)) /\ c.op = "operator" /\ d.id = c.id /\ d.companion = i
    <3>1. c.id \in 0..MaxIds
      BY <1>2, <2>4, OpCalls, AgentCallsAssumption DEF OperatorCalls, Ids
    <3>2. /\ CompanionNode(c.id).kind = "companion" /\ CompanionNode(c.id).content = AnyContent
      BY <1>2, <3>1, AboutsAreNodes DEF CompanionNode
    <3>3. IsOwn(i, "companion")'
      BY <1>4, <2>4, <3>2
    <3>4. QED
      BY <1>2, <1>3, <2>4, <3>3 DEF LookedUp
  <2>5. QED
    BY <1>1, <1>2, <2>1, <2>2, <2>3, <2>4 DEF OperatorEffect, Returns
<1>6. ASSUME NEW r \in returned' \ returned
      PROVE  "check" \notin DOMAIN r.result
  BY <1>1, <1>2, <1>6 DEF OperatorEffect, Returns, Accompanied
<1>7. Companions'
  <2>1. \A e \in DOMAIN edges["comms"] : e.kind = "DerivedFrom" =>
          IsOwn(e.from, "companion")' /\ IsOwn(e.to, "message")'
    BY IsOwnKept DEF Looked, Companions
  <2>2. \A e \in DOMAIN edges'["comms"] \ DOMAIN edges["comms"] :
          /\ c.op = "operator" /\ c.at = "tie"
          /\ e = [from |-> c.companion, to |-> c.id, kind |-> "DerivedFrom"]
    BY <1>1, <1>2 DEF OperatorEffect, Still, Made, Tied, EdgeAdded
  <2>3. \A e \in DOMAIN edges'["comms"] \ DOMAIN edges["comms"] :
          IsOwn(e.from, "companion")' /\ IsOwn(e.to, "message")'
    <3>1. c.op = "operator" /\ c.at = "tie" => IsOwn(c.companion, "companion")' /\ IsOwn(c.id, "message")'
      BY <1>3 DEF LookedUp
    <3>2. QED
      BY <2>2, <3>1
  <2>4. QED
    BY <2>1, <2>3 DEF Companions
<1>8. QED
  BY <1>1, <1>5, <1>6, <1>7

LEMMA OtherLooks ==
  ASSUME NEW a \in Agents, NEW f, AgentEffect(a, f), f \notin {"check", "operator"}
  PROVE  /\ \A d \in {call'[a]} : LookedUp(d)'
         /\ \A r \in returned' \ returned : "check" \notin DOMAIN r.result
<1>1. call'[a].op \in {"idle", f}
  BY DEF AgentEffect, StepOf
<1>2. \A d \in {call'[a]} : LookedUp(d)'
  BY <1>1 DEF LookedUp
<1>3. ASSUME NEW r \in returned' \ returned
      PROVE  "check" \notin DOMAIN r.result
  <2>1. r.op \in {"idle", f} /\ ((r.op = "idle" \/ f \notin Verbose) => Plain(r))
    BY <1>3 DEF AgentEffect, StepOf
  <2>2. CASE f = "decision"
    <3>1. DecisionEffect(a)
      BY <2>2 DEF AgentEffect
    <3>2. \E x \in {[ok |-> FALSE], [panicked |-> call[a].id], Submission(a, TRUE),
                   Submission(a, FALSE)} : r.result = x
      BY <1>3, <3>1 DEF DecisionEffect, Returns, Moves
    <3>3. QED
      BY <3>2 DEF Submission
  <2>3. CASE f = "audit"
    <3>1. AuditEffect(a)
      BY <2>3 DEF AgentEffect
    <3>2. r.result = [anomaly |-> call[a].found > 0, standing |-> call[a].standing]
      BY <1>3, <3>1 DEF AuditEffect, Returns
    <3>3. QED
      BY <3>2
  <2>4. CASE Plain(r)
    BY <2>4 DEF Plain
  <2>5. QED
    BY <2>1, <2>2, <2>3, <2>4 DEF Verbose
<1>4. QED
  BY <1>2, <1>3

LEMMA LookedStarts ==
  ASSUME Start
  PROVE  Looked
<1>1. \A a \in Agents : call[a].op = "idle"
  BY DEF Start, Init, Idle
<1>2. DOMAIN edges["comms"] = {} /\ returned = {}
  BY EmptyBagOf DEF Start, Init, Bridges
<1>3. QED
  BY <1>1, <1>2 DEF Looked, LookedUp, Companions

LEMMA LookedKept ==
  ASSUME Sound, Looked, [Next]_vars
  PROVE  Looked'
<1>1. Grows /\ Sound'
  BY StepCases
<1>2. \A r \in returned : Explained(r)'
  BY <1>1, ExplainedKept DEF Looked
<1>3. \A a \in Agents : \A c \in {call[a]} : LookedUp(c)'
  BY <1>1, LookedUpKept DEF Looked
<1>4. \A e \in DOMAIN edges["comms"] : e.kind = "DerivedFrom" =>
        IsOwn(e.from, "companion")' /\ IsOwn(e.to, "message")'
  BY <1>1, IsOwnKept DEF Looked, Companions
<1>5. CASE Outside
  <2>1. UNCHANGED <<call, returned>> /\ DOMAIN edges'["comms"] \subseteq DOMAIN edges["comms"]
    BY <1>5 DEF Outside, Bridges
  <2>2. QED
    BY <1>2, <1>3, <1>4, <2>1 DEF Looked, Companions
<1>6. ASSUME NEW a \in Agents, NEW f, AgentEffect(a, f), AgentGraph(f)
      PROVE  Looked'
  <2>1. \A d \in Agents \ {a} : call'[d] = call[d]
    BY <1>6 DEF AgentEffect, StepOf
  <2>2. Companions'
    <3>1. CASE f = "operator"
      BY <1>1, <1>6, <3>1, OperatorLooks
    <3>2. CASE f # "operator"
      BY <1>4, <1>6, <3>2 DEF Companions, AgentGraph, MayTie, Bridges
    <3>3. QED
      BY <3>1, <3>2
  <2>3. /\ \A d \in {call'[a]} : LookedUp(d)'
        /\ \A r \in returned' \ returned :
             Explained(r)' /\ ("check" \in DOMAIN r.result => {"pass", "kept"} \subseteq DOMAIN r.result)
    <3>1. CASE f = "check"
      BY <1>1, <1>6, <3>1, CheckLooks
    <3>2. CASE f # "check"
      <4>1. /\ \A d \in {call'[a]} : LookedUp(d)'
            /\ \A r \in returned' \ returned : "check" \notin DOMAIN r.result
        BY <1>1, <1>6, <3>2, OperatorLooks, OtherLooks
      <4>2. QED
        BY <4>1 DEF Explained
    <3>3. QED
      BY <3>1, <3>2
  <2>4. QED
    BY <1>2, <1>3, <2>1, <2>2, <2>3 DEF Looked
<1>7. QED
  BY <1>5, <1>6, StepCases

\* A hand-off check over an edge that stood all along fails only by another
\* node with the same fingerprint (success.rs), or by a termination.
THEOREM ChecksFailByTwin == Spec => []CheckFailsByTwin
<1>1. Start => Looked
  BY LookedStarts
<1>2. Sound /\ Looked /\ [Next]_vars => Looked'
  BY LookedKept
<1>3. Looked => CheckFailsByTwin
  BY DEF Looked, Explained, CheckFailsByTwin, Many
<1>4. QED
  BY <1>1, <1>2, <1>3, SoundAlways, PTL DEF Spec, Next

-----------------------------------------------------------------------------
(***************************************************************************)
(* Queries.                                                                *)
(***************************************************************************)
OldClaims(d, s) == {i \in ClaimsOn(d) : i < s}

\* What was claimed before the query is filed under its content until a row of
\* that content takes it; a row is of an intent that was scanned and is done.
QueryFits(c) ==
  c.op = "query" =>
    /\ c.since <= fresh
    /\ c.at = "edges" => c.rows = {}
    /\ c.at = "rows" => c.todo \subseteq DOMAIN c.intents
    /\ \A r \in c.rows : r.id \in DOMAIN c.intents \ c.todo
    /\ \A d \in Contents : OldClaims(d, c.since) # {} =>
         c.claims[d] > 0 \/ \E r \in c.rows : c.intents[r.id] = d
    /\ \A r \in c.rows : r.status \in Unclaimed /\ OldClaims(c.intents[r.id], c.since) # {} =>
         \E j \in DOMAIN c.intents \ {r.id} : c.intents[j] = c.intents[r.id]

Queried == \A a \in Agents : \A c \in {call[a]} : QueryFits(c)

\* Claims that were there before are at most taken away.
LEMMA OldClaimsShrink ==
  ASSUME Sound, Grows, NEW s \in Nat, s <= fresh, NEW d
  PROVE  OldClaims(d, s)' \subseteq OldClaims(d, s)
<1>1. SUFFICES ASSUME NEW i \in In("ops")', i < s,
                      nodes'["ops"][i].kind = "claim", nodes'["ops"][i].content = d
               PROVE  i \in In("ops") /\ nodes["ops"][i] = nodes'["ops"][i]
  BY DEF OldClaims, ClaimsOn, OfKind
<1>2. fresh \in Nat /\ (i \in In("ops") \/ i = fresh)
  BY <1>1, AgentCallsAssumption DEF Grows, Bridges, Sound, Typed, GraphTyped
<1>3. i # fresh
  BY <1>1, <1>2
<1>4. i \in In("ops")
  BY <1>2, <1>3
<1>5. QED
  BY <1>1, <1>4 DEF Grows, Bridges

LEMMA QueryFitsKept ==
  ASSUME Sound, Grows, Sound', NEW c \in Calls, QueryFits(c)
  PROVE  QueryFits(c)'
<1>1. SUFFICES ASSUME c.op = "query"
               PROVE  QueryFits(c)'
  BY DEF QueryFits
<1>2. c.since \in Nat /\ c.since <= fresh /\ c.since <= fresh'
  <2>1. c.since \in Nat /\ c.since <= fresh
    BY <1>1, OpCalls DEF QueryFits, QueryCalls
  <2>2. fresh \in Nat /\ fresh' \in Nat /\ fresh <= fresh'
    BY AgentCallsAssumption DEF Grows, Sound, Typed, GraphTyped
  <2>3. QED
    BY <2>1, <2>2
<1>3. \A d : OldClaims(d, c.since)' \subseteq OldClaims(d, c.since)
  BY <1>2, OldClaimsShrink
<1>4. QED
  BY <1>1, <1>2, <1>3 DEF QueryFits

LEMMA QueryStepFits ==
  ASSUME Sound, Grows, Sound', NEW a \in Agents, QueryFits(call[a]), QueryEffect(a)
  PROVE  \A d \in {call'[a]} : QueryFits(d)'
<1>1. PICK c, d : c = call[a] /\ d = call'[a]
  OBVIOUS
<1>2. /\ c \in Calls /\ d \in Calls /\ GraphTyped /\ QueryFits(c)
      /\ nodes' = nodes /\ fresh' = fresh /\ fresh \in Nat
  BY <1>1, AgentCallsAssumption DEF Sound, Typed, GraphTyped, QueryEffect, Still
<1>3. /\ c.op = "query" => c \in QueryCalls
      /\ d.op = "query" => d \in QueryCalls
  BY <1>2, OpCalls
<1>4. \A x, s : OldClaims(x, s)' = OldClaims(x, s)
  BY <1>2 DEF OldClaims, ClaimsOn, OfKind, In
<1>5. ASSUME QueryFits(d)
      PROVE  QueryFits(d)'
  BY <1>2, <1>4, <1>5 DEF QueryFits
<1>6. CASE /\ d.op = "query" /\ d.at = "edges" /\ d.rows = {}
           /\ d.claims = [x \in Contents |-> Cardinality(ClaimsOn(x))] /\ d.since = fresh
  <2>1. \A x \in Contents : OldClaims(x, d.since) # {} => d.claims[x] > 0
    <3>1. SUFFICES ASSUME NEW x \in Contents, OldClaims(x, d.since) # {}
                   PROVE  d.claims[x] > 0
      OBVIOUS
    <3>2. ClaimsOn(x) # {} /\ d.claims[x] = Cardinality(ClaimsOn(x))
      BY <1>6, <3>1 DEF OldClaims
    <3>3. Cardinality(ClaimsOn(x)) \in Nat /\ Cardinality(ClaimsOn(x)) # 0
      BY <1>2, <3>2, ClaimsCounted
    <3>4. QED
      BY <3>2, <3>3
  <2>2. QueryFits(d)
    BY <1>2, <1>6, <2>1 DEF QueryFits
  <2>3. QED
    BY <1>1, <1>5, <2>2
<1>7. CASE /\ c.op = "query" /\ c.at = "edges" /\ d.op = "query"
           /\ d.intents = c.intents /\ d.since = c.since
           /\ d.at = "rows" /\ d.todo = DOMAIN c.intents
           /\ d.claims = c.claims /\ d.rows = c.rows
  <2>1. QueryFits(d)
    BY <1>2, <1>7 DEF QueryFits
  <2>2. QED
    BY <1>1, <1>5, <2>1
<1>8. ASSUME c.op = "query", c.at = "rows", d.op = "query", d.intents = c.intents,
             d.since = c.since, d.at = "rows", NEW i \in c.todo, NEW s \in Statuses,
             s \in Unclaimed => c.claims[c.intents[i]] = 0,
             d.todo = c.todo \ {i}, d.claims = [c.claims EXCEPT ![c.intents[i]] = 0],
             d.rows = c.rows \cup {[id |-> i, status |-> s]}
      PROVE  QueryFits(d)
  <2> DEFINE x == c.intents[i]
             row == [id |-> i, status |-> s]
  <2>1. /\ i \in DOMAIN c.intents /\ c.claims \in [Contents -> Nat] /\ c.since <= fresh
        /\ c.todo \subseteq DOMAIN c.intents
        /\ \A r \in c.rows : r.id \in DOMAIN c.intents \ c.todo
    BY <1>2, <1>3, <1>8 DEF QueryFits, QueryCalls
  <2>2. row \in d.rows /\ row.id = i /\ row.status = s /\ \A r \in d.rows : r \in c.rows \/ r = row
    BY <1>8
  <2>3. \A y \in Contents : OldClaims(y, c.since) # {} =>
          c.claims[y] > 0 \/ \E r \in c.rows : c.intents[r.id] = y
    BY <1>2, <1>8 DEF QueryFits
  <2>4. \A r \in d.rows : r.id \in DOMAIN d.intents \ d.todo
    BY <1>8, <2>1, <2>2
  <2>5. \A y \in Contents : OldClaims(y, d.since) # {} =>
          d.claims[y] > 0 \/ \E r \in d.rows : d.intents[r.id] = y
    <3>1. SUFFICES ASSUME NEW y \in Contents, OldClaims(y, d.since) # {}
                   PROVE  d.claims[y] > 0 \/ \E r \in d.rows : d.intents[r.id] = y
      OBVIOUS
    <3>2. CASE y = x
      BY <1>8, <2>2, <3>2
    <3>3. CASE y # x
      BY <1>8, <2>1, <2>3, <3>1, <3>3
    <3>4. QED
      BY <3>2, <3>3
  <2>6. ASSUME s \in Unclaimed, OldClaims(x, c.since) # {}
        PROVE  \E j \in DOMAIN c.intents \ {i} : c.intents[j] = x
    <3>1. x \in Contents
      BY <1>3, <1>8, <2>1 DEF QueryCalls, ContentsOf
    <3>2. PICK r \in c.rows : c.intents[r.id] = x
      BY <1>8, <2>3, <2>6, <3>1
    <3>3. QED
      BY <2>1, <3>2
  <2>7. \A r \in d.rows : r.status \in Unclaimed /\ OldClaims(d.intents[r.id], d.since) # {} =>
          \E j \in DOMAIN d.intents \ {r.id} : d.intents[j] = d.intents[r.id]
    <3>1. \A r \in c.rows : r.status \in Unclaimed /\ OldClaims(c.intents[r.id], c.since) # {} =>
            \E j \in DOMAIN c.intents \ {r.id} : c.intents[j] = c.intents[r.id]
      BY <1>2, <1>8 DEF QueryFits
    <3> HIDE DEF row
    <3>2. QED
      BY <1>8, <2>2, <2>6, <3>1
  <2>8. QED
    BY <1>8, <2>1, <2>4, <2>5, <2>7 DEF QueryFits
<1>9. CASE d.op = "idle"
  BY <1>1, <1>9 DEF QueryFits
<1>10. QED
  BY <1>1, <1>5, <1>6, <1>7, <1>8, <1>9 DEF QueryEffect, SameQuery

\* An intent that had a claim is reported as unclaimed only if another intent of
\* the same content was scanned with it, whatever is posted, claimed and
\* terminated while the query goes from section to section.
THEOREM UnclaimedByTwin == Spec => []UnclaimedHasTwin
<1>1. Start => Queried
  BY DEF Start, Init, Idle, Queried, QueryFits
<1>2. Sound /\ Queried /\ [Next]_vars => Queried'
  <2>1. SUFFICES ASSUME Sound, Queried, [Next]_vars
                 PROVE  Queried'
    OBVIOUS
  <2>2. Grows /\ Sound' /\ call \in [Agents -> Calls]
    BY <2>1, StepCases DEF Sound, Typed
  <2>3. \A a \in Agents : \A c \in {call[a]} : QueryFits(c)'
    BY <2>1, <2>2, QueryFitsKept DEF Queried
  <2>4. CASE Outside
    BY <2>3, <2>4 DEF Outside, Queried
  <2>5. ASSUME NEW a \in Agents, NEW f, AgentEffect(a, f)
        PROVE  Queried'
    <3>1. \A d \in Agents \ {a} : call'[d] = call[d]
      BY <2>5 DEF AgentEffect, StepOf
    <3>2. \A d \in {call'[a]} : QueryFits(d)'
      <4>1. CASE f = "query"
        BY <2>1, <2>2, <2>5, <4>1, QueryStepFits DEF Queried, AgentEffect
      <4>2. CASE f # "query"
        BY <2>5, <4>2 DEF AgentEffect, StepOf, QueryFits
      <4>3. QED
        BY <4>1, <4>2
    <3>3. QED
      BY <2>3, <3>1, <3>2 DEF Queried
  <2>6. QED
    BY <2>1, <2>4, <2>5, StepCases
<1>3. Queried => UnclaimedHasTwin
  <2>1. SUFFICES ASSUME Queried, NEW a \in InFlight("query"), NEW row \in call[a].rows,
                        row.status \in {"Orphaned", "Unstarted"},
                        \E i \in ClaimsOn(call[a].intents[row.id]) : i < call[a].since
                 PROVE  \E j \in DOMAIN call[a].intents \ {row.id} :
                          call[a].intents[j] = call[a].intents[row.id]
    BY DEF UnclaimedHasTwin
  <2>2. QueryFits(call[a]) /\ call[a].op = "query"
    BY <2>1 DEF Queried, InFlight
  <2>3. OldClaims(call[a].intents[row.id], call[a].since) # {}
    BY <2>1 DEF OldClaims
  <2>4. QED
    BY <2>1, <2>2, <2>3 DEF QueryFits, Unclaimed
<1>4. QED
  BY <1>1, <1>2, <1>3, SoundAlways, PTL DEF Spec, Next

-----------------------------------------------------------------------------
(***************************************************************************)
(* The copies of some elements of a bag, laid out to be counted.           *)
(***************************************************************************)
Pile(B, S) == UNION {{x} \X (1..B[x]) : x \in S}

LEMMA InPile ==
  ASSUME NEW B, NEW S \in SUBSET DOMAIN B, NEW y
  PROVE  y \in Pile(B, S) <=> \E x \in S : \E n \in 1..Copies(x, B) : y = <<x, n>>
<1>1. \A x \in S : Copies(x, B) = B[x]
  BY DEF Copies, BagIn, BagToSet
<1>2. y \in Pile(B, S) <=> \E x \in S : y \in {x} \X (1..B[x])
  BY DEF Pile
<1>3. ASSUME NEW x
      PROVE  y \in {x} \X (1..B[x]) <=> \E n \in 1..B[x] : y = <<x, n>>
  OBVIOUS
<1>4. QED
  BY <1>1, <1>2, <1>3

LEMMA PileShrinks ==
  ASSUME NEW T, NEW B \in BagsOf(T), NEW C \in BagsOf(T),
         NEW S \in SUBSET DOMAIN B, NEW R \in SUBSET DOMAIN C, R \subseteq S,
         \A x \in R : Copies(x, C) <= Copies(x, B)
  PROVE  Pile(C, R) \subseteq Pile(B, S)
<1>1. SUFFICES ASSUME NEW y \in Pile(C, R)
               PROVE  y \in Pile(B, S)
  OBVIOUS
<1>2. PICK x \in R : \E n \in 1..Copies(x, C) : y = <<x, n>>
  BY <1>1, InPile
<1>3. PICK n \in 1..Copies(x, C) : y = <<x, n>>
  BY <1>2
<1>4. Copies(x, C) \in Nat /\ Copies(x, B) \in Nat /\ Copies(x, C) <= Copies(x, B)
  BY <1>2, BagValue
<1>5. n \in 1..Copies(x, B) /\ x \in S
  BY <1>2, <1>3, <1>4
<1>6. QED
  BY <1>3, <1>5, InPile

LEMMA PileAdds ==
  ASSUME NEW T, NEW B \in BagsOf(T), NEW C \in BagsOf(T), NEW z,
         NEW S \in SUBSET DOMAIN B, NEW R \in SUBSET DOMAIN C, R = S \cup {z},
         z \in DOMAIN B => z \in S,
         \A x : Copies(x, C) = Copies(x, B) + IF x = z THEN 1 ELSE 0
  PROVE  /\ Pile(C, R) = Pile(B, S) \cup {<<z, Copies(z, C)>>}
         /\ <<z, Copies(z, C)>> \notin Pile(B, S)
<1>1. /\ \A x : Copies(x, B) \in Nat /\ Copies(x, C) \in Nat
      /\ Copies(z, C) = Copies(z, B) + 1
      /\ z \notin S => Copies(z, B) = 0
  BY BagValue
<1>2. \A x : x # z => Copies(x, C) = Copies(x, B)
  BY <1>1
<1>3. \A n : n \in 1..Copies(z, C) <=> n \in 1..Copies(z, B) \/ n = Copies(z, C)
  BY <1>1
<1>4. <<z, Copies(z, C)>> \notin Pile(B, S)
  <2>1. ~ Copies(z, C) \in 1..Copies(z, B)
    BY <1>1
  <2>2. QED
    BY <2>1, InPile
<1>5. ASSUME NEW y
      PROVE  y \in Pile(C, R) <=> y \in Pile(B, S) \/ y = <<z, Copies(z, C)>>
  <2>1. y \in Pile(C, R) <=> \E x \in R : \E n \in 1..Copies(x, C) : y = <<x, n>>
    BY InPile
  <2>2. y \in Pile(B, S) <=> \E x \in S : \E n \in 1..Copies(x, B) : y = <<x, n>>
    BY InPile
  <2>3. ASSUME y \in Pile(C, R)
        PROVE  y \in Pile(B, S) \/ y = <<z, Copies(z, C)>>
    <3>1. PICK x \in R : \E n \in 1..Copies(x, C) : y = <<x, n>>
      BY <2>1, <2>3
    <3>2. PICK n \in 1..Copies(x, C) : y = <<x, n>>
      BY <3>1
    <3>3. CASE x # z
      BY <1>2, <2>2, <3>1, <3>2, <3>3
    <3>4. CASE x = z /\ x \in S
      BY <1>3, <2>2, <3>2, <3>4
    <3>5. CASE x = z /\ x \notin S
      <4>1. n = Copies(z, C)
        BY <1>1, <3>2, <3>5
      <4>2. QED
        BY <3>2, <3>5, <4>1
    <3>6. QED
      BY <3>3, <3>4, <3>5
  <2>4. ASSUME y \in Pile(B, S)
        PROVE  y \in Pile(C, R)
    <3>1. PICK x \in S : \E n \in 1..Copies(x, B) : y = <<x, n>>
      BY <2>2, <2>4
    <3>2. PICK n \in 1..Copies(x, B) : y = <<x, n>>
      BY <3>1
    <3>3. n \in 1..Copies(x, C) /\ x \in R
      BY <1>2, <1>3, <3>1, <3>2
    <3>4. QED
      BY <2>1, <3>2, <3>3
  <2>5. ASSUME y = <<z, Copies(z, C)>>
        PROVE  y \in Pile(C, R)
    <3>1. z \in R /\ Copies(z, C) \in 1..Copies(z, C)
      BY <1>1
    <3>2. QED
      BY <2>1, <2>5, <3>1
  <2>6. QED
    BY <2>3, <2>4, <2>5
<1>6. QED
  BY <1>4, <1>5

-----------------------------------------------------------------------------
(***************************************************************************)
(* Evidence.                                                               *)
(***************************************************************************)
Fulfilling(B, e) == {x \in DOMAIN B : x.from = e /\ x.kind = "Fulfills"}

LEMMA FulfillsPile ==
  ASSUME NEW e
  PROVE  /\ FulfillsOf(e) = Pile(edges["ops"], Fulfilling(edges["ops"], e))
         /\ FulfillsOf(e)' = Pile(edges'["ops"], Fulfilling(edges'["ops"], e))
BY DEF FulfillsOf, Pile, Fulfilling

LEMMA OpsEdges ==
  ASSUME Sound
  PROVE  /\ edges["ops"] \in BagsOf(Edge) /\ DOMAIN edges["ops"] \subseteq Edge
         /\ \A e : Fulfilling(edges["ops"], e) \in SUBSET DOMAIN edges["ops"]
<1>1. edges["ops"] \in BagsOf(Edge)
  BY DEF Sound, Typed, GraphTyped, Bridges
<1>2. QED
  BY <1>1, BagValue DEF Fulfilling

\* A step that makes no edge of evidence adds no copy of one.
LEMMA FulfillsKept ==
  ASSUME Sound, Sound', Outside \/ \E f : AgentGraph(f) /\ f \notin {"evidence", "relink"}
  PROVE  \A e : FulfillsOf(e)' \subseteq FulfillsOf(e)
<1>1. SUFFICES ASSUME NEW e
               PROVE  FulfillsOf(e)' \subseteq FulfillsOf(e)
  OBVIOUS
<1> DEFINE B == edges["ops"]
           C == edges'["ops"]
<1>2. /\ B \in BagsOf(Edge) /\ C \in BagsOf(Edge)
      /\ DOMAIN C \subseteq Edge
      /\ Fulfilling(B, e) \in SUBSET DOMAIN B /\ Fulfilling(C, e) \in SUBSET DOMAIN C
  BY OpsEdges, BagValue DEF Sound, Typed, GraphTyped, Bridges, Fulfilling
<1>3. \A x \in DOMAIN C : x.kind = "Fulfills" => Copies(x, C) = Copies(x, B)
  <2>1. CASE Outside
    BY <2>1 DEF Outside, Bridges, Copies, BagIn, BagToSet
  <2>2. CASE \E f : AgentGraph(f) /\ f \notin {"evidence", "relink"}
    BY <1>2, <2>2 DEF AgentGraph, MayTie, Bridges
  <2>3. QED
    BY <2>1, <2>2
<1>4. \A x : /\ Copies(x, B) \in Nat /\ (x \in DOMAIN B <=> Copies(x, B) > 0)
             /\ Copies(x, C) \in Nat /\ (x \in DOMAIN C <=> Copies(x, C) > 0)
  BY <1>2, BagValue
<1>5. Fulfilling(C, e) \subseteq Fulfilling(B, e)
  BY <1>3, <1>4 DEF Fulfilling
<1>6. \A x \in Fulfilling(C, e) : Copies(x, C) <= Copies(x, B)
  BY <1>3, <1>4 DEF Fulfilling
<1> HIDE DEF B, C
<1>7. Pile(C, Fulfilling(C, e)) \subseteq Pile(B, Fulfilling(B, e))
  BY <1>2, <1>5, <1>6, PileShrinks
<1>8. QED
  BY <1>7, FulfillsPile DEF B, C

\* An edge added makes one copy more of its own evidence.
LEMMA FulfillsTied ==
  ASSUME Sound, Sound', NEW z, Tied("ops", z), z.kind = "Fulfills"
  PROVE  /\ \E y : FulfillsOf(z.from)' = FulfillsOf(z.from) \cup {y} /\ y \notin FulfillsOf(z.from)
         /\ \A e : e # z.from => FulfillsOf(e)' = FulfillsOf(e)
<1> DEFINE B == edges["ops"]
           C == edges'["ops"]
<1>1. /\ B \in BagsOf(Edge) /\ C \in BagsOf(Edge)
      /\ \A e : Fulfilling(B, e) \in SUBSET DOMAIN B /\ Fulfilling(C, e) \in SUBSET DOMAIN C
  BY OpsEdges DEF Sound, Typed, GraphTyped, Bridges, Fulfilling
<1>2. /\ DOMAIN C = DOMAIN B \cup {z}
      /\ \A x : Copies(x, C) = Copies(x, B) + IF x = z THEN 1 ELSE 0
  BY DEF Tied, EdgeAdded
<1>3. /\ Fulfilling(C, z.from) = Fulfilling(B, z.from) \cup {z}
      /\ z \in DOMAIN B => z \in Fulfilling(B, z.from)
      /\ \A e : e # z.from => Fulfilling(C, e) = Fulfilling(B, e)
  BY <1>2 DEF Fulfilling
<1>4. \A x : Copies(x, B) \in Nat /\ Copies(x, C) \in Nat
  BY <1>1, BagValue
<1> HIDE DEF B, C
<1>5. /\ Pile(C, Fulfilling(C, z.from)) = Pile(B, Fulfilling(B, z.from)) \cup {<<z, Copies(z, C)>>}
      /\ <<z, Copies(z, C)>> \notin Pile(B, Fulfilling(B, z.from))
  BY <1>1, <1>2, <1>3, PileAdds
<1>6. ASSUME NEW e, e # z.from
      PROVE  Pile(C, Fulfilling(C, e)) = Pile(B, Fulfilling(B, e))
  <2>1. \A x \in Fulfilling(B, e) : x # z
    BY <1>6 DEF Fulfilling
  <2>2. \A x \in Fulfilling(B, e) : Copies(x, C) = Copies(x, B)
    BY <1>2, <1>4, <2>1
  <2>3. \A x \in Fulfilling(B, e) : Copies(x, C) <= Copies(x, B) /\ Copies(x, B) <= Copies(x, C)
    BY <1>4, <2>2
  <2>4. Fulfilling(C, e) = Fulfilling(B, e) /\ Fulfilling(B, e) \subseteq Fulfilling(B, e)
    BY <1>3, <1>6
  <2>5. Pile(C, Fulfilling(C, e)) \subseteq Pile(B, Fulfilling(B, e))
    BY <1>1, <2>3, <2>4, PileShrinks
  <2>6. Pile(B, Fulfilling(B, e)) \subseteq Pile(C, Fulfilling(C, e))
    BY <1>1, <2>3, <2>4, PileShrinks
  <2>7. QED
    BY <2>5, <2>6
<1>7. QED
  BY <1>5, <1>6, FulfillsPile DEF B, C

\* What calls know: evidence being linked is what it was submitted as, evidence
\* being replayed is flagged; whatever of it was not terminated meanwhile.
Submitted(e, i) ==
  /\ e \in Held("ops") /\ e # i
  /\ e \in In("ops") => /\ nodes["ops"][e].kind = "evidence" /\ ~ nodes["ops"][e].flagged
                        /\ nodes["ops"][e].about = i
Flagged(e) ==
  /\ e \in Held("ops")
  /\ e \in In("ops") => nodes["ops"][e].kind = "evidence" /\ nodes["ops"][e].flagged

LinkFits(c) ==
  /\ c.op = "evidence" => c.target \in Held("ops") /\ (c.at = "link" => Submitted(c.id, c.target))
  /\ c.op = "relink" =>
       (\A x \in c.todo : Flagged(x[1])) /\ (c.at = "link" => Flagged(c.evidence))

LEMMA OpsKept ==
  ASSUME Sound, Grows
  PROVE  /\ Held("ops") \subseteq Held("ops")' /\ gone["ops"] \subseteq gone'["ops"]
         /\ \A i \in In("ops")' : i \in Held("ops") => i \in In("ops")
         /\ \A i \in In("ops") \cap In("ops")' : nodes'["ops"][i] = nodes["ops"][i]
         /\ \A i \in In("ops")' \ In("ops") : i = fresh
<1>1. fresh \notin Held("ops") /\ "ops" \in Bridges
  BY AgentCallsAssumption DEF Sound, Typed, GraphTyped, Grounded, Bridges
<1>2. QED
  BY <1>1 DEF Grows, Held

LEMMA LinkFitsKept ==
  ASSUME Sound, Grows, NEW c, LinkFits(c)
  PROVE  LinkFits(c)'
<1>1. \A e : Flagged(e) => Flagged(e)'
  BY OpsKept DEF Flagged
<1>2. \A e, i : Submitted(e, i) => Submitted(e, i)'
  BY OpsKept DEF Submitted
<1>3. QED
  BY <1>1, <1>2, OpsKept DEF LinkFits

\* A replayer links each piece of evidence once.
RelinkFits(a) ==
  call[a].op = "relink" =>
    /\ \A x \in call[a].todo : \A y \in call[a].todo : x[1] = y[1] => x = y
    /\ \A x \in call[a].todo : x[1] \notin call[a].done \cup replayed[a]
    /\ call[a].at = "link" =>
         /\ call[a].evidence \notin call[a].done \cup replayed[a]
         /\ \A x \in call[a].todo : x[1] # call[a].evidence

\* Unflagged evidence fulfills the intent it was submitted for.
FulfillsAbout ==
  \A x \in DOMAIN edges["ops"] : x.kind = "Fulfills" =>
    /\ nodes["ops"][x.from].kind = "evidence"
    /\ nodes["ops"][x.from].flagged \/ nodes["ops"][x.from].about = x.to

Linking(e) == {a \in Agents : call[a].op = "evidence" /\ call[a].at = "link" /\ call[a].id = e}
Relinkers(e) ==
  {a \in Agents : e \in replayed[a] \/ (call[a].op = "relink" /\ e \in call[a].done)}

Attended(e) ==
  \/ \E i \in In("ops") : Linked("ops", e, i, "Fulfills")
  \/ nodes["ops"][e].flagged
  \/ nodes["ops"][e].about \in gone["ops"]

EvidenceCounted(e) ==
  IF nodes["ops"][e].flagged
  THEN Cardinality(FulfillsOf(e)) <= Cardinality(Relinkers(e))
  ELSE Cardinality(FulfillsOf(e)) + Cardinality(Linking(e)) <= 1

Evident ==
  /\ \A a \in Agents : \A c \in {call[a]} : LinkFits(c)
  /\ \A a \in Agents : RelinkFits(a)
  /\ FulfillsAbout
  /\ \A e \in Ids : IsFiniteSet(FulfillsOf(e))
  /\ \A e \in OfKind("ops", "evidence") :
       EvidenceCounted(e) /\ (Attended(e) \/ Linking(e) # {})

\* Attended evidence stays attended: an edge is lost only with one of its ends.
LEMMA AttendedKept ==
  ASSUME Sound, Grows, Sound', FulfillsAbout, NEW e \in In("ops"), e \in In("ops")', Attended(e)
  PROVE  Attended(e)'
<1>1. nodes'["ops"][e] = nodes["ops"][e] /\ gone["ops"] \subseteq gone'["ops"]
  BY OpsKept
<1>2. SUFFICES ASSUME NEW i \in In("ops"), Linked("ops", e, i, "Fulfills"), ~ nodes["ops"][e].flagged
               PROVE  Attended(e)'
  BY <1>1 DEF Attended
<1> DEFINE x == [from |-> e, to |-> i, kind |-> "Fulfills"]
<1>3. x \in DOMAIN edges["ops"] /\ nodes["ops"][e].about = i
  BY <1>2, LinkedIs DEF FulfillsAbout
<1>4. CASE x \in DOMAIN edges'["ops"]
  <2>1. i \in In("ops")'
    BY <1>4 DEF Sound, Grounded, Bridges
  <2>2. QED
    BY <1>4, <2>1 DEF Attended, Linked, BagIn, BagToSet
<1>5. CASE x \notin DOMAIN edges'["ops"]
  <2>1. \E j \in {x.from, x.to} : j \in gone'["ops"] /\ j \notin In("ops")'
    BY <1>3, <1>5 DEF Grows, Bridges
  <2>2. QED
    BY <1>1, <1>3, <2>1 DEF Attended
<1>6. QED
  BY <1>4, <1>5

LEMMA AgentsFinite ==
  ASSUME NEW S \in SUBSET Agents
  PROVE  IsFiniteSet(S) /\ Cardinality(S) \in Nat
BY AgentCallsAssumption, FS_Subset, FS_CardinalityType

LEMMA LinkersAreAgents ==
  ASSUME NEW e
  PROVE  /\ Linking(e) \in SUBSET Agents /\ Linking(e)' \in SUBSET Agents
         /\ Relinkers(e) \in SUBSET Agents /\ Relinkers(e)' \in SUBSET Agents
BY DEF Linking, Relinkers

\* Evidence that no step of its own touches.
LEMMA CountedStays ==
  ASSUME Sound, Sound', Grows, Evident, NEW e \in OfKind("ops", "evidence"), e \in In("ops")',
         FulfillsOf(e)' \subseteq FulfillsOf(e),
         Relinkers(e) \subseteq Relinkers(e)', Linking(e)' \subseteq Linking(e),
         Linking(e)' = {} => Linking(e) = {} \/ Attended(e)
  PROVE  EvidenceCounted(e)' /\ (Attended(e)' \/ Linking(e)' # {})
<1>1. /\ e \in In("ops") /\ e \in Ids /\ nodes'["ops"][e] = nodes["ops"][e]
      /\ EvidenceCounted(e) /\ (Attended(e) \/ Linking(e) # {})
  <2>1. e \in In("ops") /\ In("ops") \subseteq Ids
    BY NodeTyped DEF OfKind, Sound, Typed, Bridges
  <2>2. QED
    BY <2>1, OpsKept DEF Evident
<1>2. Attended(e)' \/ Linking(e)' # {}
  BY <1>1, AttendedKept DEF Evident
<1>3. /\ IsFiniteSet(FulfillsOf(e)) /\ Cardinality(FulfillsOf(e)) \in Nat
      /\ Cardinality(FulfillsOf(e)') \in Nat
      /\ Cardinality(FulfillsOf(e)') <= Cardinality(FulfillsOf(e))
  <2>1. IsFiniteSet(FulfillsOf(e))
    BY <1>1 DEF Evident
  <2>2. QED
    BY <2>1, FS_Subset, FS_CardinalityType
<1>4. /\ Cardinality(Relinkers(e)) \in Nat /\ Cardinality(Relinkers(e)') \in Nat
      /\ Cardinality(Relinkers(e)) <= Cardinality(Relinkers(e)')
      /\ Cardinality(Linking(e)) \in Nat /\ Cardinality(Linking(e)') \in Nat
      /\ Cardinality(Linking(e)') <= Cardinality(Linking(e))
  BY LinkersAreAgents, AgentsFinite, FS_Subset
<1>5. EvidenceCounted(e)'
  BY <1>1, <1>3, <1>4 DEF EvidenceCounted
<1>6. QED
  BY <1>2, <1>5

\* No call that has to do with evidence goes on.
LEMMA QuietEvidence ==
  ASSUME Sound, Sound', Grows, Evident,
         \/ Outside
         \/ \E a \in Agents : \E f : /\ AgentEffect(a, f) /\ AgentGraph(f)
                                     /\ f \notin {"evidence", "relink"}
  PROVE  Evident'
<1>1. \A e : FulfillsOf(e)' \subseteq FulfillsOf(e)
  BY FulfillsKept
<1>2. /\ replayed' = replayed
      /\ \A a \in Agents : call'[a] = call[a] \/
           (call[a].op \notin {"evidence", "relink"} /\ call'[a].op \notin {"evidence", "relink"})
  BY DEF Outside, AgentEffect, StepOf
<1>3. /\ \A i \in In("ops")' : nodes'["ops"][i].kind = "evidence" =>
           i \in In("ops") /\ nodes'["ops"][i] = nodes["ops"][i]
      /\ \A x \in DOMAIN edges'["ops"] : x.kind = "Fulfills" => x \in DOMAIN edges["ops"]
  <2>1. CASE Outside
    BY <2>1 DEF Outside, Bridges
  <2>2. CASE \E f : AgentGraph(f) /\ f \notin {"evidence", "relink"}
    BY <2>2 DEF AgentGraph, MayTie, MayMake, MayRewrite, Bridges
  <2>3. QED
    BY <2>1, <2>2
<1>4. \A e : Relinkers(e)' = Relinkers(e) /\ Linking(e)' = Linking(e)
  <2>1. \A e, a : /\ a \in Relinkers(e)' <=> a \in Relinkers(e)
                  /\ a \in Linking(e)' <=> a \in Linking(e)
    BY <1>2 DEF Relinkers, Linking
  <2>2. QED
    BY <2>1
<1>5. \A a \in Agents : \A c \in {call'[a]} : LinkFits(c)'
  <2>1. SUFFICES ASSUME NEW a \in Agents PROVE \A c \in {call'[a]} : LinkFits(c)'
    OBVIOUS
  <2>2. CASE call'[a] = call[a]
    BY <2>2, LinkFitsKept DEF Evident
  <2>3. CASE call'[a].op \notin {"evidence", "relink"}
    BY <2>3 DEF LinkFits
  <2>4. QED
    BY <1>2, <2>2, <2>3
<1>6. \A a \in Agents : RelinkFits(a)'
  BY <1>2 DEF Evident, RelinkFits
<1>7. FulfillsAbout'
  <2>1. SUFFICES ASSUME NEW x \in DOMAIN edges'["ops"], x.kind = "Fulfills"
                 PROVE  /\ nodes'["ops"][x.from].kind = "evidence"
                        /\ nodes'["ops"][x.from].flagged \/ nodes'["ops"][x.from].about = x.to
    BY DEF FulfillsAbout
  <2>2. x \in DOMAIN edges["ops"] /\ x.from \in In("ops") /\ x.from \in In("ops")'
    BY <1>3, <2>1 DEF Sound, Grounded, Bridges
  <2>3. QED
    BY <2>1, <2>2, OpsKept DEF Evident, FulfillsAbout
<1>8. \A e \in Ids : IsFiniteSet(FulfillsOf(e)')
  BY <1>1, FS_Subset DEF Evident
<1>9. ASSUME NEW e \in OfKind("ops", "evidence")'
      PROVE  EvidenceCounted(e)' /\ (Attended(e)' \/ Linking(e)' # {})
  <2>1. e \in OfKind("ops", "evidence") /\ e \in In("ops")'
    BY <1>3, <1>9 DEF OfKind
  <2>2. QED
    BY <1>1, <1>4, <2>1, CountedStays
<1>10. QED
  BY <1>5, <1>6, <1>7, <1>8, <1>9 DEF Evident

LEMMA EvidenceEvident ==
  ASSUME Sound, Sound', Grows, Evident, NEW a \in Agents, AgentEffect(a, "evidence")
  PROVE  Evident'
<1>1. PICK c, d, i : c = call[a] /\ d = call'[a] /\ i = fresh
  OBVIOUS
<1>2. /\ EvidenceEffect(a) /\ {c.op, d.op} \subseteq {"idle", "evidence"} /\ replayed' = replayed
      /\ \A b \in Agents \ {a} : call'[b] = call[b]
      /\ LinkFits(c) /\ LinkFits(c)'
  BY <1>1, LinkFitsKept DEF AgentEffect, StepOf, Evident
<1>3. /\ \A e : e \in Held("ops") => e < i
      /\ i \in Nat /\ i \notin Held("ops") /\ In("ops") \subseteq Held("ops")
      /\ \A x \in DOMAIN edges["ops"] : {x.from, x.to} \subseteq In("ops")
      /\ Held("ops") \subseteq Held("ops")'
  <2>1. i \in Nat /\ \A e \in Held("ops") : e < i
    BY <1>1, AgentCallsAssumption DEF Sound, Typed, GraphTyped, Grounded, Bridges
  <2>2. QED
    BY <2>1, OpsKept DEF Held, Sound, Grounded, Bridges
<1>4. \A b \in Agents \ {a} : (\A x \in {call'[b]} : LinkFits(x)') /\ RelinkFits(b)'
  BY <1>2, LinkFitsKept DEF Evident, RelinkFits
<1>5. RelinkFits(a)'
  BY <1>1, <1>2 DEF RelinkFits
<1>6. \A e : Relinkers(e)' = Relinkers(e)
  <2>1. \A e, b : b \in Relinkers(e)' <=> b \in Relinkers(e)
    BY <1>1, <1>2 DEF Relinkers
  <2>2. QED
    BY <2>1
<1>7. \A e : \A b \in Agents \ {a} : b \in Linking(e)' <=> b \in Linking(e)
  BY <1>2 DEF Linking
<1>8. \A e : /\ a \in Linking(e) <=> c.op = "evidence" /\ c.at = "link" /\ c.id = e
             /\ a \in Linking(e)' <=> d.op = "evidence" /\ d.at = "link" /\ d.id = e
             /\ Linking(e) \subseteq Agents /\ Linking(e)' \subseteq Agents
  BY <1>1 DEF Linking
<1>9. ASSUME Still, LinkFits(d)', \A e : Linking(e)' \subseteq Linking(e),
             \A e \in OfKind("ops", "evidence") : Linking(e)' = {} => Linking(e) = {} \/ Attended(e)
      PROVE  Evident'
  <2>1. UNCHANGED <<nodes, edges>>
    BY <1>9 DEF Still
  <2>2. (\A e : FulfillsOf(e)' = FulfillsOf(e)) /\ In("ops")' = In("ops")
        /\ OfKind("ops", "evidence")' = OfKind("ops", "evidence")
    BY <2>1 DEF FulfillsOf, In, OfKind
  <2>3. FulfillsAbout'
    BY <2>1 DEF Evident, FulfillsAbout
  <2>4. \A e \in OfKind("ops", "evidence") :
          EvidenceCounted(e)' /\ (Attended(e)' \/ Linking(e)' # {})
    <3>1. SUFFICES ASSUME NEW e \in OfKind("ops", "evidence")
                   PROVE  EvidenceCounted(e)' /\ (Attended(e)' \/ Linking(e)' # {})
      OBVIOUS
    <3>2. e \in In("ops")'
      BY <2>2 DEF OfKind
    <3>3. QED
      BY <1>6, <1>9, <2>2, <3>2, CountedStays
  <2>5. QED
    BY <1>1, <1>4, <1>5, <1>9, <2>2, <2>3, <2>4 DEF Evident
<1>10. CASE /\ c.op = "idle" /\ Still
            /\ d.op = "evidence" /\ d.at = "write" /\ d.target \in Intents
  <2>1. LinkFits(d)'
    BY <1>3, <1>10 DEF LinkFits, Intents, OfKind
  <2>2. \A e : Linking(e)' \subseteq Linking(e) /\ Linking(e) \subseteq Linking(e)'
    BY <1>7, <1>8, <1>10
  <2>3. QED
    BY <1>9, <1>10, <2>1, <2>2
<1>11. CASE Still /\ d.op = "idle" /\ ~ (c.op = "evidence" /\ c.at = "link")
  <2>1. LinkFits(d)'
    BY <1>11 DEF LinkFits
  <2>2. \A e : Linking(e)' \subseteq Linking(e) /\ Linking(e) \subseteq Linking(e)'
    BY <1>7, <1>8, <1>11
  <2>3. QED
    BY <1>9, <1>11, <2>1, <2>2
<1>12. CASE /\ c.op = "evidence" /\ c.at = "link" /\ d.op = "idle"
            /\ Still /\ ~ CanLink("ops", c.id, c.target)
  <2>1. LinkFits(d)'
    BY <1>12 DEF LinkFits
  <2>2. \A e : Linking(e)' \subseteq Linking(e)
    BY <1>7, <1>8, <1>12
  <2>3. ASSUME NEW e \in OfKind("ops", "evidence"), Linking(e)' = {}, Linking(e) # {}
        PROVE  Attended(e)
    <3>1. e = c.id
      BY <1>7, <1>8, <1>12, <2>3
    <3>2. /\ c.target \in Held("ops") /\ e # c.target /\ e \in In("ops")
          /\ nodes["ops"][e].about = c.target
      BY <1>2, <1>12, <2>3, <3>1 DEF LinkFits, Submitted, OfKind
    <3>3. c.target \notin In("ops")
      BY <1>12, <3>1, <3>2 DEF CanLink
    <3>4. QED
      BY <3>2, <3>3 DEF Held, Attended
  <2>4. QED
    BY <1>9, <1>12, <2>1, <2>2, <2>3
<1>13. CASE /\ c.op = "evidence" /\ c.at = "link" /\ d.op = "idle"
            /\ Tied("ops", [from |-> c.id, to |-> c.target, kind |-> "Fulfills"])
  <2> DEFINE z == [from |-> c.id, to |-> c.target, kind |-> "Fulfills"]
  <2>1. /\ z.from = c.id /\ z.to = c.target /\ z.kind = "Fulfills"
        /\ DOMAIN edges'["ops"] = DOMAIN edges["ops"] \cup {z} /\ nodes' = nodes
        /\ {c.id, c.target} \subseteq In("ops")
    BY <1>13 DEF Tied, EdgeAdded
  <2>2. /\ \E y : FulfillsOf(c.id)' = FulfillsOf(c.id) \cup {y} /\ y \notin FulfillsOf(c.id)
        /\ \A e : e # c.id => FulfillsOf(e)' = FulfillsOf(e)
    BY <1>13, <2>1, FulfillsTied
  <2>3. /\ nodes["ops"][c.id].kind = "evidence" /\ ~ nodes["ops"][c.id].flagged
        /\ nodes["ops"][c.id].about = c.target
    BY <1>2, <1>13, <2>1 DEF LinkFits, Submitted
  <2> HIDE DEF z
  <2>4. /\ OfKind("ops", "evidence")' = OfKind("ops", "evidence") /\ In("ops")' = In("ops")
    BY <2>1 DEF OfKind, In
  <2>5. FulfillsAbout'
    BY <2>1, <2>3 DEF Evident, FulfillsAbout
  <2>6. \A e \in Ids : IsFiniteSet(FulfillsOf(e)')
    BY <2>2, FS_AddElement DEF Evident
  <2>7. \A e : e # c.id => Linking(e)' = Linking(e)
    BY <1>7, <1>8, <1>13
  <2>8. Linking(c.id)' = Linking(c.id) \ {a} /\ a \in Linking(c.id)
    BY <1>7, <1>8, <1>13
  <2>9. ASSUME NEW e \in OfKind("ops", "evidence"), e # c.id
        PROVE  EvidenceCounted(e)' /\ (Attended(e)' \/ Linking(e)' # {})
    <3>1. e \in In("ops")'
      BY <2>4 DEF OfKind
    <3>2. QED
      BY <1>6, <2>2, <2>7, <2>9, <3>1, CountedStays
  <2>10. EvidenceCounted(c.id)' /\ Attended(c.id)'
    <3>1. c.id \in OfKind("ops", "evidence") /\ c.id \in Ids
      BY <2>1, <2>3, NodeTyped DEF OfKind, Sound, Typed, Bridges
    <3>2. /\ Cardinality(FulfillsOf(c.id)) + Cardinality(Linking(c.id)) <= 1
          /\ IsFiniteSet(FulfillsOf(c.id))
      BY <2>3, <3>1 DEF Evident, EvidenceCounted
    <3>3. Cardinality(FulfillsOf(c.id)') = Cardinality(FulfillsOf(c.id)) + 1
          /\ Cardinality(FulfillsOf(c.id)) \in Nat
      BY <2>2, <3>2, FS_AddElement, FS_CardinalityType
    <3>4. /\ IsFiniteSet(Linking(c.id)) /\ Cardinality(Linking(c.id)) \in Nat
          /\ Cardinality(Linking(c.id)') = Cardinality(Linking(c.id)) - 1
      BY <2>8, LinkersAreAgents, AgentsFinite, FS_RemoveElement
    <3>5. EvidenceCounted(c.id)'
      BY <2>1, <2>3, <3>2, <3>3, <3>4 DEF EvidenceCounted
    <3>6. Linked("ops", c.id, c.target, "Fulfills")'
      BY <2>1 DEF Linked, BagIn, BagToSet, z
    <3>7. QED
      BY <2>1, <2>4, <3>5, <3>6 DEF Attended
  <2>11. LinkFits(d)'
    BY <1>13 DEF LinkFits
  <2>12. QED
    BY <1>1, <1>4, <1>5, <2>4, <2>5, <2>6, <2>9, <2>10, <2>11 DEF Evident
<1>14. ASSUME c.op = "evidence", c.at = "write", NEW n \in Node, Made("ops", n),
              n.kind = "evidence", n.about = c.target,
              \/ n.flagged /\ d.op = "idle"
              \/ /\ ~ n.flagged
                 /\ d.op = "evidence" /\ d.at = "link" /\ d.id = i /\ d.target = c.target
       PROVE  Evident'
  <2>1. /\ In("ops")' = In("ops") \cup {i} /\ nodes'["ops"][i] = n
        /\ \A j \in In("ops") \ {i} : nodes'["ops"][j] = nodes["ops"][j]
        /\ edges' = edges /\ gone' = gone
    BY <1>1, <1>14 DEF Made, NodeIsNow, AgentEffect, StepOf
  <2>2. LinkFits(d)'
    <3>1. c.target \in Held("ops") /\ c.target # i
      BY <1>2, <1>3, <1>14 DEF LinkFits
    <3>2. i \in Held("ops")'
      BY <2>1 DEF Held
    <3>3. QED
      BY <1>3, <1>14, <2>1, <3>1, <3>2 DEF LinkFits, Submitted
  <2>3. \A e : FulfillsOf(e)' = FulfillsOf(e)
    BY <2>1 DEF FulfillsOf
  <2>4. FulfillsAbout'
    BY <1>3, <2>1 DEF Evident, FulfillsAbout
  <2>5. \A e : e # i => Linking(e)' = Linking(e)
    BY <1>7, <1>8, <1>14
  <2>6. Linking(i)' \subseteq {a} /\ (~ n.flagged => a \in Linking(i)')
    <3>1. \A b \in Agents : b \notin Linking(i)
      BY <1>3 DEF Evident, LinkFits, Submitted, Linking
    <3>2. QED
      BY <1>7, <1>8, <1>14, <3>1
  <2>7. ASSUME NEW e \in OfKind("ops", "evidence")', e # i
        PROVE  EvidenceCounted(e)' /\ (Attended(e)' \/ Linking(e)' # {})
    <3>1. e \in In("ops")' /\ e \in OfKind("ops", "evidence")
      BY <2>1, <2>7 DEF OfKind
    <3>2. QED
      BY <1>6, <2>3, <2>5, <2>7, <3>1, CountedStays
  <2>8. EvidenceCounted(i)' /\ (Attended(i)' \/ Linking(i)' # {})
    <3>1. FulfillsOf(i)' = {}
      <4>1. Fulfilling(edges["ops"], i) = {}
        BY <1>3 DEF Fulfilling
      <4>2. FulfillsOf(i) = {}
        BY <4>1 DEF FulfillsOf, Fulfilling
      <4>3. QED
        BY <2>3, <4>2
    <3>2. Cardinality({}) = 0
      BY FS_EmptySet
    <3>3. Cardinality(Linking(i)') \in Nat /\ Cardinality(Linking(i)') <= 1
      <4>1. IsFiniteSet({a}) /\ Cardinality({a}) = 1
        BY FS_Singleton
      <4>2. QED
        BY <2>6, <4>1, FS_Subset, FS_CardinalityType
    <3>4. Cardinality(Relinkers(i)') \in Nat
      BY LinkersAreAgents, AgentsFinite
    <3>5. EvidenceCounted(i)'
      BY <3>1, <3>2, <3>3, <3>4 DEF EvidenceCounted
    <3>6. QED
      BY <2>1, <2>6, <3>5 DEF Attended
  <2>9. QED
    BY <1>1, <1>4, <1>5, <2>2, <2>3, <2>4, <2>7, <2>8 DEF Evident
<1>15. QED
  BY <1>1, <1>2, <1>10, <1>11, <1>12, <1>13, <1>14 DEF EvidenceEffect

LEMMA RelinkEvident ==
  ASSUME Sound, Sound', Grows, Evident, NEW a \in Agents, AgentEffect(a, "relink")
  PROVE  Evident'
<1>1. PICK c, d, R : c = call[a] /\ d = call'[a] /\ R = replayed[a]
  OBVIOUS
<1>2. /\ RelinkEffect(a) /\ {c.op, d.op} \subseteq {"idle", "relink"}
      /\ \A b \in Agents \ {a} : call'[b] = call[b]
      /\ LinkFits(c) /\ LinkFits(c)' /\ replayed \in [Agents -> SUBSET Ids]
  BY <1>1, LinkFitsKept DEF AgentEffect, StepOf, Evident, Sound, Typed, SidesTyped
<1>3. \A b \in Agents \ {a} : replayed'[b] = replayed[b]
  BY <1>2 DEF RelinkEffect
<1>4. /\ \A b \in Agents \ {a} : (\A x \in {call'[b]} : LinkFits(x)') /\ RelinkFits(b)'
      /\ c.op = "relink" =>
           /\ \A x \in c.todo : \A y \in c.todo : x[1] = y[1] => x = y
           /\ \A x \in c.todo : x[1] \notin c.done \cup R
           /\ c.at = "link" => c.evidence \notin c.done \cup R /\ \A x \in c.todo : x[1] # c.evidence
  BY <1>1, <1>2, <1>3, LinkFitsKept DEF Evident, RelinkFits
<1>5. \A e : Linking(e)' = Linking(e)
  <2>1. \A e, b : b \in Linking(e)' <=> b \in Linking(e)
    BY <1>1, <1>2 DEF Linking
  <2>2. QED
    BY <2>1
<1>6. \A e : \A b \in Agents \ {a} : b \in Relinkers(e)' <=> b \in Relinkers(e)
  BY <1>2, <1>3 DEF Relinkers
<1>7. \A e : /\ a \in Relinkers(e) <=> e \in R \/ (c.op = "relink" /\ e \in c.done)
             /\ a \in Relinkers(e)' <=> e \in replayed'[a] \/ (d.op = "relink" /\ e \in d.done)
             /\ Relinkers(e) \subseteq Agents /\ Relinkers(e)' \subseteq Agents
  BY <1>1 DEF Relinkers
<1>8. ASSUME Still, LinkFits(d)', RelinkFits(a)', \A e : a \in Relinkers(e) => a \in Relinkers(e)'
      PROVE  Evident'
  <2>1. UNCHANGED <<nodes, edges>>
    BY <1>8 DEF Still
  <2>2. (\A e : FulfillsOf(e)' = FulfillsOf(e)) /\ In("ops")' = In("ops")
        /\ OfKind("ops", "evidence")' = OfKind("ops", "evidence")
    BY <2>1 DEF FulfillsOf, In, OfKind
  <2>3. FulfillsAbout'
    BY <2>1 DEF Evident, FulfillsAbout
  <2>4. \A e : Relinkers(e) \subseteq Relinkers(e)'
    BY <1>6, <1>7, <1>8
  <2>5. \A e \in OfKind("ops", "evidence") :
          EvidenceCounted(e)' /\ (Attended(e)' \/ Linking(e)' # {})
    <3>1. SUFFICES ASSUME NEW e \in OfKind("ops", "evidence")
                   PROVE  EvidenceCounted(e)' /\ (Attended(e)' \/ Linking(e)' # {})
      OBVIOUS
    <3>2. e \in In("ops")'
      BY <2>2 DEF OfKind
    <3>3. QED
      BY <1>5, <2>2, <2>4, <3>2, CountedStays
  <2>6. QED
    BY <1>1, <1>4, <1>8, <2>2, <2>3, <2>5 DEF Evident
<1>9. CASE /\ c.op = "idle" /\ Still /\ replayed' = replayed
           /\ d.op = "relink" /\ d.at = "next" /\ d.done = {}
           /\ d.todo = {<<e, nodes["ops"][e].content>> : e \in Deferred(a)}
  <2>1. \A e \in Deferred(a) : e \notin R /\ e \in Held("ops") /\ e \in In("ops")
                               /\ nodes["ops"][e].kind = "evidence" /\ nodes["ops"][e].flagged
    BY <1>1 DEF Deferred, OfKind, Held
  <2>2. \A x \in d.todo : Flagged(x[1]) /\ x[1] \notin R
    BY <1>9, <2>1 DEF Flagged
  <2>3. nodes' = nodes /\ \A x \in d.todo : Flagged(x[1])'
    <3>1. nodes' = nodes /\ Held("ops") \subseteq Held("ops")'
      BY <1>9, OpsKept DEF Still
    <3>2. QED
      BY <2>2, <3>1 DEF Flagged, In
  <2>4. LinkFits(d)'
    BY <1>9, <2>3 DEF LinkFits
  <2>5. RelinkFits(a)'
    <3>1. \A x \in d.todo : \A y \in d.todo : x[1] = y[1] => x = y
      BY <1>9
    <3>2. QED
      BY <1>1, <1>9, <2>2, <3>1 DEF RelinkFits
  <2>6. \A e : a \in Relinkers(e) => a \in Relinkers(e)'
    BY <1>1, <1>7, <1>9
  <2>7. QED
    BY <1>8, <1>9, <2>4, <2>5, <2>6
<1>10. ASSUME c.op = "relink", c.at = "next", Still, replayed' = replayed, NEW x \in c.todo,
              d.op = "relink", d.done = c.done, d.todo = c.todo \ {x},
              d.at = "next" \/ (d.at = "link" /\ d.evidence = x[1])
       PROVE  Evident'
  <2>1. LinkFits(d)'
    BY <1>2, <1>10 DEF LinkFits
  <2>2. RelinkFits(a)'
    BY <1>1, <1>4, <1>10 DEF RelinkFits
  <2>3. \A e : a \in Relinkers(e) => a \in Relinkers(e)'
    BY <1>1, <1>7, <1>10
  <2>4. QED
    BY <1>8, <1>10, <2>1, <2>2, <2>3
<1>11. CASE /\ c.op = "relink" /\ c.at = "link" /\ replayed' = replayed
            /\ d.op = "relink" /\ d.at = "next" /\ d.todo = c.todo
            /\ Still /\ d.done = c.done
  <2>1. LinkFits(d)'
    BY <1>2, <1>11 DEF LinkFits
  <2>2. RelinkFits(a)'
    BY <1>1, <1>4, <1>11 DEF RelinkFits
  <2>3. \A e : a \in Relinkers(e) => a \in Relinkers(e)'
    BY <1>1, <1>7, <1>11
  <2>4. QED
    BY <1>8, <1>11, <2>1, <2>2, <2>3
<1>12. CASE /\ c.op = "relink" /\ c.at = "next" /\ Still /\ d.op = "idle"
            /\ replayed' = [replayed EXCEPT ![a] = @ \cup c.done]
  <2>1. LinkFits(d)' /\ RelinkFits(a)'
    BY <1>1, <1>12 DEF LinkFits, RelinkFits
  <2>2. replayed'[a] = R \cup c.done
    BY <1>1, <1>2, <1>12
  <2>3. \A e : a \in Relinkers(e) => a \in Relinkers(e)'
    BY <1>7, <2>2
  <2>4. QED
    BY <1>8, <1>12, <2>1, <2>3
<1>13. CASE /\ c.op = "relink" /\ c.at = "link" /\ replayed' = replayed
            /\ d.op = "relink" /\ d.at = "next" /\ d.todo = c.todo
            /\ Tied("ops", [from |-> c.evidence, to |-> c.target, kind |-> "Fulfills"])
            /\ d.done = c.done \cup {c.evidence}
  <2> DEFINE z == [from |-> c.evidence, to |-> c.target, kind |-> "Fulfills"]
  <2>1. /\ z.from = c.evidence /\ z.kind = "Fulfills"
        /\ DOMAIN edges'["ops"] = DOMAIN edges["ops"] \cup {z} /\ nodes' = nodes
        /\ c.evidence \in In("ops")
    BY <1>13 DEF Tied, EdgeAdded
  <2>2. /\ \E y : FulfillsOf(c.evidence)' = FulfillsOf(c.evidence) \cup {y}
                  /\ y \notin FulfillsOf(c.evidence)
        /\ \A e : e # c.evidence => FulfillsOf(e)' = FulfillsOf(e)
    BY <1>13, <2>1, FulfillsTied
  <2>3. nodes["ops"][c.evidence].kind = "evidence" /\ nodes["ops"][c.evidence].flagged
    BY <1>2, <1>13, <2>1 DEF LinkFits, Flagged
  <2> HIDE DEF z
  <2>4. /\ OfKind("ops", "evidence")' = OfKind("ops", "evidence") /\ In("ops")' = In("ops")
    BY <2>1 DEF OfKind, In
  <2>5. FulfillsAbout'
    BY <2>1, <2>3 DEF Evident, FulfillsAbout
  <2>6. \A e \in Ids : IsFiniteSet(FulfillsOf(e)')
    BY <2>2, FS_AddElement DEF Evident
  <2>7. LinkFits(d)'
    BY <1>2, <1>13 DEF LinkFits
  <2>8. RelinkFits(a)'
    BY <1>1, <1>4, <1>13 DEF RelinkFits
  <2>9. \A e : Relinkers(e) \subseteq Relinkers(e)'
    BY <1>1, <1>6, <1>7, <1>13
  <2>10. ASSUME NEW e \in OfKind("ops", "evidence"), e # c.evidence
         PROVE  EvidenceCounted(e)' /\ (Attended(e)' \/ Linking(e)' # {})
    <3>1. e \in In("ops")'
      BY <2>4 DEF OfKind
    <3>2. QED
      BY <1>5, <2>2, <2>9, <2>10, <3>1, CountedStays
  <2>11. EvidenceCounted(c.evidence)' /\ Attended(c.evidence)'
    <3>1. c.evidence \in OfKind("ops", "evidence") /\ c.evidence \in Ids
      BY <2>1, <2>3, NodeTyped DEF OfKind, Sound, Typed, Bridges
    <3>2. /\ Cardinality(FulfillsOf(c.evidence)) <= Cardinality(Relinkers(c.evidence))
          /\ IsFiniteSet(FulfillsOf(c.evidence))
      BY <2>3, <3>1 DEF Evident, EvidenceCounted
    <3>3. Cardinality(FulfillsOf(c.evidence)') = Cardinality(FulfillsOf(c.evidence)) + 1
          /\ Cardinality(FulfillsOf(c.evidence)) \in Nat
      BY <2>2, <3>2, FS_AddElement, FS_CardinalityType
    <3>4. Relinkers(c.evidence)' = Relinkers(c.evidence) \cup {a} /\ a \notin Relinkers(c.evidence)
      <4>1. a \notin Relinkers(c.evidence)
        BY <1>4, <1>7, <1>13
      <4>2. a \in Relinkers(c.evidence)'
        BY <1>7, <1>13
      <4>3. QED
        BY <1>6, <1>7, <4>1, <4>2
    <3>5. /\ IsFiniteSet(Relinkers(c.evidence)) /\ Cardinality(Relinkers(c.evidence)) \in Nat
          /\ Cardinality(Relinkers(c.evidence)') = Cardinality(Relinkers(c.evidence)) + 1
      BY <3>4, LinkersAreAgents, AgentsFinite, FS_AddElement
    <3>6. EvidenceCounted(c.evidence)'
      BY <2>1, <2>3, <3>2, <3>3, <3>5 DEF EvidenceCounted
    <3>7. QED
      BY <2>1, <2>3, <3>6 DEF Attended
  <2>12. QED
    BY <1>1, <1>4, <2>4, <2>5, <2>6, <2>7, <2>8, <2>10, <2>11 DEF Evident
<1>14. QED
  BY <1>1, <1>2, <1>9, <1>10, <1>11, <1>12, <1>13 DEF RelinkEffect

LEMMA EvidentStarts ==
  ASSUME Start
  PROVE  Evident
<1>1. \A a \in Agents : call[a].op = "idle" /\ replayed[a] = {}
  BY DEF Start, Init, Idle, WorkInit
<1>2. DOMAIN edges["ops"] = {} /\ OfKind("ops", "evidence") = {}
  <2>1. edges["ops"] = EmptyBag /\ \E c \in Contents : nodes["ops"] = [i \in {Work} |-> Kind("intent", c)]
    BY DEF Start, Init, Bridges
  <2>2. DOMAIN edges["ops"] = {}
    BY <2>1, EmptyBagOf
  <2>3. OfKind("ops", "evidence") = {}
    BY <2>1 DEF OfKind, In, Kind
  <2>4. QED
    BY <2>2, <2>3
<1>3. \A e : FulfillsOf(e) = {}
  BY <1>2 DEF FulfillsOf
<1>4. QED
  BY <1>1, <1>2, <1>3, FS_EmptySet DEF Evident, LinkFits, RelinkFits, FulfillsAbout

\* Evidence hangs on its intent, once: whatever is terminated between the two
\* halves of a submission, nothing submitted is silently detached (integration.rs),
\* and each agent's replays link a flagged piece at most once.
THEOREM EvidenceAttached == Spec => []EvidenceLinked
<1>1. Start => Evident
  BY EvidentStarts
<1>2. Sound /\ Evident /\ [Next]_vars => Evident'
  <2>1. SUFFICES ASSUME Sound, Evident, [Next]_vars
                 PROVE  Evident'
    OBVIOUS
  <2>2. Grows /\ Sound'
    BY <2>1, StepCases
  <2>3. ASSUME NEW a \in Agents, NEW f, AgentEffect(a, f), AgentGraph(f)
        PROVE  Evident'
    BY <2>1, <2>2, <2>3, QuietEvidence, EvidenceEvident, RelinkEvident
  <2>4. QED
    BY <2>1, <2>2, <2>3, QuietEvidence, StepCases
<1>3. Sound /\ Evident => EvidenceLinked
  <2>1. SUFFICES ASSUME Sound, Evident, NEW e \in OfKind("ops", "evidence")
                 PROVE  /\ \/ \E i \in In("ops") : Linked("ops", e, i, "Fulfills")
                           \/ nodes["ops"][e].flagged
                           \/ nodes["ops"][e].about \in gone["ops"]
                           \/ \E a \in InFlight("evidence") : call[a].id = e
                        /\ Cardinality(FulfillsOf(e)) <=
                             IF nodes["ops"][e].flagged THEN Cardinality(Relinkers(e)) ELSE 1
    BY DEF EvidenceLinked, NoSilentOrphan, LinkedOncePerReplayer, Relinkers
  <2>2. EvidenceCounted(e) /\ (Attended(e) \/ Linking(e) # {})
    BY <2>1 DEF Evident
  <2>3. \A a \in Linking(e) : a \in InFlight("evidence") /\ call[a].id = e
    BY DEF Linking, InFlight
  <2>4. /\ Cardinality(Linking(e)) \in Nat
        /\ Cardinality(FulfillsOf(e)) \in Nat
    <3>1. e \in Ids
      BY <2>1, NodeTyped DEF OfKind, Sound, Typed, Bridges
    <3>2. QED
      BY <2>1, <3>1, LinkersAreAgents, AgentsFinite, FS_CardinalityType DEF Evident
  <2>5. Cardinality(FulfillsOf(e)) <=
          IF nodes["ops"][e].flagged THEN Cardinality(Relinkers(e)) ELSE 1
    BY <2>2, <2>4 DEF EvidenceCounted
  <2>6. QED
    BY <2>2, <2>3, <2>5 DEF Attended
<1>4. QED
  BY <1>1, <1>2, <1>3, SoundAlways, PTL DEF Spec, Next

-----------------------------------------------------------------------------
(***************************************************************************)
(* Replays of messages.                                                    *)
(***************************************************************************)
Fails(r) == r.op = "replay" /\ ~ r.result.ok
ReplayFailed == \E r \in returned : Fails(r)

ReplayEffect(a) ==
  \/ /\ call[a].op = "idle" /\ Still /\ known' = known
     /\ call'[a].op = "replay" /\ call'[a].done = {}
     /\ call'[a].todo = {<<i, nodes["ops"][i]>> : i \in Candidates(a)}
  \/ /\ call[a].op = "replay" /\ known' = known
     /\ \E x \in call[a].todo, n \in Node :
          /\ Rewrote(x[1], n)
          /\ call'[a].op = "replay" /\ call'[a].todo = call[a].todo \ {x}
          /\ call'[a].done = call[a].done \cup {x[1]}
  \/ call[a].op = "replay" /\ Still /\ known' = known /\ call'[a].op = "idle" /\ ReplayFailed'
  \/ /\ call[a].op = "replay" /\ Still /\ call'[a].op = "idle"
     /\ known' = [known EXCEPT ![a] = @ \cup call[a].done]

LEMMA ReplayEffects ==
  ASSUME Typed, NEW a \in Agents, TodoHeld(a), ReplayStep(a)
  PROVE  ReplayEffect(a)
<1>1. GraphTyped /\ call \in [Agents -> Calls] /\ UNCHANGED <<held, delivered, replayed>>
  BY DEF Typed, ReplayStep, ReplayMessages, ReplayNext, commsVars, projection
<1>2. CASE ReplayMessages(a)
  <2> DEFINE x == [op |-> "replay", at |-> "next", done |-> {},
                   todo |-> {<<i, nodes["ops"][i]>> : i \in Candidates(a)}]
  <2>1. Set(a, x) /\ call[a].op = "idle" /\ UNCHANGED <<graph, known>>
    BY <1>2 DEF ReplayMessages, Starts, Idle, commsVars
  <2>2. call'[a] = x
    BY <1>1, <2>1 DEF Set
  <2>3. QED
    BY <2>1, <2>2 DEF ReplayEffect, Still, graph
<1>3. CASE ReplayNext(a)
  <2>1. call[a].op = "replay" /\ triggers' = triggers /\ call[a] \in ReplayCalls
    BY <1>1, <1>3, OpCalls DEF ReplayNext, At, bounds
  <2>2. \/ \E x \in call[a].todo : ReplayWrites(a, x)
        \/ Refused(a) /\ known' = known
        \/ /\ known' = [known EXCEPT ![a] = @ \cup call[a].done]
           /\ Return(a, [ok |-> TRUE]) /\ UNCHANGED graph
    BY <1>3 DEF ReplayNext, ReplayStops, ReplayWrites
  <2>3. CASE \E x \in call[a].todo : ReplayWrites(a, x)
    <3>1. PICK x \in call[a].todo : ReplayWrites(a, x)
      BY <2>3
    <3>2. /\ call'[a] \in ReplayCalls
          /\ call'[a].todo = call[a].todo \ {x} /\ call'[a].done = call[a].done \cup {x[1]}
          /\ \E n \in Node : Rewrote(x[1], n) /\ n.content = x[2].content
      BY <1>1, <2>1, <3>1, ReplayWriteStep DEF projection
    <3>3. known' = known /\ call'[a].op = "replay"
      BY <3>1, <3>2 DEF ReplayWrites, ReplayCalls
    <3>4. QED
      BY <2>1, <3>2, <3>3 DEF ReplayEffect
  <2>4. CASE Refused(a) /\ known' = known
    <3>1. call'[a].op = "idle" /\ UNCHANGED graph
      BY <1>1, <2>4, RefusedCall
    <3>2. ReplayFailed'
      <4> DEFINE r == [op |-> call[a].op, agent |-> a, result |-> [ok |-> FALSE]]
      <4>1. r \in returned'
        BY <2>4 DEF Refused, Return
      <4>2. r.op = "replay" /\ r.result = [ok |-> FALSE]
        BY <2>1
      <4> HIDE DEF r
      <4>3. ~ [ok |-> FALSE].ok
        OBVIOUS
      <4>4. Fails(r)
        BY <4>2, <4>3, Zenon DEF Fails
      <4>5. QED
        BY <4>1, <4>4 DEF ReplayFailed
    <3>3. QED
      BY <2>1, <2>4, <3>1, <3>2 DEF ReplayEffect, Still, graph
  <2>5. CASE /\ known' = [known EXCEPT ![a] = @ \cup call[a].done]
             /\ Return(a, [ok |-> TRUE]) /\ UNCHANGED graph
    BY <1>1, <2>1, <2>5, ReturnCall DEF ReplayEffect, Still, graph
  <2>6. QED
    BY <2>2, <2>3, <2>4, <2>5
<1>4. QED
  BY <1>2, <1>3 DEF ReplayStep

\* Messages that wait for the projection, copy by copy.
Waits(B, i) == {m \in DOMAIN B : m.id = i}
InLine(i) == Pile(inbox, Waits(inbox, i))

LEMMA WaitingIs ==
  ASSUME NEW i
  PROVE  Waiting(i) = Cardinality(InLine(i)) /\ Waiting(i)' = Cardinality(InLine(i)')
BY DEF Waiting, InLine, Pile, Waits, BagToSet

LEMMA DeliveriesCounted ==
  ASSUME Sound, NEW i, IsFiniteSet(InLine(i))
  PROVE  /\ Copies(i, held) \in Nat /\ Copies(i, delivered) \in Nat /\ Waiting(i) \in Nat
         /\ Deliveries(i) \in Nat
         /\ Deliveries(i) = Copies(i, held) + Copies(i, delivered) + Waiting(i)
<1>1. Copies(i, held) \in Nat /\ Copies(i, delivered) \in Nat
  BY BagValue DEF Sound, Typed, SidesTyped
<1>2. Waiting(i) \in Nat
  BY WaitingIs, FS_CardinalityType
<1>3. QED
  BY <1>1, <1>2 DEF Deliveries

\* Bag C is bag B and one copy more of message z.
LEMMA OneMoreWaits ==
  ASSUME NEW B \in BagsOf(Messages), NEW C \in BagsOf(Messages), NEW z,
         \A x : Copies(x, C) = Copies(x, B) + IF x = z THEN 1 ELSE 0
  PROVE  /\ \E y : /\ Pile(C, Waits(C, z.id)) = Pile(B, Waits(B, z.id)) \cup {y}
                   /\ y \notin Pile(B, Waits(B, z.id))
         /\ \A i : i # z.id => Pile(C, Waits(C, i)) = Pile(B, Waits(B, i))
<1>1. \A x : /\ Copies(x, B) \in Nat /\ Copies(x, C) \in Nat
             /\ x \in DOMAIN B <=> Copies(x, B) > 0
             /\ x \in DOMAIN C <=> Copies(x, C) > 0
  BY BagValue
<1>2. /\ \A x : x # z => Copies(x, C) = Copies(x, B)
      /\ Copies(z, C) = Copies(z, B) + 1
  BY <1>1
<1>3. /\ \A i : Waits(B, i) \in SUBSET DOMAIN B /\ Waits(C, i) \in SUBSET DOMAIN C
      /\ Waits(C, z.id) = Waits(B, z.id) \cup {z}
      /\ z \in DOMAIN B => z \in Waits(B, z.id)
      /\ \A i : i # z.id => Waits(C, i) = Waits(B, i)
  BY <1>1, <1>2 DEF Waits
<1>4. /\ Pile(C, Waits(C, z.id)) = Pile(B, Waits(B, z.id)) \cup {<<z, Copies(z, C)>>}
      /\ <<z, Copies(z, C)>> \notin Pile(B, Waits(B, z.id))
  BY <1>3, PileAdds
<1>5. ASSUME NEW i, i # z.id
      PROVE  Pile(C, Waits(C, i)) = Pile(B, Waits(B, i))
  <2>1. \A x \in Waits(B, i) : x # z
    BY <1>5 DEF Waits
  <2>2. \A x \in Waits(B, i) : Copies(x, C) <= Copies(x, B) /\ Copies(x, B) <= Copies(x, C)
    BY <1>1, <1>2, <2>1
  <2>3. Waits(C, i) = Waits(B, i) /\ Waits(B, i) \subseteq Waits(B, i)
    BY <1>3, <1>5
  <2>4. Pile(C, Waits(C, i)) \subseteq Pile(B, Waits(B, i))
    BY <1>3, <2>2, <2>3, PileShrinks
  <2>5. Pile(B, Waits(B, i)) \subseteq Pile(C, Waits(C, i))
    BY <1>3, <2>2, <2>3, PileShrinks
  <2>6. QED
    BY <2>4, <2>5
<1>6. QED
  BY <1>4, <1>5

-----------------------------------------------------------------------------
\* What a step makes of the number of times a message was taken.
LEMMA NothingSent ==
  ASSUME UNCHANGED <<inbox, held, delivered>>
  PROVE  \A i : InLine(i)' = InLine(i) /\ Deliveries(i)' = Deliveries(i)
BY DEF InLine, Pile, Waits, Deliveries, Waiting, Copies, BagIn, BagToSet

LEMMA OneSent ==
  ASSUME Sound, Sound', UNCHANGED <<held, delivered>>, NEW z \in Messages,
         inbox' = inbox (+) SetToBag({z}), \A i \in Ids : IsFiniteSet(InLine(i)), NEW i \in Ids
  PROVE  /\ IsFiniteSet(InLine(i)')
         /\ Deliveries(i)' = Deliveries(i) + IF i = z.id THEN 1 ELSE 0
<1>1. inbox \in BagsOf(Messages) /\ inbox' \in BagsOf(Messages)
  BY DEF Sound, Typed, GraphTyped
<1>2. \A x : Copies(x, inbox') = Copies(x, inbox) + IF x = z THEN 1 ELSE 0
  <2>1. \A x : Copies(x, inbox (+) SetToBag({z})) = Copies(x, inbox) + IF x = z THEN 1 ELSE 0
    BY <1>1, AddOne
  <2>2. QED
    BY <2>1
<1>3. /\ \E y : InLine(z.id)' = InLine(z.id) \cup {y} /\ y \notin InLine(z.id)
      /\ \A j : j # z.id => InLine(j)' = InLine(j)
  <2> DEFINE Line(B, j) == Pile(B, Waits(B, j))
  <2>1. /\ \E y : Line(inbox', z.id) = Line(inbox, z.id) \cup {y} /\ y \notin Line(inbox, z.id)
        /\ \A j : j # z.id => Line(inbox', j) = Line(inbox, j)
    <3>1. PICK B, C : B = inbox /\ C = inbox'
      OBVIOUS
    <3>2. B \in BagsOf(Messages) /\ C \in BagsOf(Messages)
      BY <1>1, <3>1
    <3>3. \A x : Copies(x, C) = Copies(x, B) + IF x = z THEN 1 ELSE 0
      BY <1>2, <3>1
    <3>4. /\ \E y : Line(C, z.id) = Line(B, z.id) \cup {y} /\ y \notin Line(B, z.id)
          /\ \A j : j # z.id => Line(C, j) = Line(B, j)
      BY <3>2, <3>3, OneMoreWaits
    <3> HIDE DEF Line
    <3>5. QED
      BY <3>1, <3>4
  <2>2. \A j : InLine(j) = Line(inbox, j) /\ InLine(j)' = Line(inbox', j)
    BY DEF InLine, Pile, Waits
  <2> HIDE DEF Line
  <2>3. QED
    BY <2>1, <2>2
<1>4. IsFiniteSet(InLine(i)) /\ Cardinality(InLine(i)) \in Nat
  BY FS_CardinalityType
<1>5. /\ IsFiniteSet(InLine(i)')
      /\ Cardinality(InLine(i)') = Cardinality(InLine(i)) + IF i = z.id THEN 1 ELSE 0
  <2>1. CASE i # z.id
    BY <1>3, <1>4, <2>1
  <2>2. CASE i = z.id
    BY <1>3, <1>4, <2>2, FS_AddElement
  <2>3. QED
    BY <2>1, <2>2
<1>6. Copies(i, held') = Copies(i, held) /\ Copies(i, delivered') = Copies(i, delivered)
  OBVIOUS
<1>7. QED
  BY <1>4, <1>5, <1>6, WaitingIs, DeliveriesCounted DEF Deliveries

LEMMA OneTaken ==
  ASSUME Sound, Sound', NEW m \in DOMAIN inbox, Projects(m),
         \A i \in Ids : IsFiniteSet(InLine(i)), NEW i \in Ids
  PROVE  IsFiniteSet(InLine(i)') /\ Deliveries(i)' = Deliveries(i)
<1>1. /\ inbox \in BagsOf(Messages) /\ inbox' \in BagsOf(Messages)
      /\ held \in BagsOf(Ids) /\ delivered \in BagsOf(Ids)
  BY DEF Sound, Typed, GraphTyped, SidesTyped
<1>2. m \in Messages /\ m.id \in Ids
  <2>1. m \in Messages
    BY <1>1, BagValue
  <2>2. QED
    BY <2>1 DEF Messages
<1>3. \A x : Copies(x, inbox) = Copies(x, inbox') + IF x = m THEN 1 ELSE 0
  <2>1. \A x : Copies(x, inbox (-) SetToBag({m})) = Copies(x, inbox) - IF x = m THEN 1 ELSE 0
    BY <1>1, TakeOne
  <2>2. \A x : Copies(x, inbox) \in Nat
    BY <1>1, BagValue
  <2>3. inbox' = inbox (-) SetToBag({m})
    BY DEF Projects
  <2>4. \A x : Copies(x, inbox') = Copies(x, inbox) - IF x = m THEN 1 ELSE 0
    BY <2>1, <2>3
  <2>5. QED
    BY <2>2, <2>4
<1>4. /\ \E y : InLine(m.id) = InLine(m.id)' \cup {y} /\ y \notin InLine(m.id)'
      /\ \A j : j # m.id => InLine(j) = InLine(j)'
  <2> DEFINE Line(B, j) == Pile(B, Waits(B, j))
  <2>1. /\ \E y : Line(inbox, m.id) = Line(inbox', m.id) \cup {y} /\ y \notin Line(inbox', m.id)
        /\ \A j : j # m.id => Line(inbox, j) = Line(inbox', j)
    <3>1. PICK B, C, z : B = inbox' /\ C = inbox /\ z = m
      OBVIOUS
    <3>2. B \in BagsOf(Messages) /\ C \in BagsOf(Messages) /\ z \in Messages
      BY <1>1, <1>2, <3>1
    <3>3. \A x : Copies(x, C) = Copies(x, B) + IF x = z THEN 1 ELSE 0
      BY <1>3, <3>1
    <3>4. /\ \E y : Line(C, z.id) = Line(B, z.id) \cup {y} /\ y \notin Line(B, z.id)
          /\ \A j : j # z.id => Line(C, j) = Line(B, j)
      BY <3>2, <3>3, OneMoreWaits
    <3> HIDE DEF Line
    <3>5. QED
      BY <3>1, <3>4
  <2>2. \A j : InLine(j) = Line(inbox, j) /\ InLine(j)' = Line(inbox', j)
    BY DEF InLine, Pile, Waits
  <2> HIDE DEF Line
  <2>3. QED
    BY <2>1, <2>2
<1>5. IsFiniteSet(InLine(i)) /\ IsFiniteSet(InLine(i)')
  <2>1. InLine(i)' \subseteq InLine(i)
    BY <1>4
  <2>2. QED
    BY <2>1, FS_Subset
<1>6. /\ Cardinality(InLine(i)) = Cardinality(InLine(i)') + IF i = m.id THEN 1 ELSE 0
      /\ Cardinality(InLine(i)') \in Nat
  <2>1. CASE i # m.id
    BY <1>4, <1>5, <2>1, FS_CardinalityType
  <2>2. CASE i = m.id
    BY <1>4, <1>5, <2>2, FS_AddElement, FS_CardinalityType
  <2>3. QED
    BY <2>1, <2>2
<1>7. Copies(i, held') + Copies(i, delivered') =
        Copies(i, held) + Copies(i, delivered) + IF i = m.id THEN 1 ELSE 0
  <2>1. /\ Copies(i, held (+) SetToBag({m.id})) = Copies(i, held) + IF i = m.id THEN 1 ELSE 0
        /\ Copies(i, delivered (+) SetToBag({m.id})) = Copies(i, delivered) + IF i = m.id THEN 1 ELSE 0
    BY <1>1, <1>2, AddOne
  <2>2. Copies(i, held) \in Nat /\ Copies(i, delivered) \in Nat
    BY <1>1, BagValue
  <2>3. CASE held' = held (+) SetToBag({m.id}) /\ delivered' = delivered
    BY <2>1, <2>2, <2>3
  <2>4. CASE delivered' = delivered (+) SetToBag({m.id}) /\ held' = held
    BY <2>1, <2>2, <2>4
  <2>5. QED
    BY <2>3, <2>4 DEF Projects
<1>8. /\ Copies(i, held) \in Nat /\ Copies(i, delivered) \in Nat
      /\ Copies(i, held') \in Nat /\ Copies(i, delivered') \in Nat
      /\ Waiting(i) = Cardinality(InLine(i)) /\ Waiting(i)' = Cardinality(InLine(i)')
  <2>1. held' \in BagsOf(Ids) /\ delivered' \in BagsOf(Ids)
    BY DEF Sound, Typed, SidesTyped
  <2>2. QED
    BY <1>1, <2>1, BagValue, WaitingIs
<1>9. Deliveries(i)' = Copies(i, held') + Copies(i, delivered') + Waiting(i)'
  BY DEF Deliveries
<1>10. QED
  BY <1>5, <1>6, <1>7, <1>8, <1>9 DEF Deliveries

LEMMA AllFlushed ==
  ASSUME Sound, inbox' = inbox, delivered' = delivered (+) held, held' = EmptyBag,
         NEW i \in Ids, IsFiniteSet(InLine(i))
  PROVE  IsFiniteSet(InLine(i)') /\ Deliveries(i)' = Deliveries(i)
<1>1. held \in BagsOf(Ids) /\ delivered \in BagsOf(Ids)
  BY DEF Sound, Typed, SidesTyped
<1>2. /\ Copies(i, delivered (+) held) = Copies(i, delivered) + Copies(i, held)
      /\ Copies(i, EmptyBag) = 0
      /\ Copies(i, held) \in Nat /\ Copies(i, delivered) \in Nat
  <2>1. Copies(i, delivered (+) held) = Copies(i, delivered) + Copies(i, held)
    BY <1>1, JoinBags
  <2>2. Copies(i, EmptyBag) = 0
    BY EmptyBagOf
  <2>3. QED
    BY <1>1, <2>1, <2>2, BagValue
<1>3. InLine(i)' = InLine(i) /\ Waiting(i)' = Waiting(i) /\ Waiting(i) \in Nat
  BY WaitingIs, FS_CardinalityType DEF InLine, Pile, Waits
<1>4. Copies(i, held') = 0 /\ Copies(i, delivered') = Copies(i, delivered) + Copies(i, held)
  BY <1>2
<1>5. Deliveries(i)' = Copies(i, held') + Copies(i, delivered') + Waiting(i)'
  BY DEF Deliveries
<1>6. QED
  BY <1>2, <1>3, <1>4, <1>5 DEF Deliveries

-----------------------------------------------------------------------------
\* What a replay has still to write was neither written by it nor is known to
\* its caller, once each; what a caller knows reached comms.
ReplayFits(a) ==
  /\ known[a] \subseteq Held("comms")
  /\ call[a].op = "replay" =>
       /\ call[a].done \subseteq Held("comms")
       /\ \A x, y \in call[a].todo : x[1] = y[1] => x = y
       /\ \A x \in call[a].todo : x[1] \notin call[a].done \cup known[a]

\* The agents that replayed a message, in a call that is over or in this one.
Replayed(a, i) == i \in known[a] \/ (call[a].op = "replay" /\ i \in call[a].done)
Replayers(i) == {a \in Agents : Replayed(a, i)}

\* A message that was not kept as a fallback is taken once at most; one that
\* was, once for each agent that replayed it.
TakenCounted(i) ==
  /\ IsFiniteSet(InLine(i))
  /\ Deliveries(i) > 0 => i < fresh
  /\ i \notin Held("ops") => Deliveries(i) <= 1
  /\ i \in Held("ops") => Deliveries(i) <= Cardinality(Replayers(i)) \/ ReplayFailed

Recounted == (\A a \in Agents : ReplayFits(a)) /\ \A i \in Ids : TakenCounted(i)

LEMMA ReplayersAreAgents ==
  \A i : /\ Replayers(i) \in SUBSET Agents /\ IsFiniteSet(Replayers(i))
         /\ Cardinality(Replayers(i)) \in Nat
<1>1. IsFiniteSet(Agents)
  BY AgentCallsAssumption
<1>2. \A i : Replayers(i) \in SUBSET Agents
  BY DEF Replayers
<1>3. QED
  BY <1>1, <1>2, FS_Subset, FS_CardinalityType

\* The fallbacks grow by new nodes only.
LEMMA OpsGrow ==
  ASSUME Sound, Sound', Grows
  PROVE  /\ fresh \in Nat /\ fresh' \in Nat /\ fresh <= fresh'
         /\ Held("comms") \subseteq Held("comms")' /\ Held("ops") \subseteq Held("ops")'
         /\ \A i \in Held("ops")' : i \in Held("ops") \/ i = fresh
         /\ ReplayFailed => ReplayFailed'
<1>1. "comms" \in Bridges /\ "ops" \in Bridges /\ fresh \in Nat /\ fresh' \in Nat
  BY AgentCallsAssumption DEF Bridges, Sound, Typed, GraphTyped
<1>2. /\ fresh <= fresh' /\ \A b \in Bridges : Held(b) \subseteq Held(b)' /\ gone'[b] \subseteq Held(b)
      /\ \A i \in In("ops")' \ In("ops") : i = fresh
      /\ returned \subseteq returned'
  BY <1>1 DEF Grows
<1>3. \A i \in Held("ops")' : i \in Held("ops") \/ i = fresh
  BY <1>1, <1>2 DEF Held
<1>4. ReplayFailed => ReplayFailed'
  BY <1>2 DEF ReplayFailed
<1>5. QED
  BY <1>1, <1>2, <1>3, <1>4

LEMMA CountStays ==
  ASSUME Sound, Sound', Grows, NEW i \in Ids, TakenCounted(i),
         IsFiniteSet(InLine(i)'), Deliveries(i)' = Deliveries(i),
         Replayers(i) \subseteq Replayers(i)' \/ ReplayFailed'
  PROVE  TakenCounted(i)'
<1>1. /\ fresh \in Nat /\ fresh' \in Nat /\ fresh <= fresh' /\ i \in Nat
      /\ Held("ops") \subseteq Held("ops")'
      /\ \A j \in Held("ops")' : j \in Held("ops") \/ j = fresh
      /\ ReplayFailed => ReplayFailed'
  BY OpsGrow, IdsAreNaturals DEF Sound, Typed, GraphTyped
<1>2. Deliveries(i) \in Nat
  BY DeliveriesCounted DEF TakenCounted
<1>3. ASSUME i \in Held("ops")', ~ ReplayFailed'
      PROVE  Deliveries(i)' <= Cardinality(Replayers(i)')
  <2>1. Replayers(i)' \in SUBSET Agents /\ IsFiniteSet(Replayers(i)') /\ Cardinality(Replayers(i)') \in Nat
    <3>1. IsFiniteSet(Agents) /\ Replayers(i)' \in SUBSET Agents
      BY AgentCallsAssumption DEF Replayers
    <3>2. QED
      BY <3>1, FS_Subset, FS_CardinalityType
  <2>2. Cardinality(Replayers(i)) \in Nat /\ Cardinality(Replayers(i)) <= Cardinality(Replayers(i)')
    BY <1>3, <2>1, ReplayersAreAgents, FS_Subset
  <2>3. CASE i \in Held("ops")
    BY <1>1, <1>2, <1>3, <2>1, <2>2, <2>3 DEF TakenCounted
  <2>4. CASE i = fresh
    BY <1>1, <1>2, <2>1, <2>4 DEF TakenCounted
  <2>5. QED
    BY <1>1, <1>3, <2>3, <2>4
<1>4. Deliveries(i)' > 0 => i < fresh'
  BY <1>1, <1>2 DEF TakenCounted
<1>5. i \notin Held("ops")' => Deliveries(i)' <= 1
  BY <1>1 DEF TakenCounted
<1>6. QED
  BY <1>3, <1>4, <1>5 DEF TakenCounted

LEMMA FitsStay ==
  ASSUME Sound, Sound', Grows, NEW a \in Agents, ReplayFits(a), known'[a] = known[a], call'[a] = call[a]
  PROVE  ReplayFits(a)'
BY OpsGrow DEF ReplayFits

LEMMA SameReplayers ==
  ASSUME Sound, NEW i, known' = known,
         \A a \in Agents : \/ call'[a] = call[a]
                          \/ (call[a].op # "replay" /\ call'[a].op # "replay")
  PROVE  Replayers(i)' = Replayers(i)
<1>1. \A a \in Agents : Replayed(a, i)' <=> Replayed(a, i)
  <2>1. SUFFICES ASSUME NEW a \in Agents PROVE Replayed(a, i)' <=> Replayed(a, i)
    OBVIOUS
  <2>2. CASE call'[a] = call[a]
    BY <2>2 DEF Replayed
  <2>3. CASE call[a].op # "replay" /\ call'[a].op # "replay"
    BY <2>3 DEF Replayed
  <2>4. QED
    BY <2>2, <2>3
<1>2. QED
  BY <1>1 DEF Replayers

\* A call that is not a replay sends a message it just made, or nothing.
LEMMA OtherCounts ==
  ASSUME Sound, Sound', Grows, Recounted, NEW a \in Agents, NEW f, f # "replay", AgentEffect(a, f)
  PROVE  Recounted'
<1>1. /\ UNCHANGED <<gone, held, delivered>> /\ known' = known /\ GraphEffect(a, f)
      /\ {call[a].op, call'[a].op} \subseteq {"idle", f}
      /\ \A d \in Agents \ {a} : call'[d] = call[d]
  BY DEF AgentEffect, StepOf
<1>2. \A d \in Agents : call'[d] = call[d] \/ (call[d].op # "replay" /\ call'[d].op # "replay")
  <2>1. call[a].op # "replay" /\ call'[a].op # "replay"
    BY <1>1
  <2>2. QED
    BY <1>1, <2>1
<1>3. \A d \in Agents : ReplayFits(d)'
  <2>1. SUFFICES ASSUME NEW d \in Agents PROVE ReplayFits(d)'
    OBVIOUS
  <2>2. ReplayFits(d) /\ known'[d] = known[d]
    BY <1>1 DEF Recounted
  <2>3. CASE call'[d] = call[d]
    BY <2>2, <2>3, FitsStay
  <2>4. CASE call'[d].op # "replay"
    BY <2>2, <2>4, OpsGrow DEF ReplayFits
  <2>5. QED
    BY <1>2, <2>3, <2>4
<1>4. \A i \in Ids : Replayers(i)' = Replayers(i) /\ TakenCounted(i) /\ IsFiniteSet(InLine(i))
  BY <1>1, <1>2, SameReplayers DEF Recounted, TakenCounted
<1>5. ASSUME inbox' = inbox
      PROVE  \A i \in Ids : TakenCounted(i)'
  <2>1. \A i \in Ids : IsFiniteSet(InLine(i)') /\ Deliveries(i)' = Deliveries(i)
    BY <1>1, <1>4, <1>5, NothingSent
  <2>2. QED
    BY <1>4, <2>1, CountStays
<1>6. ASSUME NEW n \in Node, Made("comms", n), IsMessage(n)
      PROVE  \A i \in Ids : TakenCounted(i)'
  <2> DEFINE z == [id |-> fresh, content |-> n.content]
  <2>1. z \in Messages /\ inbox' = inbox (+) SetToBag({z}) /\ z.id = fresh /\ fresh' = fresh + 1
    BY <1>6 DEF Made, Messages, Node
  <2> HIDE DEF z
  <2>2. \A i \in Ids : /\ IsFiniteSet(InLine(i)')
                       /\ Deliveries(i)' = Deliveries(i) + IF i = fresh THEN 1 ELSE 0
    BY <1>1, <1>4, <2>1, OneSent
  <2>3. SUFFICES ASSUME NEW i \in Ids PROVE TakenCounted(i)'
    OBVIOUS
  <2>4. /\ TakenCounted(i) /\ Deliveries(i) \in Nat /\ i \in Nat /\ fresh \in Nat
    BY <1>4, OpsGrow, DeliveriesCounted, IdsAreNaturals DEF Sound, Typed, GraphTyped
  <2>5. CASE i = fresh
    <3>1. Deliveries(i)' = 1
      BY <2>2, <2>4, <2>5 DEF TakenCounted
    <3>2. i \notin Held("ops")'
      <4>1. In("ops")' = In("ops")
        BY <1>6 DEF Made, NodeIsNow, In, Bridges
      <4>2. Held("ops")' = Held("ops")
        BY <1>1, <4>1 DEF Held
      <4>3. fresh \notin Held("ops")
        BY <2>4 DEF Sound, Grounded, Bridges
      <4>4. QED
        BY <2>5, <4>2, <4>3
    <3>3. QED
      BY <2>1, <2>2, <2>4, <2>5, <3>1, <3>2 DEF TakenCounted
  <2>6. CASE i # fresh
    <3>1. IsFiniteSet(InLine(i)') /\ Deliveries(i)' = Deliveries(i)
      BY <2>2, <2>4, <2>6
    <3>2. QED
      BY <1>4, <2>4, <3>1, CountStays
  <2>7. QED
    BY <2>5, <2>6
<1>7. inbox' = inbox \/ \E n \in Node : Made("comms", n) /\ IsMessage(n)
  BY <1>1 DEF GraphEffect, Still, Made, Tied
<1>8. QED
  BY <1>3, <1>5, <1>6, <1>7 DEF Recounted

\* A replay sends a message once more, in the name of an agent that had not.
LEMMA ReplayCounts ==
  ASSUME Sound, Sound', Grows, Recounted, NEW a \in Agents, AgentEffect(a, "replay")
  PROVE  Recounted'
<1>1. /\ UNCHANGED <<gone, held, delivered>> /\ ReplayEffect(a)
      /\ \A d \in Agents \ {a} : call'[d] = call[d]
      /\ call \in [Agents -> Calls] /\ call' \in [Agents -> Calls]
      /\ known \in [Agents -> SUBSET Ids]
  BY ReplayEffects DEF AgentEffect, StepOf, Sound, Typed, SidesTyped
<1>2. \A d \in Agents \ {a} : known'[d] = known[d]
  BY <1>1 DEF ReplayEffect
<1>3. \A d \in Agents \ {a} : ReplayFits(d)' /\ \A i : Replayed(d, i)' <=> Replayed(d, i)
  <2>1. \A d \in Agents \ {a} : ReplayFits(d)'
    BY <1>1, <1>2, FitsStay DEF Recounted
  <2>2. \A d \in Agents \ {a} : \A i : Replayed(d, i)' <=> Replayed(d, i)
    BY <1>1, <1>2 DEF Replayed
  <2>3. QED
    BY <2>1, <2>2
<1>4. /\ ReplayFits(a) /\ TodoHeld(a) /\ Held("comms") \subseteq Held("comms")'
      /\ \A i \in Ids : TakenCounted(i) /\ IsFiniteSet(InLine(i))
  BY OpsGrow DEF Recounted, Sound, TakenCounted
<1>5. ASSUME inbox' = inbox, (\A i : Replayed(a, i) => Replayed(a, i)') \/ ReplayFailed', ReplayFits(a)'
      PROVE  Recounted'
  <2>1. \A i \in Ids : IsFiniteSet(InLine(i)') /\ Deliveries(i)' = Deliveries(i)
    BY <1>1, <1>4, <1>5, NothingSent
  <2>2. \A i : Replayers(i) \subseteq Replayers(i)' \/ ReplayFailed'
    BY <1>3, <1>5 DEF Replayers
  <2>3. \A i \in Ids : TakenCounted(i)'
    BY <1>4, <2>1, <2>2, CountStays
  <2>4. QED
    BY <1>3, <1>5, <2>3 DEF Recounted
<1>6. CASE /\ call[a].op = "idle" /\ Still /\ known' = known
           /\ call'[a].op = "replay" /\ call'[a].done = {}
           /\ call'[a].todo = {<<i, nodes["ops"][i]>> : i \in Candidates(a)}
  <2>1. \A i \in Candidates(a) : i \notin known[a]
    BY DEF Candidates
  <2>2. ReplayFits(a)'
    BY <1>4, <1>6, <2>1 DEF ReplayFits
  <2>3. \A i : Replayed(a, i) => Replayed(a, i)'
    <3>1. call[a].op # "replay" /\ known'[a] = known[a]
      BY <1>6
    <3>2. QED
      BY <3>1 DEF Replayed
  <2>4. QED
    BY <1>5, <1>6, <2>2, <2>3 DEF Still
<1>7. CASE call[a].op = "replay" /\ Still /\ known' = known /\ call'[a].op = "idle" /\ ReplayFailed'
  <2>1. ReplayFits(a)'
    BY <1>4, <1>7 DEF ReplayFits
  <2>2. QED
    BY <1>5, <1>7, <2>1 DEF Still
<1>8. CASE /\ call[a].op = "replay" /\ Still /\ call'[a].op = "idle"
           /\ known' = [known EXCEPT ![a] = @ \cup call[a].done]
  <2>1. known'[a] = known[a] \cup call[a].done
    BY <1>1, <1>8
  <2>2. ReplayFits(a)'
    BY <1>4, <1>8, <2>1 DEF ReplayFits
  <2>3. \A i : Replayed(a, i) => Replayed(a, i)'
    <3>1. \A i : Replayed(a, i) => i \in known'[a]
      BY <2>1 DEF Replayed
    <3>2. QED
      BY <3>1 DEF Replayed
  <2>4. QED
    BY <1>5, <1>8, <2>2, <2>3 DEF Still
<1>9. ASSUME call[a].op = "replay", known' = known,
             NEW x \in call[a].todo, NEW n \in Node, Rewrote(x[1], n),
             call'[a].op = "replay", call'[a].todo = call[a].todo \ {x},
             call'[a].done = call[a].done \cup {x[1]}
      PROVE  Recounted'
  <2> DEFINE z == [id |-> x[1], content |-> n.content]
  <2>1. /\ x[1] \in Ids /\ x[1] \in Held("ops") /\ x[1] < fresh /\ fresh' = fresh
        /\ In("comms")' = In("comms") \cup {x[1]} /\ z \in Messages /\ z.id = x[1]
        /\ inbox' = inbox (+) SetToBag({z})
    BY <1>4, <1>9 DEF TodoHeld, Rewrote, NodeIsNow, Messages, Node
  <2> HIDE DEF z
  <2>2. ReplayFits(a)'
    <3>1. x[1] \in Held("comms")'
      BY <2>1 DEF Held
    <3>2. \A y \in call'[a].todo : y[1] # x[1]
      BY <1>4, <1>9 DEF ReplayFits
    <3>3. QED
      BY <1>4, <1>9, <3>1, <3>2 DEF ReplayFits
  <2>3. \A i \in Ids : /\ IsFiniteSet(InLine(i)')
                       /\ Deliveries(i)' = Deliveries(i) + IF i = x[1] THEN 1 ELSE 0
    BY <1>1, <1>4, <2>1, OneSent
  <2>4. /\ ~ Replayed(a, x[1]) /\ Replayed(a, x[1])'
        /\ \A i : i # x[1] => (Replayed(a, i)' <=> Replayed(a, i))
    BY <1>4, <1>9 DEF Replayed, ReplayFits
  <2>5. /\ Replayers(x[1])' = Replayers(x[1]) \cup {a} /\ a \notin Replayers(x[1])
        /\ \A i : i # x[1] => Replayers(i)' = Replayers(i)
    BY <1>3, <2>4 DEF Replayers
  <2>6. ASSUME NEW i \in Ids, i # x[1]
        PROVE  TakenCounted(i)'
    <3>1. Deliveries(i) \in Nat /\ TakenCounted(i)
      BY <1>4, DeliveriesCounted
    <3>2. IsFiniteSet(InLine(i)') /\ Deliveries(i)' = Deliveries(i)
      BY <2>3, <2>6, <3>1
    <3>3. QED
      BY <2>5, <2>6, <3>1, <3>2, CountStays
  <2>7. TakenCounted(x[1])'
    <3>1. Deliveries(x[1]) \in Nat /\ TakenCounted(x[1]) /\ IsFiniteSet(InLine(x[1])')
      BY <1>4, <2>1, <2>3, DeliveriesCounted
    <3>2. Deliveries(x[1])' = Deliveries(x[1]) + 1
      BY <2>1, <2>3
    <3>3. /\ Cardinality(Replayers(x[1])') = Cardinality(Replayers(x[1])) + 1
          /\ Cardinality(Replayers(x[1])) \in Nat
      BY <2>5, ReplayersAreAgents, FS_AddElement
    <3>4. x[1] \in Held("ops")' /\ (ReplayFailed => ReplayFailed')
      BY <2>1, OpsGrow
    <3>5. QED
      BY <2>1, <3>1, <3>2, <3>3, <3>4 DEF TakenCounted
  <2>8. QED
    BY <1>3, <2>2, <2>6, <2>7 DEF Recounted
<1>10. QED
  BY <1>1, <1>6, <1>7, <1>8, <1>9 DEF ReplayEffect

LEMMA RecountStarts ==
  ASSUME Start
  PROVE  Recounted
<1>1. Sound
  BY StartSound
<1>2. /\ \A a \in Agents : known[a] = {} /\ call[a].op = "idle"
      /\ inbox = EmptyBag /\ held = EmptyBag /\ delivered = EmptyBag
  BY DEF Start, Init, CommsInit, Idle
<1>3. ASSUME NEW i
      PROVE  IsFiniteSet(InLine(i)) /\ Deliveries(i) = 0
  <2>1. DOMAIN EmptyBag = {} /\ Copies(i, EmptyBag) = 0
    BY EmptyBagOf
  <2>2. InLine(i) = {}
    BY <1>2, <2>1 DEF InLine, Pile, Waits
  <2>3. IsFiniteSet(InLine(i)) /\ Waiting(i) = 0
    BY <2>2, WaitingIs, FS_EmptySet
  <2>4. QED
    BY <1>2, <2>1, <2>3 DEF Deliveries
<1>4. \A i \in Ids : TakenCounted(i)
  BY <1>3, ReplayersAreAgents DEF TakenCounted
<1>5. QED
  BY <1>2, <1>4 DEF Recounted, ReplayFits

\* What moves no copy out of the projection's hands and changes no call.
LEMMA AsideCounts ==
  ASSUME Sound, Sound', Grows, Recounted, UNCHANGED <<call, known>>,
         \A i \in Ids : IsFiniteSet(InLine(i)') /\ Deliveries(i)' = Deliveries(i)
  PROVE  Recounted'
<1>1. \A a \in Agents : ReplayFits(a)'
  BY FitsStay DEF Recounted
<1>2. \A i : Replayers(i)' = Replayers(i)
  BY SameReplayers
<1>3. \A i \in Ids : TakenCounted(i)'
  BY <1>2, CountStays DEF Recounted
<1>4. QED
  BY <1>1, <1>3 DEF Recounted

LEMMA RecountKept ==
  ASSUME Sound, Recounted, [Next]_vars
  PROVE  Recounted'
<1>1. Grows /\ Sound' /\ \A i \in Ids : IsFiniteSet(InLine(i))
  BY EveryStep DEF Recounted, TakenCounted
<1>2. ASSUME UNCHANGED <<inbox, held, delivered, call, known>>
      PROVE  Recounted'
  <2>1. \A i \in Ids : IsFiniteSet(InLine(i)') /\ Deliveries(i)' = Deliveries(i)
    BY <1>1, <1>2, NothingSent
  <2>2. QED
    BY <1>1, <1>2, <2>1, AsideCounts
<1>3. CASE \E a \in Agents : AgentStep(a)
  <2>1. PICK a \in Agents : AgentStep(a)
    BY <1>3
  <2>2. PICK f : AgentEffect(a, f)
    BY <2>1, AgentSteps DEF Sound
  <2>3. CASE f = "replay"
    BY <1>1, <2>2, <2>3, ReplayCounts
  <2>4. CASE f # "replay"
    BY <1>1, <2>2, <2>4, OtherCounts
  <2>5. QED
    BY <2>3, <2>4
<1>4. CASE Delivers
  <2>1. DeliversEffect
    BY <1>4, DeliversStep
  <2>2. \A i \in Ids : IsFiniteSet(InLine(i)') /\ Deliveries(i)' = Deliveries(i)
    BY <1>1, <2>1, OneTaken, AllFlushed DEF DeliversEffect
  <2>3. QED
    BY <1>1, <2>1, <2>2, AsideCounts DEF DeliversEffect
<1>5. CASE \E b \in Bridges, i \in Ids : NodeEnds(b, i)
  BY <1>2, <1>5 DEF NodeEnds, TerminateNode, commsVars
<1>6. CASE \E r \in Regions : RegionEnds(r)
  BY <1>2, <1>6 DEF RegionEnds, TerminateRegion, commsVars
<1>7. CASE UNCHANGED vars
  BY <1>2, <1>7 DEF vars, graph, commsVars
<1>8. QED
  BY <1>3, <1>4, <1>5, <1>6, <1>7, NextCases

\* A replay of degraded messages loses and repeats nothing: an id its caller
\* will skip reached comms, and the projection takes a message twice only if two
\* agents replay or a replay stopped on an error (replay_degraded_into_comms).
THEOREM ReplaysSound == Spec => []ReplaySound
<1>1. Start => Recounted
  BY RecountStarts
<1>2. Sound /\ Recounted /\ [Next]_vars => Recounted'
  BY RecountKept
<1>3. Sound /\ Recounted => ReplaySound
  <2>1. SUFFICES ASSUME Sound, Recounted PROVE ReplaySound
    OBVIOUS
  <2>2. ReplayedArrived
    BY <2>1 DEF ReplayedArrived, Recounted, ReplayFits, Held
  <2>3. ASSUME NEW i \in Ids, Deliveries(i) > 1, ~ ReplayFailed
        PROVE  Cardinality({a \in Agents : i \in known[a] \/ call[a].op = "replay"}) > 1
    <3> DEFINE S == {a \in Agents : i \in known[a] \/ call[a].op = "replay"}
    <3>1. TakenCounted(i) /\ Deliveries(i) \in Nat
      BY <2>1, DeliveriesCounted DEF Recounted, TakenCounted
    <3>2. Deliveries(i) <= Cardinality(Replayers(i)) /\ Cardinality(Replayers(i)) \in Nat
      BY <2>3, <3>1, ReplayersAreAgents DEF TakenCounted
    <3>3. Replayers(i) \subseteq S /\ S \subseteq Agents
      BY DEF Replayers, Replayed
    <3> HIDE DEF S
    <3>4. /\ Cardinality(S) \in Nat /\ Cardinality(Replayers(i)) <= Cardinality(S)
      BY <3>3, AgentCallsAssumption, FS_Subset, FS_CardinalityType
    <3>5. Cardinality(S) > 1
      BY <2>3, <3>1, <3>2, <3>4
    <3>6. QED
      BY <3>5 DEF S
  <2>4. ReplayFailed => \E r \in returned : r.op = "replay" /\ ~ r.result.ok
    BY DEF ReplayFailed, Fails
  <2>5. DeliveredOnce
    BY <2>3, <2>4 DEF DeliveredOnce
  <2>6. QED
    BY <2>2, <2>5 DEF ReplaySound
<1>4. Start /\ [][Next]_vars /\ []Sound => []Recounted
  BY <1>1, <1>2, PTL
<1>5. QED
  BY <1>3, <1>4, SoundAlways, PTL DEF Spec, Next
=============================================================================
