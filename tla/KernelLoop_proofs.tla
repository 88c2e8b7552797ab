-------------------------- MODULE KernelLoop_proofs --------------------------
(***************************************************************************)
(* Theorems of KernelLoop, for any threshold, windows and surprises, any   *)
(* number of observations, failed persists and power failures.             *)
(*                                                                         *)
(* First a model is read back from its blob as it was written, field by    *)
(* field; then each call of the loop keeps the accounts of a model; then   *)
(* the invariant says the same of the model in memory and of each one that *)
(* a carrier in the fabric or in the snapshot holds.                       *)
(***************************************************************************)
EXTENDS KernelLoop, FiniteSetTheorems, NaturalsInduction, WellFoundedInduction, SequenceTheorems,
        TLAPS

-----------------------------------------------------------------------------
(***************************************************************************)
(* Numbers, and functions defined by recursion over them.                  *)
(***************************************************************************)
LEMMA NatsHaveLeast ==
  ASSUME NEW T \in SUBSET Nat, T # {}
  PROVE  \E n \in T : \A m \in T : n <= m
<1>1. PICK n \in T : \A m \in T : ~ (<<m, n>> \in OpToRel(<, Nat))
  BY NatLessThanWellFounded, WFMin
<1>2. \A m \in T : ~ (m < n)
  BY <1>1 DEF OpToRel
<1>3. QED
  BY <1>2

LEMMA NatSetInduction ==
  ASSUME NEW P \in SUBSET Nat, 0 \in P, \A n \in P : n + 1 \in P
  PROVE  P = Nat
<1>1. SUFFICES ASSUME Nat \ P # {}
               PROVE  FALSE
  OBVIOUS
<1>2. PICK n \in Nat \ P : \A m \in Nat \ P : n <= m
  BY <1>1, NatsHaveLeast
<1>3. n - 1 \in Nat /\ n - 1 \in P
  BY <1>2
<1>4. QED
  BY <1>2, <1>3

\* What is true at 0 and stays true up to len is true up to len.
LEMMA UpTo ==
  ASSUME NEW len \in Nat, NEW T, 0 \in T, \A n \in 1..len : n - 1 \in T => n \in T
  PROVE  \A n \in 0..len : n \in T
<1> DEFINE P == {n \in Nat : n <= len => n \in T}
<1>1. 0 \in P
  OBVIOUS
<1>2. ASSUME NEW n \in P
      PROVE  n + 1 \in P
  <2>1. n \in Nat /\ (n <= len => n \in T)
    OBVIOUS
  <2>2. n + 1 <= len => n + 1 \in 1..len /\ (n + 1) - 1 = n /\ n <= len
    BY <2>1
  <2>3. n + 1 <= len => n + 1 \in T
    BY <2>1, <2>2
  <2>4. QED
    BY <2>1, <2>3
<1> HIDE DEF P
<1>3. P = Nat
  <2>1. P \in SUBSET Nat
    BY DEF P
  <2>2. QED
    BY <1>1, <1>2, <2>1, NatSetInduction
<1>4. QED
  BY <1>3 DEF P

\* g is a value of X for each number up to len, each made by a step from the one before it.
StepsOn(X, len) == [1..len -> [X -> X]]
Follows(g, X, x, len, step) ==
  /\ g \in [0..len -> X] /\ g[0] = x
  /\ \A n \in 1..len : g[n] = step[n][g[n - 1]]

LEMMA Recursion ==
  ASSUME NEW X, NEW x \in X, NEW len \in Nat, NEW step \in StepsOn(X, len)
  PROVE  \E g : Follows(g, X, x, len, step)
<1> DEFINE Climbs(g, k) == g[0] = x /\ \A n \in 1..k : g[n] = step[n][g[n - 1]]
           T == {k \in 0..len : \E g \in [0..k -> X] : Climbs(g, k)}
<1>1. 0 \in T
  <2>1. PICK g : g = [n \in {0} |-> x]
    OBVIOUS
  <2>2. g \in [0..0 -> X] /\ Climbs(g, 0)
    BY <2>1
  <2>3. QED
    BY <2>2
<1>2. ASSUME NEW k \in 1..len, k - 1 \in T
      PROVE  k \in T
  <2>1. PICK g \in [0..(k - 1) -> X] : Climbs(g, k - 1)
    BY <1>2
  <2>2. step[k] \in [X -> X]
    BY DEF StepsOn
  <2>3. k - 1 \in 0..(k - 1) /\ g[k - 1] \in X
    OBVIOUS
  <2>10. step[k][g[k - 1]] \in X
    BY <2>2, <2>3
  <2>4. PICK h : h = [n \in 0..k |-> IF n = k THEN step[k][g[k - 1]] ELSE g[n]]
    OBVIOUS
  <2>5. h \in [0..k -> X]
    <3>1. ASSUME NEW n \in 0..k, n # k
          PROVE  g[n] \in X
      <4>1. n \in 0..(k - 1)
        BY <3>1
      <4>2. QED
        BY <4>1
    <3>2. QED
      BY <2>10, <2>4, <3>1
  <2>6. ASSUME NEW n \in 1..k
        PROVE  h[n] = step[n][h[n - 1]]
    <3>1. CASE n = k
      <4>1. n - 1 \in 0..k /\ n - 1 # k
        BY <3>1
      <4>2. h[n - 1] = g[n - 1] /\ h[n] = step[k][g[k - 1]]
        BY <2>4, <3>1, <4>1
      <4>3. QED
        BY <3>1, <4>2
    <3>2. CASE n # k
      <4>1. n \in 1..(k - 1) /\ n \in 0..k /\ n - 1 \in 0..k /\ n - 1 # k
        BY <3>2
      <4>2. h[n] = g[n] /\ h[n - 1] = g[n - 1]
        BY <2>4, <3>2, <4>1
      <4>3. QED
        BY <2>1, <4>1, <4>2
    <3>3. QED
      BY <3>1, <3>2
  <2>7. h[0] = x
    BY <2>1, <2>4
  <2>8. Climbs(h, k)
    BY <2>6, <2>7
  <2> HIDE DEF Climbs
  <2>9. QED
    BY <2>5, <2>8
<1> HIDE DEF T
<1>3. len \in T
  <2>1. \A n \in 0..len : n \in T
    BY <1>1, <1>2, UpTo
  <2>2. QED
    BY <2>1
<1>4. QED
  BY <1>3 DEF T, Follows

LEMMA TupleIsSeq ==
  ASSUME NEW len \in Nat, NEW s \in [1..len -> Nat]
  PROVE  s \in Seq(Nat) /\ Len(s) = len
OBVIOUS

LEMMA Joined ==
  ASSUME NEW X, NEW s \in Seq(X), NEW t \in Seq(X)
  PROVE  /\ s \o t \in Seq(X) /\ Len(s \o t) = Len(s) + Len(t)
         /\ Len(s) \in Nat /\ Len(t) \in Nat /\ DOMAIN (s \o t) = 1..(Len(s) + Len(t))
         /\ \A n \in 1..Len(s) : (s \o t)[n] = s[n]
         /\ \A n \in 1..Len(t) : (s \o t)[Len(s) + n] = t[n]
OBVIOUS

LEMMA EachTyped ==
  ASSUME NEW X, NEW Y, NEW s \in Seq(X), NEW t, DOMAIN t = DOMAIN s,
         t = [n \in DOMAIN s |-> t[n]], \A n \in DOMAIN s : s[n] \in X => t[n] \in Y
  PROVE  t \in Seq(Y) /\ Len(t) = Len(s)
<1>1. Len(s) \in Nat /\ DOMAIN s = 1..Len(s) /\ \A n \in 1..Len(s) : s[n] \in X
  OBVIOUS
<1>2. t \in [1..Len(s) -> Y]
  BY <1>1
<1>3. QED
  BY <1>1, <1>2

LaidOut(flat, seqs, start) ==
  /\ start \in [0..Len(seqs) -> Nat] /\ start[0] = 0 /\ start[Len(seqs)] = Len(flat)
  /\ \A n \in 1..Len(seqs) :
       /\ start[n] = start[n - 1] + Len(seqs[n]) /\ start[n] <= Len(flat)
       /\ \A m \in 1..Len(seqs[n]) : flat[start[n - 1] + m] = seqs[n][m]

LEMMA FlattenIs ==
  ASSUME NEW X, NEW seqs \in Seq(Seq(X))
  PROVE  FlattenSeq(seqs) \in Seq(X) /\ \E start : LaidOut(FlattenSeq(seqs), seqs, start)
<1> DEFINE len == Len(seqs)
           Y == Seq(X)
           Flat(g) == g = [i \in 1..len |-> IF i = 1 THEN seqs[i] ELSE g[i - 1] \o seqs[i]]
<1>1. len \in Nat /\ DOMAIN seqs = 1..len /\ \A n \in 1..len : seqs[n] \in Y
  OBVIOUS
<1>2. len = 0 => seqs = <<>>
  OBVIOUS
<1> HIDE DEF len
<1>3. \A s, t \in Y : /\ s \o t \in Y /\ Len(s) \in Nat /\ Len(t) \in Nat
                      /\ Len(s \o t) = Len(s) + Len(t)
                      /\ \A m \in 1..Len(s) : (s \o t)[m] = s[m]
                      /\ \A m \in 1..Len(t) : (s \o t)[Len(s) + m] = t[m]
  OBVIOUS
<1>4. <<>> \in Y /\ Len(<<>>) = 0 /\ \A s \in Y : <<>> \o s = s
  OBVIOUS
<1> HIDE DEF Y
<1>5. PICK step : step = [n \in 1..len |-> [t \in Y |-> t \o seqs[n]]]
  OBVIOUS
<1>6. step \in StepsOn(Y, len)
  BY <1>1, <1>3, <1>5 DEF StepsOn
<1>7. PICK g : Follows(g, Y, <<>>, len, step)
  BY <1>1, <1>4, <1>6, Recursion
<1>8. /\ g \in [0..len -> Y] /\ g[0] = <<>>
      /\ \A n \in 1..len : g[n] = g[n - 1] \o seqs[n] /\ n - 1 \in 0..len /\ n \in 0..len
  <2>1. \A n \in 1..len : n - 1 \in 0..len /\ n \in 0..len
    BY <1>1
  <2>2. QED
    BY <1>5, <1>7, <2>1 DEF Follows
<1>9. FlattenSeq(seqs) = g[len]
  <2>1. CASE len = 0
    BY <1>2, <1>8, <2>1 DEF FlattenSeq, len
  <2>2. CASE len # 0
    <3>1. \E h : Flat(h)
      <4>1. PICK h : h = [i \in 1..len |-> g[i]]
        OBVIOUS
      <4>2. ASSUME NEW i \in 1..len
            PROVE  h[i] = IF i = 1 THEN seqs[i] ELSE h[i - 1] \o seqs[i]
        <5>1. CASE i = 1
          BY <1>1, <1>4, <1>8, <4>1, <5>1
        <5>2. CASE i # 1
          <6>1. i - 1 \in 1..len
            BY <1>1, <5>2
          <6>2. QED
            BY <1>8, <4>1, <5>2, <6>1
        <5>3. QED
          BY <5>1, <5>2
      <4>3. PICK again : again = [i \in 1..len |-> IF i = 1 THEN seqs[i] ELSE h[i - 1] \o seqs[i]]
        OBVIOUS
      <4>4. h = again
        BY <4>1, <4>2, <4>3
      <4>5. QED
        BY <4>3, <4>4
    <3>2. PICK flat : flat = CHOOSE h : Flat(h)
      OBVIOUS
    <3>3. Flat(flat)
      BY <3>1, <3>2
    <3>4. FlattenSeq(seqs) = flat[len]
      BY <2>2, <3>2 DEF FlattenSeq, len
    <3>5. \A i \in 1..len : flat[i] = IF i = 1 THEN seqs[i] ELSE flat[i - 1] \o seqs[i]
      BY <3>3
    <3> HIDE DEF Flat
    <3> DEFINE T == {n \in 0..len : n # 0 => flat[n] = g[n]}
    <3>6. 0 \in T
      BY <1>1
    <3>7. ASSUME NEW n \in 1..len, n - 1 \in T
          PROVE  n \in T
      <4>1. CASE n = 1
        <5>1. 1 \in 1..len /\ 1 \in 0..len /\ 1 - 1 = 0
          BY <1>1, <4>1
        <5>2. g[1] = <<>> \o seqs[1] /\ seqs[1] \in Y
          BY <1>1, <1>8, <5>1
        <5>3. flat[1] = g[1]
          BY <1>4, <3>5, <5>1, <5>2
        <5>4. QED
          BY <4>1, <5>1, <5>3
      <4>2. CASE n # 1
        <5>1. n - 1 # 0 /\ flat[n - 1] = g[n - 1]
          BY <3>7, <4>2
        <5>2. flat[n] = g[n] /\ n \in 0..len
          BY <1>8, <3>5, <4>2, <5>1
        <5>3. QED
          BY <5>2
      <4>3. QED
        BY <4>1, <4>2
    <3> HIDE DEF T
    <3>8. \A n \in 0..len : n \in T
      BY <1>1, <3>6, <3>7, UpTo
    <3>9. len \in T
      BY <1>1, <3>8
    <3>10. flat[len] = g[len]
      BY <2>2, <3>9 DEF T
    <3>11. QED
      BY <3>4, <3>10
  <2>3. QED
    BY <2>1, <2>2
<1>10. PICK start : start = [n \in 0..len |-> Len(g[n])]
  OBVIOUS
<1>11. start \in [0..len -> Nat] /\ start[0] = 0 /\ start[len] = Len(g[len])
  <2>1. \A n \in 0..len : g[n] \in Y /\ Len(g[n]) \in Nat
    BY <1>3, <1>8
  <2>2. 0 \in 0..len /\ len \in 0..len
    BY <1>1
  <2>3. QED
    BY <1>4, <1>8, <1>10, <2>1, <2>2
<1>12. ASSUME NEW n \in 1..len
       PROVE  start[n] = start[n - 1] + Len(seqs[n])
  <2>1. g[n - 1] \in Y /\ seqs[n] \in Y /\ g[n] = g[n - 1] \o seqs[n]
    BY <1>1, <1>8
  <2>2. Len(g[n]) = Len(g[n - 1]) + Len(seqs[n])
    BY <1>3, <2>1
  <2>3. QED
    BY <1>8, <1>10, <2>2
<1> DEFINE Behind(k) == \A n \in 1..k :
             /\ start[n] <= Len(g[k])
             /\ \A m \in 1..Len(seqs[n]) : g[k][start[n - 1] + m] = seqs[n][m]
           U == {k \in 0..len : Behind(k)}
<1>13. 0 \in U
  BY <1>1
<1>14. ASSUME NEW k \in 1..len, k - 1 \in U
       PROVE  k \in U
  <2>1. PICK a, b, c : a = g[k - 1] /\ b = seqs[k] /\ c = g[k]
    OBVIOUS
  <2>2. a \in Y /\ b \in Y /\ c = a \o b
    BY <1>1, <1>8, <2>1
  <2>3. /\ Len(a) \in Nat /\ Len(b) \in Nat /\ Len(c) = Len(a) + Len(b)
        /\ \A m \in 1..Len(a) : c[m] = a[m]
        /\ \A m \in 1..Len(b) : c[Len(a) + m] = b[m]
    BY <1>3, <2>2
  <2>4. start[k - 1] = Len(a) /\ start[k] = Len(c)
    BY <1>8, <1>10, <2>1
  <2>5. \A n \in 1..(k - 1) : /\ start[n] <= Len(a)
                              /\ \A m \in 1..Len(seqs[n]) : a[start[n - 1] + m] = seqs[n][m]
    BY <1>14, <2>1
  <2>6. ASSUME NEW n \in 1..k
        PROVE  /\ start[n] <= Len(c)
               /\ \A m \in 1..Len(seqs[n]) : c[start[n - 1] + m] = seqs[n][m]
    <3>1. CASE n = k
      <4>1. start[n] = Len(c) /\ start[n - 1] = Len(a) /\ seqs[n] = b
        BY <2>1, <2>4, <3>1
      <4>2. Len(c) <= Len(c)
        BY <2>3
      <4>3. \A m \in 1..Len(b) : c[Len(a) + m] = b[m]
        BY <2>3
      <4>4. QED
        BY <4>1, <4>2, <4>3
    <3>2. CASE n # k
      <4>1. n \in 1..(k - 1) /\ n \in 1..len /\ n \in 0..len /\ n - 1 \in 0..len
        BY <1>1, <3>2
      <4>2. start[n] <= Len(a)
        BY <2>5, <4>1
      <4>3. PICK u, v, l : u = start[n - 1] /\ v = start[n] /\ l = Len(seqs[n])
        OBVIOUS
      <4>4. u \in Nat /\ v \in Nat /\ v = u + l /\ l \in Nat /\ v <= Len(a)
        BY <1>1, <1>3, <1>11, <1>12, <4>1, <4>2, <4>3
      <4>5. v <= Len(c)
        BY <2>3, <4>4
      <4>6. ASSUME NEW m \in 1..l
            PROVE  c[u + m] = seqs[n][m]
        <5>1. u + m \in 1..Len(a)
          BY <2>3, <4>4
        <5>2. c[u + m] = a[u + m]
          BY <2>3, <5>1
        <5>3. QED
          BY <2>5, <4>1, <4>3, <5>2
      <4>7. QED
        BY <4>3, <4>5, <4>6
    <3>3. QED
      BY <3>1, <3>2
  <2>7. k \in 0..len
    OBVIOUS
  <2>8. QED
    BY <2>1, <2>6, <2>7
<1> HIDE DEF U
<1>15. len \in U
  <2>1. \A k \in 0..len : k \in U
    BY <1>1, <1>13, <1>14, UpTo
  <2>2. QED
    BY <1>1, <2>1
<1>16. Behind(len)
  BY <1>15 DEF U
<1>17. LaidOut(g[len], seqs, start)
  BY <1>11, <1>12, <1>16 DEF LaidOut, len
<1>18. g[len] \in Seq(X)
  <2>1. len \in 0..len
    BY <1>1
  <2>2. QED
    BY <1>8, <2>1 DEF Y
<1>19. QED
  BY <1>9, <1>17, <1>18

LEMMA NatsHaveGreatest ==
  ASSUME NEW len \in Nat, NEW S \in SUBSET 1..len, S # {}
  PROVE  \E n \in S : \A m \in S : m <= n
<1> DEFINE T == {b \in Nat : \A m \in S : m <= b}
<1>1. T \in SUBSET Nat /\ len \in T
  OBVIOUS
<1>2. PICK b \in T : \A c \in T : b <= c
  BY <1>1, NatsHaveLeast
<1>3. CASE b \in S
  BY <1>3
<1>4. CASE b \notin S
  <2>1. \A m \in S : m <= b /\ m # b /\ m \in Nat \ {0}
    BY <1>4
  <2>2. b \in Nat /\ b # 0
    <3>1. PICK m \in S : TRUE
      OBVIOUS
    <3>2. b \in Nat /\ m <= b /\ m \in Nat \ {0}
      BY <2>1
    <3>3. QED
      BY <3>2
  <2>3. b - 1 \in Nat /\ \A m \in S : m <= b - 1
    BY <2>1, <2>2
  <2>4. b - 1 \in T /\ ~ (b <= b - 1)
    BY <2>2, <2>3
  <2>5. QED
    BY <1>2, <2>4
<1>5. QED
  BY <1>3, <1>4

-----------------------------------------------------------------------------
(***************************************************************************)
(* The fields of a blob.                                                   *)
(***************************************************************************)
Labels ==
  {"known", "unknown", "help", "persist", "silence", "rendered",
   "identify", "read", "write", "flush", "wait", "ok", "timeout", "error"}
Regions == {"operator", "devices"}
MetaStates == {"learning", "calibrated", "stuck", "overfitted"}
Words == {Magic, "vblk0", "storage", "nucleation", "healthy", Nobody32} \cup Labels \cup Regions \cup MetaStates
FieldValues == Int \cup Words
Taken(rest, val) == [ok |-> TRUE, rest |-> rest, val |-> val]
Offers(r, s, rest) == r.ok /\ r.rest = s \o rest

LEMMA Flattened == ASSUME NEW seqs PROVE FlattenSeq(seqs) = FlattenSeq(seqs)
BY DEF FlattenSeq, FlattenSeq

LEMMA TakenOver ==
  ASSUME NEW rest, NEW val, NEW new
  PROVE  [Taken(rest, val) EXCEPT !.val = new] = Taken(rest, new)
<1>1. PICK t : t = [ok |-> TRUE, rest |-> rest, val |-> val]
  OBVIOUS
<1>2. PICK u, v : u = [t EXCEPT !.val = new] /\ v = [ok |-> TRUE, rest |-> rest, val |-> new]
  OBVIOUS
<1>3. u.ok = TRUE /\ u.rest = rest /\ u.val = new /\ u = [m \in {"ok", "rest", "val"} |-> u[m]]
  BY <1>1, <1>2
<1>4. v.ok = TRUE /\ v.rest = rest /\ v.val = new /\ v = [m \in {"ok", "rest", "val"} |-> v[m]]
  BY <1>2
<1>5. u = v
  BY <1>3, <1>4
<1>6. QED
  BY <1>1, <1>2, <1>5 DEF Taken

LEMMA FieldsRead ==
  ASSUME NEW X, NEW r, NEW s \in Seq(X), NEW rest \in Seq(X), Offers(r, s, rest)
  PROVE  Fields(r, Len(s)) = Taken(rest, s)
<1>1. PICK q : q = r.rest
  OBVIOUS
<1>2. q = s \o rest /\ q \in Seq(X) /\ Len(q) = Len(s) + Len(rest) /\ Len(s) \in Nat /\ Len(rest) \in Nat
  BY <1>1, Joined DEF Offers
<1>3. SubSeq(q, 1, Len(s)) = s
  <2>1. CASE Len(s) = 0
    <3>1. s = <<>> /\ SubSeq(q, 1, 0) = <<>>
      BY <2>1
    <3>2. QED
      BY <2>1, <3>1
  <2>2. CASE Len(s) # 0
    <3>1. 1 \in 1..Len(s) /\ Len(s) \in 1..Len(s)
      BY <1>2, <2>2
    <3>2. SubSeq(s \o rest, 1, Len(s)) = SubSeq(s, 1, Len(s))
      BY <3>1, SubSeqOfConcat1
    <3>3. QED
      BY <1>2, <3>2, SubSeqFull
  <2>3. QED
    BY <2>1, <2>2
<1>4. SubSeq(q, Len(s) + 1, Len(q)) = rest
  <2>1. CASE Len(rest) = 0
    <3>1. rest = <<>> /\ Len(q) < Len(s) + 1
      BY <1>2, <2>1
    <3>2. QED
      BY <1>2, <3>1, SubSeqEmpty
  <2>2. CASE Len(rest) # 0
    <3>1. Len(s) + 1 \in Len(s) + 1 .. Len(s) + Len(rest) /\ Len(q) \in Len(s) + 1 .. Len(s) + Len(rest)
      BY <1>2, <2>2
    <3>2. SubSeq(s \o rest, Len(s) + 1, Len(q)) = SubSeq(rest, Len(s) + 1 - Len(s), Len(q) - Len(s))
      BY <3>1, SubSeqOfConcat2
    <3>3. Len(s) + 1 - Len(s) = 1 /\ Len(q) - Len(s) = Len(rest)
      BY <1>2
    <3>4. SubSeq(q, Len(s) + 1, Len(q)) = SubSeq(rest, 1, Len(rest))
      BY <1>2, <3>2, <3>3
    <3>5. QED
      BY <3>4, SubSeqFull
  <2>3. QED
    BY <2>1, <2>2
<1>5. Len(s) <= Len(q)
  BY <1>2
<1>6. QED
  BY <1>1, <1>3, <1>4, <1>5 DEF Fields, Offers, Taken

LEMMA Prefixed ==
  ASSUME NEW X, NEW x \in X, NEW s \in Seq(X)
  PROVE  /\ <<x>> \o s \in Seq(X) /\ Len(<<x>> \o s) = 1 + Len(s) /\ (<<x>> \o s)[1] = x
         /\ \A m \in 1..Len(s) : (<<x>> \o s)[1 + m] = s[m]
<1>1. PICK first : first = <<x>>
  OBVIOUS
<1>2. first \in Seq(X)
  BY <1>1
<1>3. Len(first) = 1 /\ first[1] = x /\ 1 \in 1..1
  BY <1>1
<1>4. /\ first \o s \in Seq(X) /\ Len(first \o s) = Len(first) + Len(s)
      /\ \A n \in 1..Len(first) : (first \o s)[n] = first[n]
      /\ \A n \in 1..Len(s) : (first \o s)[Len(first) + n] = s[n]
  BY <1>2, Joined
<1>5. QED
  BY <1>1, <1>3, <1>4

\* A list preceded by its length.
LEMMA BlockRead ==
  ASSUME NEW r, NEW s \in Seq(FieldValues), NEW rest \in Seq(FieldValues), Offers(r, Counted(s), rest)
  PROVE  Block(r) = Taken(rest, s)
<1>1. <<Len(s)>> \in Seq(FieldValues) /\ Len(<<Len(s)>>) = 1 /\ s \o rest \in Seq(FieldValues)
  BY DEF FieldValues
<1>2. (<<Len(s)>> \o s) \o rest = <<Len(s)>> \o (s \o rest)
  BY <1>1, ConcatAssociative
<1>3. Offers(r, <<Len(s)>>, s \o rest)
  BY <1>2 DEF Offers, Counted
<1>4. Fields(r, 1) = Taken(s \o rest, <<Len(s)>>)
  BY <1>1, <1>3, FieldsRead
<1>5. Offers(Taken(s \o rest, <<Len(s)>>), s, rest)
  BY DEF Offers, Taken
<1>6. Fields(Taken(s \o rest, <<Len(s)>>), Len(s)) = Taken(rest, s)
  BY <1>5, FieldsRead
<1>7. Taken(s \o rest, <<Len(s)>>).ok /\ Taken(s \o rest, <<Len(s)>>).val[1] = Len(s)
  BY DEF Taken
<1>8. QED
  BY <1>4, <1>6, <1>7 DEF Block

\* A list of rows of one width, preceded by how many there are.
LEMMA TableRead ==
  ASSUME NEW r, NEW width \in Nat, NEW rows \in Seq(Seq(FieldValues)), NEW rest \in Seq(FieldValues),
         \A i \in DOMAIN rows : Len(rows[i]) = width, Offers(r, Table(rows), rest)
  PROVE  Rows(r, width) = Taken(rest, rows)
<1>1. PICK flat, start : flat = FlattenSeq(rows) /\ flat \in Seq(FieldValues) /\ LaidOut(flat, rows, start)
  BY FlattenIs
<1>2. PICK len : len = Len(rows) /\ len \in Nat
  OBVIOUS
<1>3. /\ DOMAIN rows = 1..len /\ (\A i \in 1..len : rows[i] \in Seq(FieldValues) /\ Len(rows[i]) = width)
      /\ start \in [0..len -> Nat] /\ start[0] = 0 /\ start[len] = Len(flat) /\ Len(flat) \in Nat
      /\ \A n \in 1..len : /\ n - 1 \in 0..len /\ n \in 0..len
                           /\ start[n] = start[n - 1] + width /\ start[n] <= Len(flat)
                           /\ \A m \in 1..width : flat[start[n - 1] + m] = rows[n][m]
  <2>1. DOMAIN rows = 1..len /\ Len(flat) \in Nat /\ \A n \in 1..len : n - 1 \in 0..len /\ n \in 0..len
    BY <1>1, <1>2
  <2>2. \A i \in 1..len : rows[i] \in Seq(FieldValues) /\ Len(rows[i]) = width
    <3>1. \A i \in 1..len : rows[i] \in Seq(FieldValues)
      BY <1>2, ElementOfSeq
    <3>2. QED
      BY <2>1, <3>1
  <2>3. QED
    BY <1>1, <1>2, <2>1, <2>2 DEF LaidOut
<1>4. \A n \in 0..len : start[n] = n * width
  <2> DEFINE T == {n \in 0..len : start[n] = n * width}
  <2>1. 0 \in T
    BY <1>2, <1>3
  <2>2. ASSUME NEW n \in 1..len, n - 1 \in T
        PROVE  n \in T
    <3>1. n \in 0..len /\ start[n - 1] = (n - 1) * width
      BY <1>3, <2>2
    <3>2. start[n] = (n - 1) * width + width
      BY <1>3, <3>1
    <3>3. (n - 1) * width + width = n * width
      BY <1>2
    <3>4. QED
      BY <3>1, <3>2, <3>3
  <2> HIDE DEF T
  <2>3. \A n \in 0..len : n \in T
    BY <1>2, <2>1, <2>2, UpTo
  <2>4. QED
    BY <2>3 DEF T
<1>5. Table(rows) = <<len>> \o flat /\ <<len>> \in Seq(FieldValues) /\ Len(<<len>>) = 1
  BY <1>1, <1>2, Flattened DEF Table, FieldValues
<1>6. PICK first : first = Taken(flat \o rest, <<len>>)
  OBVIOUS
<1>7. Fields(r, 1) = first /\ first.ok /\ first.val[1] = len
  <2>1. flat \o rest \in Seq(FieldValues) /\ (<<len>> \o flat) \o rest = <<len>> \o (flat \o rest)
    BY <1>1, <1>5, ConcatAssociative
  <2>2. Offers(r, <<len>>, flat \o rest)
    BY <1>5, <2>1 DEF Offers
  <2>3. QED
    BY <1>5, <1>6, <2>1, <2>2, FieldsRead DEF Taken
<1>8. PICK all : all = Taken(rest, flat)
  OBVIOUS
<1>9. Fields(first, len * width) = all
  <2>1. Offers(first, flat, rest)
    BY <1>6 DEF Offers, Taken
  <2>2. len * width = Len(flat)
    BY <1>2, <1>3, <1>4
  <2>3. QED
    BY <1>1, <1>8, <2>1, <2>2, FieldsRead
<1>10. PICK cut : cut = [i \in 1..len |-> SubSeq(flat, (i - 1) * width + 1, i * width)]
  OBVIOUS
<1>11. ASSUME NEW i \in 1..len
       PROVE  cut[i] = rows[i]
  <2>1. PICK a, b, row : a = start[i - 1] /\ b = start[i] /\ row = rows[i]
    OBVIOUS
  <2>2. a = (i - 1) * width /\ b = i * width
    BY <1>3, <1>4, <2>1
  <2>3. /\ a \in Nat /\ b = a + width /\ b <= Len(flat) /\ row \in Seq(FieldValues) /\ Len(row) = width
        /\ \A m \in 1..width : flat[a + m] = row[m]
    BY <1>3, <2>1
  <2>4. cut[i] = SubSeq(flat, a + 1, b)
    BY <1>10, <2>2
  <2>5. PICK piece : piece = SubSeq(flat, a + 1, b)
    OBVIOUS
  <2>6. a + 1 \in Int /\ b \in Int /\ \A m \in a + 1 .. b : flat[m] \in FieldValues
    <3>1. \A m \in a + 1 .. b : m \in 1..Len(flat)
      BY <1>3, <2>3
    <3>2. QED
      BY <1>1, <2>3, <3>1
  <2>7. /\ piece \in Seq(FieldValues) /\ Len(piece) = IF a + 1 <= b THEN b - (a + 1) + 1 ELSE 0
        /\ \A m \in 1..(b - (a + 1) + 1) : piece[m] = flat[(a + 1) + m - 1]
    BY <2>5, <2>6, SubSeqProperties
  <2>8. Len(piece) = width /\ \A m \in 1..width : piece[m] = flat[a + m]
    <3>1. b - (a + 1) + 1 = width /\ (a + 1 <= b <=> 0 < width)
      BY <2>3
    <3>2. Len(piece) = width
      BY <2>3, <2>7, <3>1
    <3>3. ASSUME NEW m \in 1..width
          PROVE  piece[m] = flat[a + m]
      <4>1. (a + 1) + m - 1 = a + m
        BY <2>3
      <4>2. m \in 1..(b - (a + 1) + 1)
        BY <3>1
      <4>3. QED
        BY <2>7, <4>1, <4>2
    <3>4. QED
      BY <3>2, <3>3
  <2>9. piece = row
    BY <2>3, <2>7, <2>8, SeqEqual
  <2>10. QED
    BY <2>1, <2>4, <2>5, <2>9
<1>12. cut = rows
  <2>1. rows = [i \in 1..len |-> rows[i]]
    BY <1>3
  <2>2. QED
    BY <1>10, <1>11, <2>1
<1>13. all.ok /\ all.val = flat /\ [all EXCEPT !.val = cut] = Taken(rest, cut)
  BY <1>8, TakenOver DEF Taken
<1>14. Rows(r, width) = [all EXCEPT !.val = cut]
  BY <1>7, <1>9, <1>10, <1>13 DEF Rows
<1>15. QED
  BY <1>12, <1>13, <1>14

-----------------------------------------------------------------------------
(***************************************************************************)
(* What a generative model consists of.                                    *)
(***************************************************************************)
Discretes(dims) == [dims : {dims}, seen : Nat]
StorageAgents == [label : {"vblk0"}, model : Discretes(<<5, 5, 5>>)]
DeviceLists == {<<>>} \cup {<<a>> : a \in StorageAgents}
Persistences ==
  [model : Discretes(<<7, 7, 6>>), persists : Nat, failedPersists : Nat, restores : Nat,
   failedRestores : Nat, threshold : {Threshold}]
OperatorRegions == [model : Discretes(<<4, 12, 5>>), intents : Nat, help : Nat, unknown : Nat]
MetaRegions == [model : Discretes(<<4, 3, 5>>), assessments : Nat, state : MetaStates]
CausalNodes == [id : Nat, label : Labels, region : Regions, observations : Nat]
CausalEdges == [cause : Nat, effect : Nat, observations : Nat]
CausalGraphs == [nodes : Seq(CausalNodes), edges : Seq(CausalEdges), next : Nat]
SurpriseEntries == [lamport : Nat, region : Regions, surprise : Nat]
Histories == [fe : Seq(Nat), surprises : Seq(SurpriseEntries)]
CountsTyped ==
  [substrate : Int, surprisability : Int, addressed : Nat, rendered : Nat, updated : Nat,
   novel : Nat]
LoopAgents ==
  [id : {0}, name : {"nucleation"}, cadence : {1}, lastTick : Nat, spawnedAt : {0},
   spawnedBy : {NobodySpawned}, state : {"healthy"}]
Registries == [agents : {<<a>> : a \in LoopAgents}, next : {1}]
Models ==
  [devices : DeviceLists, persistence : Persistences, operator : OperatorRegions,
   meta : MetaRegions, graph : CausalGraphs, hypotheses : {0}, preferences : {Preferences},
   history : Histories, lamport : Nat, boots : Nat, total : Nat, learned : Nat, risk : Nat,
   counts : CountsTyped, agents : Registries]

Dims == [1..3 -> Nat]

LEMMA DiscreteCoded ==
  ASSUME NEW dims \in Dims, NEW d \in Discretes(dims)
  PROVE  /\ EncodeDiscrete(d) \in Seq(FieldValues) /\ Len(EncodeDiscrete(d)) = 5
         /\ DecodeDiscrete(EncodeDiscrete(d)) = d
<1>1. PICK seen \in Nat : d = [dims |-> dims, seen |-> seen]
  BY DEF Discretes
<1>2. PICK c : c = EncodeDiscrete(d)
  OBVIOUS
<1>3. dims \in Seq(Nat) /\ Len(dims) = 3
  BY TupleIsSeq DEF Dims
<1>4. c = (<<1>> \o dims) \o <<seen>>
  BY <1>1, <1>2 DEF EncodeDiscrete
<1>5. PICK b : b = <<1>> \o dims
  OBVIOUS
<1>6. b \in Seq(Nat) /\ Len(b) = 4 /\ b[1] = 1 /\ \A m \in 1..3 : b[1 + m] = dims[m]
  <2>1. 1 \in Nat /\ dims \in Seq(Nat)
    BY <1>3
  <2>2. b \in Seq(Nat) /\ Len(b) = 1 + Len(dims) /\ b[1] = 1 /\ \A m \in 1..Len(dims) : b[1 + m] = dims[m]
    BY <1>5, <2>1, Prefixed
  <2>3. QED
    BY <1>3, <2>2
<1>7. c \in Seq(Nat) /\ Len(c) = 5 /\ (\A m \in 1..4 : c[m] = b[m]) /\ c[5] = seen
  <2>1. PICK e : e = <<seen>>
    OBVIOUS
  <2>2. c = b \o e /\ Len(e) = 1 /\ e[1] = seen /\ 1 \in 1..1
    BY <1>4, <1>5, <2>1
  <2>6. b \in Seq(Nat) /\ e \in Seq(Nat)
    BY <1>6, <2>1
  <2>3. /\ b \o e \in Seq(Nat) /\ Len(b \o e) = Len(b) + Len(e)
        /\ \A n \in 1..Len(b) : (b \o e)[n] = b[n]
        /\ \A n \in 1..Len(e) : (b \o e)[Len(b) + n] = e[n]
    BY <2>6, Joined
  <2>4. c \in Seq(Nat) /\ Len(c) = 4 + 1 /\ (\A m \in 1..4 : c[m] = b[m]) /\ c[4 + 1] = seen
    BY <1>6, <2>2, <2>3
  <2>5. QED
    BY <2>4
<1>8. c \in Seq(FieldValues)
  BY <1>7, SeqMonotonic DEF FieldValues
<1>9. Fields(Reading(c), 5) = Taken(<<>>, c)
  <2>1. c \o <<>> = c /\ <<>> \in Seq(FieldValues)
    BY <1>8, ConcatEmptySeq
  <2>2. Offers(Reading(c), c, <<>>)
    BY <2>1 DEF Offers, Reading
  <2>3. QED
    BY <1>7, <1>8, <2>1, <2>2, FieldsRead
<1>10. c[1] = 1 /\ c[2] = dims[1] /\ c[3] = dims[2] /\ c[4] = dims[3]
  <2>1. b[1 + 1] = dims[1] /\ b[1 + 2] = dims[2] /\ b[1 + 3] = dims[3]
    BY <1>6
  <2>2. QED
    BY <1>6, <1>7, <2>1
<1>11. SubSeq(c, 2, 4) = dims
  <2>1. PICK s : s = SubSeq(c, 2, 4)
    OBVIOUS
  <2>2. \A m \in 2..4 : c[m] \in Nat
    <3>1. \A m \in 1..Len(c) : c[m] \in Nat
      BY <1>7, ElementOfSeq
    <3>2. \A m \in 2..4 : m \in 1..Len(c)
      BY <1>7
    <3>3. QED
      BY <3>1, <3>2
  <2>3. s \in Seq(Nat) /\ Len(s) = 3 /\ \A m \in 1..3 : s[m] = c[2 + m - 1]
    <3>1. /\ SubSeq(c, 2, 4) \in Seq(Nat) /\ Len(SubSeq(c, 2, 4)) = IF 2 <= 4 THEN 4 - 2 + 1 ELSE 0
          /\ \A m \in 1..(4 - 2 + 1) : SubSeq(c, 2, 4)[m] = c[2 + m - 1]
      BY <2>2, SubSeqProperties
    <3>2. QED
      BY <2>1, <3>1
  <2>4. s[1] = dims[1] /\ s[2] = dims[2] /\ s[3] = dims[3]
    BY <1>10, <2>3
  <2>5. \A m \in 1..3 : s[m] = dims[m]
    BY <2>4
  <2>6. QED
    BY <1>3, <2>1, <2>3, <2>5, SeqEqual
<1>12. DecodeDiscrete(c) = [dims |-> dims, seen |-> seen]
  <2>1. PICK t : t = Taken(<<>>, c)
    OBVIOUS
  <2>2. t.ok = TRUE /\ t.val = c
    BY <2>1 DEF Taken
  <2>3. DecodeDiscrete(c) = [dims |-> SubSeq(t.val, 2, 4), seen |-> t.val[5]]
    BY <1>9, <1>10, <2>1, <2>2 DEF DecodeDiscrete
  <2>4. QED
    BY <1>7, <1>11, <2>2, <2>3
<1>13. QED
  BY <1>1, <1>2, <1>7, <1>8, <1>12

LEMMA DimsTyped ==
  <<5, 5, 5>> \in Dims /\ <<3, 5, 5>> \in Dims /\ <<7, 7, 6>> \in Dims /\ <<4, 12, 5>> \in Dims
  /\ <<4, 3, 5>> \in Dims
BY DEF Dims

LEMMA DeviceRestored ==
  ASSUME NEW a \in StorageAgents
  PROVE  RestoreFromBytes(StorageAgent(a.label), EncodeDiscrete(a.model)) = a
<1>1. PICK d \in Discretes(<<5, 5, 5>>) : a = [label |-> "vblk0", model |-> d]
  BY DEF StorageAgents
<1>2. DecodeDiscrete(EncodeDiscrete(a.model)) = d /\ d.dims = <<5, 5, 5>>
  BY <1>1, DiscreteCoded, DimsTyped DEF Discretes
<1>3. PICK new : new = StorageAgent(a.label)
  OBVIOUS
<1>4. new = [label |-> "vblk0", model |-> [dims |-> <<5, 5, 5>>, seen |-> 0]]
  BY <1>1, <1>3 DEF StorageAgent, Discrete
<1>5. [new EXCEPT !.model = d] = a
  BY <1>1, <1>4
<1>6. QED
  BY <1>2, <1>3, <1>4, <1>5 DEF RestoreFromBytes

LEMMA PersistenceRestored ==
  ASSUME NEW p \in Persistences
  PROVE  [RestoreFromBytes(Persistence, EncodeDiscrete(p.model)) EXCEPT
            !.persists = p.persists, !.failedPersists = p.failedPersists, !.restores = p.restores,
            !.failedRestores = p.failedRestores, !.threshold = p.threshold] = p
<1>1. PICK d \in Discretes(<<7, 7, 6>>) : d = p.model
  BY DEF Persistences
<1>2. DecodeDiscrete(EncodeDiscrete(p.model)) = d /\ d.dims = <<7, 7, 6>>
  BY <1>1, DiscreteCoded, DimsTyped DEF Discretes
<1>3. Persistence.model.dims = <<7, 7, 6>>
  BY DEF Persistence, Discrete
<1>4. RestoreFromBytes(Persistence, EncodeDiscrete(p.model)) = [Persistence EXCEPT !.model = d]
  BY <1>2, <1>3 DEF RestoreFromBytes
<1>5. [Persistence EXCEPT !.model = d] =
        [model |-> d, persists |-> 0, failedPersists |-> 0, restores |-> 0, failedRestores |-> 0,
         threshold |-> Threshold]
  BY DEF Persistence
<1>6. p = [model |-> d, persists |-> p.persists, failedPersists |-> p.failedPersists,
           restores |-> p.restores, failedRestores |-> p.failedRestores, threshold |-> p.threshold]
  BY <1>1 DEF Persistences
<1>7. PICK r : r = [Persistence EXCEPT !.model = d]
  OBVIOUS
<1>8. PICK u : u = [r EXCEPT !.persists = p.persists, !.failedPersists = p.failedPersists,
                               !.restores = p.restores, !.failedRestores = p.failedRestores,
                               !.threshold = p.threshold]
  OBVIOUS
<1>9. /\ u.model = d /\ u.persists = p.persists /\ u.failedPersists = p.failedPersists
      /\ u.restores = p.restores /\ u.failedRestores = p.failedRestores /\ u.threshold = p.threshold
      /\ u = [m \in {"model", "persists", "failedPersists",
                     "restores", "failedRestores", "threshold"} |-> u[m]]
  BY <1>5, <1>7, <1>8
<1>10. /\ p.model = d
       /\ p = [m \in {"model", "persists", "failedPersists",
                      "restores", "failedRestores", "threshold"} |-> p[m]]
  BY <1>6
<1>11. u = p
  BY <1>9, <1>10
<1>12. QED
  BY <1>4, <1>7, <1>8, <1>11

LEMMA OperatorRestored ==
  ASSUME NEW o \in OperatorRegions
  PROVE  [RestoreFromBytes(Operator, EncodeDiscrete(o.model)) EXCEPT
            !.intents = o.intents, !.help = o.help, !.unknown = o.unknown] = o
<1>1. PICK d \in Discretes(<<4, 12, 5>>) : d = o.model
  BY DEF OperatorRegions
<1>2. DecodeDiscrete(EncodeDiscrete(o.model)) = d /\ d.dims = <<4, 12, 5>>
  BY <1>1, DiscreteCoded, DimsTyped DEF Discretes
<1>3. Operator.model.dims = <<4, 12, 5>>
  BY DEF Operator, Discrete
<1>4. RestoreFromBytes(Operator, EncodeDiscrete(o.model)) = [Operator EXCEPT !.model = d]
  BY <1>2, <1>3 DEF RestoreFromBytes
<1>5. [Operator EXCEPT !.model = d] = [model |-> d, intents |-> 0, help |-> 0, unknown |-> 0]
  BY DEF Operator
<1>6. o = [model |-> d, intents |-> o.intents, help |-> o.help, unknown |-> o.unknown]
  BY <1>1 DEF OperatorRegions
<1>7. PICK r : r = [Operator EXCEPT !.model = d]
  OBVIOUS
<1>8. PICK u : u = [r EXCEPT !.intents = o.intents, !.help = o.help, !.unknown = o.unknown]
  OBVIOUS
<1>9. /\ u.model = d /\ u.intents = o.intents /\ u.help = o.help /\ u.unknown = o.unknown
      /\ u = [m \in {"model", "intents", "help", "unknown"} |-> u[m]]
  BY <1>5, <1>7, <1>8
<1>10. o.model = d /\ o = [m \in {"model", "intents", "help", "unknown"} |-> o[m]]
  BY <1>6
<1>11. u = o
  BY <1>9, <1>10
<1>12. QED
  BY <1>4, <1>7, <1>8, <1>11

LEMMA MetaRestored ==
  ASSUME NEW a \in MetaRegions
  PROVE  [RestoreFromBytes(MetaRegion, EncodeDiscrete(a.model)) EXCEPT
            !.assessments = a.assessments, !.state = a.state] = a
<1>1. PICK d \in Discretes(<<4, 3, 5>>) : d = a.model
  BY DEF MetaRegions
<1>2. DecodeDiscrete(EncodeDiscrete(a.model)) = d /\ d.dims = <<4, 3, 5>>
  BY <1>1, DiscreteCoded, DimsTyped DEF Discretes
<1>3. MetaRegion.model.dims = <<4, 3, 5>>
  BY DEF MetaRegion, Discrete
<1>4. RestoreFromBytes(MetaRegion, EncodeDiscrete(a.model)) = [MetaRegion EXCEPT !.model = d]
  BY <1>2, <1>3 DEF RestoreFromBytes
<1>5. [MetaRegion EXCEPT !.model = d] = [model |-> d, assessments |-> 0, state |-> "learning"]
  BY DEF MetaRegion
<1>6. a = [model |-> d, assessments |-> a.assessments, state |-> a.state]
  BY <1>1 DEF MetaRegions
<1>7. PICK r : r = [MetaRegion EXCEPT !.model = d]
  OBVIOUS
<1>8. PICK u : u = [r EXCEPT !.assessments = a.assessments, !.state = a.state]
  OBVIOUS
<1>9. /\ u.model = d /\ u.assessments = a.assessments /\ u.state = a.state
      /\ u = [m \in {"model", "assessments", "state"} |-> u[m]]
  BY <1>5, <1>7, <1>8
<1>10. a.model = d /\ a = [m \in {"model", "assessments", "state"} |-> a[m]]
  BY <1>6
<1>11. u = a
  BY <1>9, <1>10
<1>12. QED
  BY <1>4, <1>7, <1>8, <1>11

-----------------------------------------------------------------------------
(***************************************************************************)
(* Each part of a blob is read as it was written, and the rest is left.    *)
(***************************************************************************)
LEMMA FlattenOne ==
  ASSUME NEW X, NEW s \in Seq(X)
  PROVE  FlattenSeq(<<s>>) = s
<1>1. PICK one : one = <<s>>
  OBVIOUS
<1>2. one \in Seq(Seq(X))
  BY <1>1
<1>3. Len(one) = 1 /\ one[1] = s /\ Len(s) \in Nat
  BY <1>1
<1>4. PICK flat, start : flat = FlattenSeq(one) /\ flat \in Seq(X) /\ LaidOut(flat, one, start)
  BY <1>2, FlattenIs
<1>5. start[0] = 0 /\ start[1] = Len(flat) /\ start[1] = start[1 - 1] + Len(s)
      /\ \A m \in 1..Len(s) : flat[start[1 - 1] + m] = s[m]
  <2>1. 1 \in 1..Len(one)
    BY <1>3
  <2>2. QED
    BY <1>3, <1>4, <2>1 DEF LaidOut
<1>6. Len(flat) = Len(s) /\ \A m \in 1..Len(s) : flat[m] = s[m]
  BY <1>3, <1>5
<1>7. flat = s
  BY <1>4, <1>6, SeqEqual
<1>8. QED
  BY <1>1, <1>4, <1>7

LEMMA FlattenNone == FlattenSeq(<<>>) = <<>>
BY DEF FlattenSeq

LEMMA CountedTyped ==
  ASSUME NEW s \in Seq(FieldValues)
  PROVE  Counted(s) \in Seq(FieldValues)
<1>1. Len(s) \in FieldValues
  BY DEF FieldValues
<1>2. QED
  BY <1>1, Prefixed DEF Counted

LEMMA TableTyped ==
  ASSUME NEW rows \in Seq(Seq(FieldValues))
  PROVE  Table(rows) \in Seq(FieldValues)
<1>1. Len(rows) \in FieldValues
  BY DEF FieldValues
<1>2. FlattenSeq(rows) \in Seq(FieldValues)
  BY FlattenIs
<1>3. QED
  BY <1>1, <1>2, Prefixed, Flattened DEF Table

\* Three, and four, sequences one behind the other.
LEMMA DeviceCode ==
  ASSUME NEW a \in StorageAgents
  PROVE  /\ <<a.label, "storage">> \in Seq(FieldValues) /\ Len(<<a.label, "storage">>) = 2
         /\ EncodeDiscrete(a.model) \in Seq(FieldValues)
         /\ Counted(EncodeDiscrete(a.model)) \in Seq(FieldValues)
         /\ EncodeDevices(<<a>>) = <<1>> \o (<<a.label, "storage">> \o Counted(EncodeDiscrete(a.model)))
         /\ EncodeDevices(<<a>>) \in Seq(FieldValues)
<1>1. a.label = "vblk0" /\ a.model \in Discretes(<<5, 5, 5>>)
  BY DEF StorageAgents
<1>2. PICK names : names = <<a.label, "storage">>
  OBVIOUS
<1>3. names \in Seq(FieldValues) /\ Len(names) = 2
  <2>1. "vblk0" \in FieldValues /\ "storage" \in FieldValues
    BY DEF FieldValues, Words
  <2>2. QED
    BY <1>1, <1>2, <2>1
<1>4. PICK code : code = EncodeDiscrete(a.model)
  OBVIOUS
<1>5. code \in Seq(FieldValues) /\ Counted(code) \in Seq(FieldValues)
  BY <1>1, <1>4, DiscreteCoded, DimsTyped, CountedTyped
<1>6. PICK row : row = names \o Counted(code)
  OBVIOUS
<1>7. row \in Seq(FieldValues)
  BY <1>3, <1>5, <1>6, ConcatProperties
<1>8. PICK list, each : list = <<a>> /\ each = <<row>>
  OBVIOUS
<1>9. DOMAIN list = {1} /\ list[1] = a /\ Len(list) = 1
  BY <1>8
<1>10. [i \in DOMAIN list |-> <<list[i].label, "storage">> \o Counted(EncodeDiscrete(list[i].model))] = each
  <2>1. PICK e : e = [i \in DOMAIN list |-> <<list[i].label, "storage">> \o Counted(EncodeDiscrete(list[i].model))]
    OBVIOUS
  <2>2. e = [i \in {1} |-> e[i]] /\ e[1] = row
    BY <1>2, <1>4, <1>6, <1>9, <2>1
  <2>3. each = [i \in {1} |-> each[i]] /\ each[1] = row
    BY <1>8
  <2>4. QED
    BY <2>1, <2>2, <2>3
<1>11. EncodeDevices(list) = <<1>> \o row
  <2>1. FlattenSeq(each) = row
    BY <1>7, <1>8, FlattenOne
  <2>2. EncodeDevices(list) = <<Len(list)>> \o FlattenSeq(each)
    BY <1>10 DEF EncodeDevices, Each
  <2>3. QED
    BY <1>9, <2>1, <2>2, Flattened
<1>12. <<1>> \o row \in Seq(FieldValues)
  <2>1. 1 \in FieldValues
    BY DEF FieldValues
  <2>2. QED
    BY <1>7, <2>1, Prefixed
<1>13. QED
  BY <1>2, <1>3, <1>4, <1>5, <1>6, <1>8, <1>11, <1>12

LEMMA NoDeviceCode == EncodeDevices(<<>>) = <<0>>
<1>1. PICK none : none = <<>>
  OBVIOUS
<1>2. [i \in DOMAIN none |-> <<none[i].label, "storage">> \o Counted(EncodeDiscrete(none[i].model))] = <<>>
  BY <1>1
<1>3. EncodeDevices(none) = <<0>> \o FlattenSeq(<<>>)
  BY <1>1, <1>2, Flattened DEF EncodeDevices, Each
<1>4. <<0>> \o <<>> = <<0>>
  <2>1. <<0>> \in Seq(Nat)
    OBVIOUS
  <2>2. QED
    BY <2>1, ConcatEmptySeq
<1>5. QED
  BY <1>1, <1>3, <1>4, FlattenNone

LEMMA NumberFields == \A n \in Int : n \in FieldValues /\ <<n>> \in Seq(FieldValues) /\ Len(<<n>>) = 1
<1>1. SUFFICES ASSUME NEW n \in Int
               PROVE  n \in FieldValues /\ <<n>> \in Seq(FieldValues) /\ Len(<<n>>) = 1
  OBVIOUS
<1>2. n \in FieldValues
  BY DEF FieldValues
<1>3. QED
  BY <1>2

LEMMA TakenOffers ==
  ASSUME NEW s, NEW rest, NEW val
  PROVE  Offers(Taken(s \o rest, val), s, rest)
BY DEF Offers, Taken

LEMMA DevicesRead ==
  ASSUME NEW r, NEW list \in DeviceLists, NEW rest \in Seq(FieldValues),
         Offers(r, EncodeDevices(list), rest)
  PROVE  DecodeDevices(r) = Taken(rest, list)
<1> DEFINE n == Fields(r, 1)
           names(acc) == Fields(acc, 2)
           blob(acc) == Block(names(acc))
           D(acc) == IF ~blob(acc).ok THEN Failing
                     ELSE [blob(acc) EXCEPT !.val =
                             IF names(acc).val[2] = "storage"
                             THEN Append(acc.val, RestoreFromBytes(StorageAgent(names(acc).val[1]), @))
                             ELSE acc.val]
           Chain(h) == h = [i \in 0..n.val[1] |-> IF i = 0 THEN [n EXCEPT !.val = <<>>] ELSE D(h[i - 1])]
<1>1. DecodeDevices(r) = IF n.ok THEN (CHOOSE z : Chain(z))[n.val[1]] ELSE Failing
  BY DEF DecodeDevices
<1>2. CASE list = <<>>
  <2>1. Offers(r, <<0>>, rest) /\ <<0>> \in Seq(FieldValues) /\ Len(<<0>>) = 1
    BY <1>2, NoDeviceCode, NumberFields
  <2>2. n = Taken(rest, <<0>>)
    BY <2>1, FieldsRead
  <2>3. n.ok = TRUE /\ n.val[1] = 0 /\ [n EXCEPT !.val = <<>>] = Taken(rest, <<>>)
    <3>1. n.ok = TRUE /\ n.val = <<0>>
      BY <2>2 DEF Taken
    <3>2. [n EXCEPT !.val = <<>>] = Taken(rest, <<>>)
      BY <2>2, TakenOver
    <3> HIDE DEF n
    <3>3. QED
      BY <3>1, <3>2
  <2> HIDE DEF n, D
  <2>4. PICK g : g = [i \in {0} |-> Taken(rest, <<>>)]
    OBVIOUS
  <2>5. 0..n.val[1] = {0}
    BY <2>3
  <2>6. Chain(g)
    BY <2>3, <2>4, <2>5
  <2>7. PICK h : h = CHOOSE z : Chain(z)
    OBVIOUS
  <2>8. Chain(h)
    BY <2>6, <2>7
  <2>9. h[0] = Taken(rest, <<>>)
    BY <2>3, <2>5, <2>8
  <2> HIDE DEF Chain
  <2>10. QED
    BY <1>1, <1>2, <2>3, <2>7, <2>9
<1>3. CASE list # <<>>
  <2>1. PICK a \in StorageAgents : list = <<a>>
    BY <1>3 DEF DeviceLists
  <2>2. PICK title, code : title = <<a.label, "storage">> /\ code = EncodeDiscrete(a.model)
    OBVIOUS
  <2>3. /\ title \in Seq(FieldValues) /\ Len(title) = 2 /\ title[1] = a.label /\ title[2] = "storage"
        /\ code \in Seq(FieldValues) /\ Counted(code) \in Seq(FieldValues)
        /\ EncodeDevices(list) = <<1>> \o (title \o Counted(code))
    BY <2>1, <2>2, DeviceCode
  <2>4. PICK tail : tail = Counted(code) \o rest
    OBVIOUS
  <2>5. /\ tail \in Seq(FieldValues) /\ title \o tail \in Seq(FieldValues)
        /\ (<<1>> \o (title \o Counted(code))) \o rest = <<1>> \o (title \o tail)
    <3>1. tail \in Seq(FieldValues) /\ <<1>> \in Seq(FieldValues) /\ title \o Counted(code) \in Seq(FieldValues)
      BY <2>3, <2>4, ConcatProperties, NumberFields
    <3>2. (<<1>> \o (title \o Counted(code))) \o rest = <<1>> \o ((title \o Counted(code)) \o rest)
      BY <3>1, ConcatAssociative
    <3>3. (title \o Counted(code)) \o rest = title \o tail
      <4>1. PICK S, c : S = FieldValues /\ c = Counted(code)
        OBVIOUS
      <4>2. title \in Seq(S) /\ c \in Seq(S) /\ rest \in Seq(S)
        BY <2>3, <4>1
      <4>3. (title \o c) \o rest = title \o (c \o rest)
        BY ONLY <4>2, ConcatAssociative
      <4>4. QED
        BY <2>4, <4>1, <4>3
    <3>4. title \o tail \in Seq(FieldValues)
      BY <2>3, <3>1, ConcatProperties
    <3>5. QED
      BY <3>1, <3>2, <3>3, <3>4
  <2>6. n = Taken(title \o tail, <<1>>)
    <3>1. Offers(r, <<1>>, title \o tail)
      BY <2>3, <2>5 DEF Offers
    <3>2. <<1>> \in Seq(FieldValues) /\ Len(<<1>>) = 1 /\ title \o tail \in Seq(FieldValues)
      BY <2>5, NumberFields
    <3>3. Fields(r, Len(<<1>>)) = Taken(title \o tail, <<1>>)
      BY <3>1, <3>2, FieldsRead
    <3>4. QED
      BY <3>2, <3>3
  <2>7. n.ok = TRUE /\ n.val[1] = 1 /\ [n EXCEPT !.val = <<>>] = Taken(title \o tail, <<>>)
    <3>1. n.ok = TRUE /\ n.val = <<1>>
      BY <2>6 DEF Taken
    <3>2. [n EXCEPT !.val = <<>>] = Taken(title \o tail, <<>>)
      BY <2>6, TakenOver
    <3> HIDE DEF n
    <3>3. QED
      BY <3>1, <3>2
  <2>8. PICK first : first = Taken(title \o tail, <<>>)
    OBVIOUS
  <2>9. names(first) = Taken(tail, title)
    <3>1. Offers(first, title, tail)
      BY <2>8, TakenOffers
    <3>2. title \in Seq(FieldValues) /\ tail \in Seq(FieldValues)
      BY <2>3, <2>5
    <3>3. Fields(first, Len(title)) = Taken(tail, title)
      BY <3>1, <3>2, FieldsRead
    <3>4. QED
      BY <2>3, <3>3
  <2>10. blob(first) = Taken(rest, code)
    <3>1. PICK w : w = names(first) /\ w = Taken(Counted(code) \o rest, title)
      BY <2>4, <2>9
    <3>2. Offers(w, Counted(code), rest)
      BY <3>1, TakenOffers
    <3>3. Block(w) = Taken(rest, code)
      BY <2>3, <3>2, BlockRead
    <3>4. QED
      BY <3>1, <3>3
  <2>11. D(first) = Taken(rest, list)
    <3>1. PICK b, w : b = blob(first) /\ w = names(first) /\ b = Taken(rest, code) /\ w = Taken(tail, title)
      BY <2>9, <2>10
    <3>2. b.ok = TRUE /\ b.val = code /\ w.val = title /\ first.val = <<>>
      BY <2>8, <3>1 DEF Taken
    <3>3. RestoreFromBytes(StorageAgent(title[1]), code) = a
      BY <2>2, <2>3, DeviceRestored
    <3>4. D(first) = [b EXCEPT !.val = Append(<<>>, a)]
      BY <2>3, <3>1, <3>2, <3>3
    <3>5. Append(<<>>, a) = <<a>>
      OBVIOUS
    <3>6. QED
      BY <2>1, <2>10, <3>1, <3>4, <3>5, TakenOver
  <2> HIDE DEF n, D
  <2>12. PICK g : g = [i \in {0, 1} |-> IF i = 0 THEN first ELSE Taken(rest, list)]
    OBVIOUS
  <2>13. 0..n.val[1] = {0, 1}
    BY <2>7
  <2>14. Chain(g)
    <3>1. g[0] = first /\ g[1] = Taken(rest, list) /\ 1 - 1 = 0
      BY <2>12
    <3>2. PICK again : again = [i \in 0..n.val[1] |-> IF i = 0 THEN [n EXCEPT !.val = <<>>] ELSE D(g[i - 1])]
      OBVIOUS
    <3>3. again[0] = first
      BY <2>7, <2>8, <2>13, <3>2
    <3>4. again[1] = D(g[1 - 1])
      BY <2>13, <3>2
    <3>5. again = [i \in {0, 1} |-> again[i]] /\ again[1] = g[1]
      BY <2>11, <2>13, <3>1, <3>2, <3>4
    <3>6. again = g
      BY <2>12, <3>1, <3>3, <3>5
    <3>7. QED
      BY <3>2, <3>6
  <2>15. PICK h : h = CHOOSE z : Chain(z)
    OBVIOUS
  <2>16. Chain(h)
    BY <2>14, <2>15
  <2>17. h[0] = first /\ h[1] = D(h[0])
    <3>1. h[0] = first
      BY <2>7, <2>8, <2>13, <2>16
    <3>2. h[1] = D(h[1 - 1])
      BY <2>13, <2>16
    <3>3. QED
      BY <3>1, <3>2
  <2> HIDE DEF Chain
  <2>18. QED
    BY <1>1, <2>7, <2>11, <2>15, <2>17
<1>4. QED
  BY <1>2, <1>3

(***************************************************************************)
(* The vocabulary of the readers: blobs, one behind the other, and tables. *)
(***************************************************************************)
Blobs == Seq(FieldValues)
Joins(c, a, b) == c = a \o b
IsTable(rows, width) == rows \in Seq(Blobs) /\ \A i \in DOMAIN rows : Len(rows[i]) = width

LEMMA JoinsTyped ==
  ASSUME NEW a \in Blobs, NEW b \in Blobs, NEW c, Joins(c, a, b)
  PROVE  c \in Blobs
BY ConcatProperties DEF Blobs, Joins

LEMMA Joinable == \A a, b \in Blobs : \E c \in Blobs : Joins(c, a, b)
<1>1. SUFFICES ASSUME NEW a \in Blobs, NEW b \in Blobs
               PROVE  \E c \in Blobs : Joins(c, a, b)
  OBVIOUS
<1>2. PICK c : c = a \o b
  OBVIOUS
<1>3. Joins(c, a, b)
  BY <1>2 DEF Joins
<1>4. c \in Blobs
  BY <1>3, JoinsTyped
<1>5. QED
  BY <1>3, <1>4

\* What begins with a joint begins with its first part.
LEMMA OffersFirst ==
  ASSUME NEW r, NEW a \in Blobs, NEW b \in Blobs, NEW rest \in Blobs, NEW c, NEW t,
         Joins(c, a, b), Joins(t, b, rest), Offers(r, c, rest)
  PROVE  Offers(r, a, t)
<1>1. a \in Seq(FieldValues) /\ b \in Seq(FieldValues) /\ rest \in Seq(FieldValues)
  BY DEF Blobs
<1>2. (a \o b) \o rest = a \o (b \o rest)
  BY <1>1, ConcatAssociative
<1>3. QED
  BY <1>2 DEF Joins, Offers

LEMMA TakenNext ==
  ASSUME NEW s, NEW rest, NEW t, NEW val, Joins(t, s, rest)
  PROVE  Offers(Taken(t, val), s, rest)
BY DEF Joins, Offers, Taken

LEMMA FieldsTaken ==
  ASSUME NEW r, NEW s \in Blobs, NEW rest \in Blobs, Offers(r, s, rest), NEW n, n = Len(s)
  PROVE  Fields(r, n) = Taken(rest, s)
BY FieldsRead DEF Blobs

LEMMA BlockTaken ==
  ASSUME NEW r, NEW s \in Blobs, NEW rest \in Blobs, NEW c, c = Counted(s), Offers(r, c, rest)
  PROVE  Block(r) = Taken(rest, s)
BY BlockRead DEF Blobs

LEMMA TableTaken ==
  ASSUME NEW r, NEW width \in Nat, NEW rows, IsTable(rows, width), NEW rest \in Blobs,
         NEW t, t = Table(rows), Offers(r, t, rest)
  PROVE  Rows(r, width) = Taken(rest, rows)
<1>1. rows \in Seq(Seq(FieldValues)) /\ \A i \in DOMAIN rows : Len(rows[i]) = width
  BY DEF IsTable, Blobs
<1>2. rest \in Seq(FieldValues) /\ Offers(r, Table(rows), rest)
  BY DEF Blobs
<1>3. QED
  BY <1>1, <1>2, TableRead

LEMMA TableIsBlob ==
  ASSUME NEW rows, NEW width, IsTable(rows, width)
  PROVE  Table(rows) \in Blobs
BY TableTyped DEF IsTable, Blobs

\* A row for each entry of a list.
LEMMA RowsTyped ==
  ASSUME NEW X, NEW list \in Seq(X), NEW width, NEW rows,
         rows = [i \in DOMAIN list |-> rows[i]],
         \A i \in DOMAIN list : list[i] \in X => rows[i] \in Blobs /\ Len(rows[i]) = width
  PROVE  /\ IsTable(rows, width) /\ DOMAIN rows = DOMAIN list
         /\ \A i \in DOMAIN list : list[i] \in X
<1>1. \A i \in DOMAIN list : list[i] \in X
  BY ElementOfSeq, LenProperties
<1>2. DOMAIN rows = DOMAIN list
  OBVIOUS
<1>3. \A n \in DOMAIN list : list[n] \in X => rows[n] \in Blobs
  OBVIOUS
<1>4. rows \in Seq(Blobs)
  BY <1>2, <1>3, EachTyped
<1>5. \A i \in DOMAIN rows : Len(rows[i]) = width
  BY <1>1, <1>2
<1>6. QED
  BY <1>1, <1>2, <1>4, <1>5 DEF IsTable

CausalNodeRow(n) == <<n.id, n.label, n.region, n.observations>>
CausalEdgeRow(e) == <<e.cause, e.effect, e.observations>>
SurpriseRow(s) == <<s.lamport, s.region, s.surprise>>

LEMMA CausalNodeCoded ==
  ASSUME NEW n \in CausalNodes
  PROVE  /\ CausalNodeRow(n) \in Seq(FieldValues) /\ Len(CausalNodeRow(n)) = 4
         /\ [id |-> CausalNodeRow(n)[1], label |-> CausalNodeRow(n)[2], region |-> CausalNodeRow(n)[3],
             observations |-> CausalNodeRow(n)[4]] = n
<1>1. PICK row : row = <<n.id, n.label, n.region, n.observations>>
  OBVIOUS
<1>2. row[1] = n.id /\ row[2] = n.label /\ row[3] = n.region /\ row[4] = n.observations /\ Len(row) = 4
  BY <1>1
<1>3. n = [id |-> n.id, label |-> n.label, region |-> n.region, observations |-> n.observations]
      /\ n.id \in Nat /\ n.label \in Labels /\ n.region \in Regions /\ n.observations \in Nat
  BY DEF CausalNodes
<1>4. {n.id, n.label, n.region, n.observations} \subseteq FieldValues
  BY <1>3 DEF FieldValues, Words
<1>5. row \in Seq(FieldValues)
  <2> HIDE DEF FieldValues
  <2>1. QED
    BY <1>1, <1>4
<1>6. QED
  BY <1>1, <1>2, <1>3, <1>5 DEF CausalNodeRow

LEMMA CausalEdgeCoded ==
  ASSUME NEW e \in CausalEdges
  PROVE  /\ CausalEdgeRow(e) \in Seq(FieldValues) /\ Len(CausalEdgeRow(e)) = 3
         /\ [cause |-> CausalEdgeRow(e)[1], effect |-> CausalEdgeRow(e)[2],
             observations |-> CausalEdgeRow(e)[3]] = e
<1>1. PICK row : row = <<e.cause, e.effect, e.observations>>
  OBVIOUS
<1>2. row[1] = e.cause /\ row[2] = e.effect /\ row[3] = e.observations /\ Len(row) = 3
  BY <1>1
<1>3. e = [cause |-> e.cause, effect |-> e.effect, observations |-> e.observations]
      /\ e.cause \in Nat /\ e.effect \in Nat /\ e.observations \in Nat
  BY DEF CausalEdges
<1>4. {e.cause, e.effect, e.observations} \subseteq FieldValues
  BY <1>3 DEF FieldValues
<1>5. row \in Seq(FieldValues)
  BY <1>1, <1>4
<1>6. QED
  BY <1>1, <1>2, <1>3, <1>5 DEF CausalEdgeRow

LEMMA SurpriseCoded ==
  ASSUME NEW s \in SurpriseEntries
  PROVE  /\ SurpriseRow(s) \in Seq(FieldValues) /\ Len(SurpriseRow(s)) = 3
         /\ [lamport |-> SurpriseRow(s)[1], region |-> SurpriseRow(s)[2],
             surprise |-> SurpriseRow(s)[3]] = s
<1>1. PICK row : row = <<s.lamport, s.region, s.surprise>>
  OBVIOUS
<1>2. row[1] = s.lamport /\ row[2] = s.region /\ row[3] = s.surprise /\ Len(row) = 3
  BY <1>1
<1>3. s = [lamport |-> s.lamport, region |-> s.region, surprise |-> s.surprise]
      /\ s.lamport \in Nat /\ s.region \in Regions /\ s.surprise \in Nat
  BY DEF SurpriseEntries
<1>4. {s.lamport, s.region, s.surprise} \subseteq FieldValues
  BY <1>3 DEF FieldValues, Words
<1>5. row \in Seq(FieldValues)
  BY <1>1, <1>4
<1>6. QED
  BY <1>1, <1>2, <1>3, <1>5 DEF SurpriseRow

LEMMA GraphRead ==
  ASSUME NEW r, NEW g \in CausalGraphs, NEW rest \in Blobs, NEW code, code = EncodeGraph(g)
  PROVE  code \in Blobs /\ (Offers(r, code, rest) => DecodeGraph(r) = Taken(rest, g))
<1>1. g = [nodes |-> g.nodes, edges |-> g.edges, next |-> g.next]
      /\ g.nodes \in Seq(CausalNodes) /\ g.edges \in Seq(CausalEdges) /\ g.next \in Nat
  BY DEF CausalGraphs
<1>2. PICK nodes, edges, next : nodes = g.nodes /\ edges = g.edges /\ next = <<g.next>>
  OBVIOUS
<1>3. PICK ns, es : ns = [i \in DOMAIN nodes |-> CausalNodeRow(nodes[i])]
                    /\ es = [i \in DOMAIN edges |-> CausalEdgeRow(edges[i])]
  OBVIOUS
<1>4. IsTable(ns, 4) /\ DOMAIN ns = DOMAIN nodes /\ \A i \in DOMAIN nodes : nodes[i] \in CausalNodes
  <2>1. \A i \in DOMAIN nodes : nodes[i] \in CausalNodes => ns[i] \in Blobs /\ Len(ns[i]) = 4
    BY <1>3, CausalNodeCoded DEF Blobs
  <2>2. ns = [i \in DOMAIN nodes |-> ns[i]] /\ nodes \in Seq(CausalNodes)
    BY <1>1, <1>2, <1>3
  <2>3. QED
    BY <2>1, <2>2, RowsTyped
<1>5. IsTable(es, 3) /\ DOMAIN es = DOMAIN edges /\ \A i \in DOMAIN edges : edges[i] \in CausalEdges
  <2>1. \A i \in DOMAIN edges : edges[i] \in CausalEdges => es[i] \in Blobs /\ Len(es[i]) = 3
    BY <1>3, CausalEdgeCoded DEF Blobs
  <2>2. es = [i \in DOMAIN edges |-> es[i]] /\ edges \in Seq(CausalEdges)
    BY <1>1, <1>2, <1>3
  <2>3. QED
    BY <2>1, <2>2, RowsTyped
<1>6. next \in Blobs /\ 1 = Len(next) /\ next[1] = g.next
  BY <1>1, <1>2, NumberFields DEF Blobs
<1>7. PICK a, b : a = Table(ns) /\ b = Table(es)
  OBVIOUS
<1>8. a \in Blobs /\ b \in Blobs
  BY <1>4, <1>5, <1>7, TableIsBlob
<1>9. PICK ab \in Blobs : Joins(ab, a, b)
  BY <1>8, Joinable
<1>10. code = (a \o b) \o next
  BY <1>2, <1>3, <1>7 DEF EncodeGraph, Each, CausalNodeRow, CausalEdgeRow
<1>11. Joins(code, ab, next)
  BY <1>9, <1>10 DEF Joins
<1>12. code \in Blobs
  BY <1>6, <1>11, JoinsTyped
<1>13. PICK t \in Blobs : Joins(t, next, rest)
  BY <1>6, Joinable
<1>14. PICK u \in Blobs : Joins(u, b, t)
  BY <1>8, Joinable
<1>15. SUFFICES ASSUME Offers(r, code, rest)
                PROVE  DecodeGraph(r) = Taken(rest, g)
  BY <1>12
<1>16. PICK one, two, three : one = Rows(r, 4) /\ two = Rows(one, 3) /\ three = Fields(two, 1)
  OBVIOUS
<1>17. one = Taken(u, ns)
  <2>1. Offers(r, ab, t)
    BY <1>6, <1>11, <1>13, <1>15, OffersFirst
  <2>2. Offers(r, a, u)
    BY <1>8, <1>9, <1>14, <2>1, OffersFirst
  <2>3. Rows(r, 4) = Taken(u, ns)
    BY <1>4, <1>7, <2>2, TableTaken
  <2>4. QED
    BY <1>16, <2>3
<1>18. two = Taken(t, es)
  <2>1. Offers(one, b, t)
    BY <1>14, <1>17, TakenNext
  <2>2. Rows(one, 3) = Taken(t, es)
    BY <1>5, <1>7, <2>1, TableTaken
  <2>3. QED
    BY <1>16, <2>2
<1>19. three = Taken(rest, next)
  <2>1. Offers(two, next, rest)
    BY <1>13, <1>18, TakenNext
  <2>2. Fields(two, 1) = Taken(rest, next)
    BY <1>6, <2>1, FieldsTaken
  <2>3. QED
    BY <1>16, <2>2
<1>20. one.val = ns /\ two.val = es /\ three.val = next /\ three.ok = TRUE
  BY <1>17, <1>18, <1>19 DEF Taken
<1>21. PICK ds, fs :
         /\ ds = [i \in DOMAIN ns |-> [id |-> ns[i][1], label |-> ns[i][2], region |-> ns[i][3],
                                       observations |-> ns[i][4]]]
         /\ fs = [i \in DOMAIN es |-> [cause |-> es[i][1], effect |-> es[i][2],
                                       observations |-> es[i][3]]]
  OBVIOUS
<1>22. ds = nodes
  <2>1. \A i \in DOMAIN nodes : ds[i] = nodes[i]
    BY <1>3, <1>4, <1>21, CausalNodeCoded
  <2>2. nodes = [i \in DOMAIN nodes |-> nodes[i]] /\ ds = [i \in DOMAIN nodes |-> ds[i]]
    BY <1>1, <1>2, <1>4, <1>21
  <2>3. QED
    BY <2>1, <2>2
<1>23. fs = edges
  <2>1. \A i \in DOMAIN edges : fs[i] = edges[i]
    BY <1>3, <1>5, <1>21, CausalEdgeCoded
  <2>2. edges = [i \in DOMAIN edges |-> edges[i]] /\ fs = [i \in DOMAIN edges |-> fs[i]]
    BY <1>1, <1>2, <1>5, <1>21
  <2>3. QED
    BY <2>1, <2>2
<1>24. DecodeGraph(r) = [three EXCEPT !.val = [nodes |-> ds, edges |-> fs, next |-> three.val[1]]]
  BY <1>16, <1>20, <1>21 DEF DecodeGraph, Each
<1>25. [nodes |-> ds, edges |-> fs, next |-> three.val[1]] = g
  BY <1>1, <1>2, <1>6, <1>20, <1>22, <1>23
<1>26. DecodeGraph(r) = [Taken(rest, next) EXCEPT !.val = g]
  BY <1>19, <1>24, <1>25
<1>27. QED
  BY <1>26, TakenOver

LEMMA PreferencesRead ==
  ASSUME NEW r, NEW rest \in Blobs, NEW code, code = EncodePreferences(Preferences)
  PROVE  code \in Blobs /\ (Offers(r, code, rest) => DecodePreferences(r) = Taken(rest, Preferences))
<1>1. PICK q, c : q = <<4, 3, 2, 4, -8, -6, -3, -7>> /\ c = <<2, 3, 1, -4, 1, 2, -2>>
  OBVIOUS
<1>2. q \in Seq(Int) /\ Len(q) = 8 /\ c \in Seq(Int) /\ Len(c) = 7
  BY <1>1
<1>3. q \in Blobs /\ c \in Blobs /\ 8 = Len(q) /\ 7 = Len(c)
  BY <1>2, SeqMonotonic DEF Blobs, FieldValues
<1>4. Preferences.questions = q /\ EncodeConstitution(Preferences.constitution) = c
  BY <1>1 DEF Preferences, Constitution, EncodeConstitution
<1>5. DecodeConstitution(c) = Constitution
  BY <1>1 DEF DecodeConstitution, Constitution
<1>6. Joins(code, q, c)
  BY <1>4 DEF Joins, EncodePreferences
<1>7. PICK t \in Blobs : Joins(t, c, rest)
  BY <1>3, Joinable
<1>8. SUFFICES ASSUME Offers(r, code, rest)
               PROVE  DecodePreferences(r) = Taken(rest, Preferences)
  BY <1>3, <1>6, JoinsTyped
<1>9. PICK one, two : one = Fields(r, 8) /\ two = Fields(one, 7)
  OBVIOUS
<1>10. one = Taken(t, q)
  <2>1. Offers(r, q, t)
    BY <1>3, <1>6, <1>7, <1>8, OffersFirst
  <2>2. Fields(r, 8) = Taken(t, q)
    BY <1>3, <2>1, FieldsTaken
  <2>3. QED
    BY <1>9, <2>2
<1>11. two = Taken(rest, c)
  <2>1. Offers(one, c, rest)
    BY <1>7, <1>10, TakenNext
  <2>2. Fields(one, 7) = Taken(rest, c)
    BY <1>3, <2>1, FieldsTaken
  <2>3. QED
    BY <1>9, <2>2
<1>12. one.val = q /\ two.val = c /\ two.ok = TRUE
  BY <1>10, <1>11 DEF Taken
<1>13. DecodePreferences(r) = [two EXCEPT !.val = [questions |-> q, constitution |-> Constitution]]
  BY <1>5, <1>9, <1>12 DEF DecodePreferences
<1>14. [questions |-> q, constitution |-> Constitution] = Preferences
  BY <1>4 DEF Preferences
<1>15. DecodePreferences(r) = [Taken(rest, c) EXCEPT !.val = Preferences]
  BY <1>11, <1>13, <1>14
<1>16. QED
  BY <1>15, TakenOver

LEMMA CountsRead ==
  ASSUME NEW r, NEW c \in CountsTyped, NEW rest \in Blobs, NEW code, code = EncodeCounts(c)
  PROVE  code \in Blobs /\ (Offers(r, code, rest) => DecodeCounts(r) = Taken(rest, c))
<1>1. c = [substrate |-> c.substrate, surprisability |-> c.surprisability, addressed |-> c.addressed,
           rendered |-> c.rendered, updated |-> c.updated, novel |-> c.novel]
      /\ c.substrate \in Int /\ c.surprisability \in Int /\ c.addressed \in Nat /\ c.updated \in Nat
      /\ c.novel \in Nat /\ c.rendered \in Nat
  BY DEF CountsTyped
<1>2. code = <<c.substrate, c.surprisability, c.addressed, c.rendered, c.updated, c.novel>>
  BY DEF EncodeCounts
<1>3. /\ code \in Seq(Int) /\ 6 = Len(code) /\ code[1] = c.substrate /\ code[2] = c.surprisability
      /\ code[3] = c.addressed /\ code[4] = c.rendered /\ code[5] = c.updated /\ code[6] = c.novel
  BY <1>1, <1>2
<1>4. code \in Blobs
  BY <1>3, SeqMonotonic DEF Blobs, FieldValues
<1>5. SUFFICES ASSUME Offers(r, code, rest)
               PROVE  DecodeCounts(r) = Taken(rest, c)
  BY <1>4
<1>6. PICK one : one = Fields(r, 6)
  OBVIOUS
<1>7. one = Taken(rest, code)
  <2>1. Fields(r, 6) = Taken(rest, code)
    BY <1>3, <1>4, <1>5, FieldsTaken
  <2>2. QED
    BY <1>6, <2>1
<1>8. one.val = code /\ one.ok = TRUE
  BY <1>7 DEF Taken
<1>9. DecodeCounts(r) =
        [one EXCEPT !.val = [substrate |-> code[1], surprisability |-> code[2],
                             addressed |-> code[3], rendered |-> code[4], updated |-> code[5],
                             novel |-> code[6]]]
  BY <1>6, <1>8 DEF DecodeCounts
<1>10. [substrate |-> code[1], surprisability |-> code[2], addressed |-> code[3],
        rendered |-> code[4], updated |-> code[5],
                             novel |-> code[6]] = c
  BY <1>1, <1>3
<1>11. DecodeCounts(r) = [Taken(rest, code) EXCEPT !.val = c]
  BY <1>7, <1>9, <1>10
<1>12. QED
  BY <1>11, TakenOver

LEMMA RegistryRead ==
  ASSUME NEW r, NEW g \in Registries, NEW rest \in Blobs, NEW code, code = EncodeRegistry(g)
  PROVE  code \in Blobs /\ (Offers(r, code, rest) => DecodeRegistry(r) = Taken(rest, g))
<1>1. PICK a \in LoopAgents : g = [agents |-> <<a>>, next |-> 1]
  BY DEF Registries
<1>2. PICK last \in Nat : a = [id |-> 0, name |-> "nucleation", cadence |-> 1, lastTick |-> last,
                               spawnedAt |-> 0, spawnedBy |-> NobodySpawned, state |-> "healthy"]
  BY DEF LoopAgents
<1>3. PICK row : row = <<0, "nucleation", 1, last, 0, Nobody32, "healthy">>
  OBVIOUS
<1>4. EncodeAgent(a) = row
  BY <1>2, <1>3 DEF EncodeAgent
<1>5. row \in Blobs /\ Len(row) = 7
  <2>1. /\ 0 \in FieldValues /\ "nucleation" \in FieldValues /\ 1 \in FieldValues
        /\ last \in FieldValues /\ Nobody32 \in FieldValues /\ "healthy" \in FieldValues
    BY DEF FieldValues, Words
  <2>2. QED
    BY <1>3, <2>1 DEF Blobs
<1>6. DecodeAgent(row) = a
  BY <1>2, <1>3 DEF DecodeAgent
<1>7. PICK list, rows, next : list = <<a>> /\ rows = <<row>> /\ next = <<1>>
  OBVIOUS
<1>8. IsTable(rows, 7)
  <2>1. rows \in Seq(Blobs)
    BY <1>5, <1>7
  <2>2. \A i \in DOMAIN rows : Len(rows[i]) = 7
    BY <1>5, <1>7
  <2>3. QED
    BY <2>1, <2>2 DEF IsTable
<1>9. [i \in DOMAIN list |-> EncodeAgent(list[i])] = rows
  <2>1. PICK e : e = [i \in DOMAIN list |-> EncodeAgent(list[i])]
    OBVIOUS
  <2>2. DOMAIN list = {1} /\ list[1] = a
    BY <1>7
  <2>3. e = [i \in {1} |-> e[i]] /\ e[1] = row
    BY <1>4, <2>1, <2>2
  <2>4. rows = [i \in {1} |-> rows[i]] /\ rows[1] = row
    BY <1>7
  <2>5. QED
    BY <2>1, <2>3, <2>4
<1>10. PICK d : d = [i \in DOMAIN rows |-> DecodeAgent(rows[i])]
  OBVIOUS
<1>11. d = list
  <2>1. DOMAIN rows = {1} /\ rows[1] = row
    BY <1>7
  <2>2. d = [i \in {1} |-> d[i]] /\ d[1] = a
    BY <1>6, <1>10, <2>1
  <2>3. list = [i \in {1} |-> list[i]] /\ list[1] = a
    BY <1>7
  <2>4. QED
    BY <2>2, <2>3
<1>12. PICK table : table = Table(rows)
  OBVIOUS
<1>13. Joins(code, table, next)
  BY <1>1, <1>7, <1>9, <1>12 DEF Joins, EncodeRegistry, Each
<1>14. table \in Blobs /\ next \in Blobs /\ 1 = Len(next) /\ next[1] = 1
  BY <1>7, <1>8, <1>12, TableIsBlob, NumberFields DEF Blobs
<1>15. PICK t \in Blobs : Joins(t, next, rest)
  BY <1>14, Joinable
<1>16. SUFFICES ASSUME Offers(r, code, rest)
                PROVE  DecodeRegistry(r) = Taken(rest, g)
  BY <1>13, <1>14, JoinsTyped
<1>17. PICK one, two : one = Rows(r, 7) /\ two = Fields(one, 1)
  OBVIOUS
<1>18. one = Taken(t, rows)
  <2>1. Offers(r, table, t)
    BY <1>13, <1>14, <1>15, <1>16, OffersFirst
  <2>2. Rows(r, 7) = Taken(t, rows)
    BY <1>8, <1>12, <2>1, TableTaken
  <2>3. QED
    BY <1>17, <2>2
<1>19. two = Taken(rest, next)
  <2>1. Offers(one, next, rest)
    BY <1>15, <1>18, TakenNext
  <2>2. Fields(one, 1) = Taken(rest, next)
    BY <1>14, <2>1, FieldsTaken
  <2>3. QED
    BY <1>17, <2>2
<1>20. one.val = rows /\ two.val = next /\ two.ok = TRUE
  BY <1>18, <1>19 DEF Taken
<1>21. DecodeRegistry(r) = [two EXCEPT !.val = [agents |-> d, next |-> two.val[1]]]
  BY <1>10, <1>17, <1>20 DEF DecodeRegistry, Each
<1>22. [agents |-> d, next |-> two.val[1]] = g
  BY <1>1, <1>7, <1>11, <1>14, <1>20
<1>23. DecodeRegistry(r) = [Taken(rest, next) EXCEPT !.val = g]
  BY <1>19, <1>21, <1>22
<1>24. QED
  BY <1>23, TakenOver

LEMMA HistoryRead ==
  ASSUME NEW r, NEW h \in Histories, NEW rest \in Blobs, NEW code, code = EncodeHistory(h)
  PROVE  code \in Blobs /\ (Offers(r, code, rest) => DecodeHistory(r) = Taken(rest, h))
<1>1. PICK fe, list : h = [fe |-> fe, surprises |-> list] /\ fe \in Seq(Nat) /\ list \in Seq(SurpriseEntries)
  BY DEF Histories
<1>2. fe \in Blobs
  BY <1>1, SeqMonotonic DEF Blobs, FieldValues
<1>3. PICK rows : rows = [i \in DOMAIN list |-> SurpriseRow(list[i])]
  OBVIOUS
<1>4. IsTable(rows, 3) /\ DOMAIN rows = DOMAIN list /\ \A i \in DOMAIN list : list[i] \in SurpriseEntries
  <2>1. \A i \in DOMAIN list : list[i] \in SurpriseEntries => rows[i] \in Blobs /\ Len(rows[i]) = 3
    BY <1>3, SurpriseCoded DEF Blobs
  <2>2. rows = [i \in DOMAIN list |-> rows[i]] /\ list \in Seq(SurpriseEntries)
    BY <1>1, <1>3
  <2>3. QED
    BY <2>1, <2>2, RowsTyped
<1>5. PICK a, b : a = Counted(fe) /\ b = Table(rows)
  OBVIOUS
<1>6. a \in Blobs /\ b \in Blobs
  BY <1>2, <1>4, <1>5, TableIsBlob, CountedTyped DEF Blobs
<1>7. Joins(code, a, b)
  BY <1>1, <1>3, <1>5 DEF Joins, EncodeHistory, Each, SurpriseRow
<1>8. PICK t \in Blobs : Joins(t, b, rest)
  BY <1>6, Joinable
<1>9. SUFFICES ASSUME Offers(r, code, rest)
               PROVE  DecodeHistory(r) = Taken(rest, h)
  BY <1>6, <1>7, JoinsTyped
<1>10. PICK one, two : one = Block(r) /\ two = Rows(one, 3)
  OBVIOUS
<1>11. one = Taken(t, fe)
  <2>1. Offers(r, a, t)
    BY <1>6, <1>7, <1>8, <1>9, OffersFirst
  <2>2. Block(r) = Taken(t, fe)
    BY <1>2, <1>5, <2>1, BlockTaken
  <2>3. QED
    BY <1>10, <2>2
<1>12. two = Taken(rest, rows)
  <2>1. Offers(one, b, rest)
    BY <1>8, <1>11, TakenNext
  <2>2. Rows(one, 3) = Taken(rest, rows)
    BY <1>4, <1>5, <2>1, TableTaken
  <2>3. QED
    BY <1>10, <2>2
<1>13. one.val = fe /\ two.val = rows /\ two.ok = TRUE
  BY <1>11, <1>12 DEF Taken
<1>14. PICK ds : ds = [i \in DOMAIN rows |-> [lamport |-> rows[i][1], region |-> rows[i][2], surprise |-> rows[i][3]]]
  OBVIOUS
<1>15. ds = list
  <2>1. \A i \in DOMAIN list : ds[i] = list[i]
    BY <1>3, <1>4, <1>14, SurpriseCoded
  <2>2. list = [i \in DOMAIN list |-> list[i]] /\ ds = [i \in DOMAIN list |-> ds[i]]
    BY <1>1, <1>4, <1>14
  <2>3. QED
    BY <2>1, <2>2
<1>16. DecodeHistory(r) = [two EXCEPT !.val = [fe |-> fe, surprises |-> ds]]
  BY <1>10, <1>13, <1>14 DEF DecodeHistory, Each
<1>17. DecodeHistory(r) = [Taken(rest, rows) EXCEPT !.val = h]
  BY <1>1, <1>12, <1>15, <1>16
<1>18. QED
  BY <1>17, TakenOver

HeaderOf(m) ==
  [lamport |-> m.lamport, boots |-> m.boots, total |-> m.total, learned |-> m.learned, risk |-> m.risk]

\* The fourteen parts of a blob.
HeaderPart(m) == <<Magic, Version, m.lamport, m.boots, m.total, m.learned, m.risk>>
PersistencePart(m) ==
  <<m.persistence.persists, m.persistence.failedPersists, m.persistence.restores,
    m.persistence.failedRestores, m.persistence.threshold>>
OperatorPart(m) == <<m.operator.intents, m.operator.help, m.operator.unknown>>
MetaPart(m) == <<m.meta.assessments, m.meta.state>>

LEMMA ModelFields ==
  ASSUME NEW m \in Models
  PROVE  /\ m.devices \in DeviceLists /\ m.persistence \in Persistences /\ m.operator \in OperatorRegions
         /\ m.meta \in MetaRegions /\ m.graph \in CausalGraphs /\ m.hypotheses = 0
         /\ m.preferences = Preferences /\ m.history \in Histories /\ m.lamport \in Nat
         /\ m.boots \in Nat /\ m.total \in Nat /\ m.learned \in Nat /\ m.risk \in Nat
         /\ m.counts \in CountsTyped /\ m.agents \in Registries
         /\ m = [devices |-> m.devices, persistence |-> m.persistence, operator |-> m.operator,
                 meta |-> m.meta, graph |-> m.graph, hypotheses |-> m.hypotheses,
                 preferences |-> m.preferences, history |-> m.history, lamport |-> m.lamport,
                 boots |-> m.boots, total |-> m.total, learned |-> m.learned, risk |-> m.risk,
                 counts |-> m.counts, agents |-> m.agents]
BY DEF Models

LEMMA HeaderPartCoded ==
  ASSUME NEW m \in Models, NEW p, p = HeaderPart(m)
  PROVE  /\ p \in Blobs /\ 7 = Len(p) /\ SubSeq(p, 1, 2) = <<Magic, Version>>
         /\ p[3] = m.lamport /\ p[4] = m.boots /\ p[5] = m.total /\ p[6] = m.learned /\ p[7] = m.risk
<1>1. m.lamport \in Nat /\ m.boots \in Nat /\ m.total \in Nat /\ m.learned \in Nat /\ m.risk \in Nat
  BY ModelFields
<1>2. p = <<Magic, Version, m.lamport, m.boots, m.total, m.learned, m.risk>>
  BY DEF HeaderPart
<1>3. /\ Len(p) = 7 /\ p[1] = Magic /\ p[2] = Version /\ p[3] = m.lamport /\ p[4] = m.boots
      /\ p[5] = m.total /\ p[6] = m.learned /\ p[7] = m.risk
  BY <1>2
<1>4. /\ Magic \in FieldValues /\ Version \in FieldValues /\ m.lamport \in FieldValues
      /\ m.boots \in FieldValues /\ m.total \in FieldValues /\ m.learned \in FieldValues
      /\ m.risk \in FieldValues
  BY <1>1 DEF FieldValues, Words, Version
<1>5. p \in Blobs
  BY <1>2, <1>4 DEF Blobs
<1>6. SubSeq(p, 1, 2) = <<Magic, Version>>
  <2>1. PICK s, u : s = SubSeq(p, 1, 2) /\ u = <<Magic, Version>>
    OBVIOUS
  <2>2. \A i \in 1..2 : p[i] \in FieldValues
    BY <1>3, <1>4
  <2>3. s \in Seq(FieldValues) /\ Len(s) = 2 /\ \A i \in 1..2 : s[i] = p[1 + i - 1]
    <3>1. /\ SubSeq(p, 1, 2) \in Seq(FieldValues) /\ Len(SubSeq(p, 1, 2)) = IF 1 <= 2 THEN 2 - 1 + 1 ELSE 0
          /\ \A i \in 1..(2 - 1 + 1) : SubSeq(p, 1, 2)[i] = p[1 + i - 1]
      BY <2>2, SubSeqProperties
    <3>2. QED
      BY <2>1, <3>1
  <2>4. u \in Seq(FieldValues) /\ Len(u) = 2 /\ u[1] = Magic /\ u[2] = Version
    BY <1>4, <2>1
  <2>5. \A i \in 1..2 : s[i] = u[i]
    <3>1. s[1] = p[1 + 1 - 1] /\ s[2] = p[1 + 2 - 1]
      BY <2>3
    <3>2. s[1] = p[1] /\ s[2] = p[2]
      BY <3>1
    <3>3. QED
      BY <1>3, <2>4, <3>2
  <2>6. s = u
    BY <2>3, <2>4, <2>5, SeqEqual
  <2>7. QED
    BY <2>1, <2>6
<1>7. QED
  BY <1>3, <1>5, <1>6

LEMMA SmallPartsCoded ==
  ASSUME ModelParameters, NEW m \in Models
  PROVE  /\ PersistencePart(m) \in Blobs /\ 5 = Len(PersistencePart(m))
         /\ OperatorPart(m) \in Blobs /\ 3 = Len(OperatorPart(m))
         /\ MetaPart(m) \in Blobs /\ 2 = Len(MetaPart(m))
<1>1. PICK p, o, a : p = m.persistence /\ o = m.operator /\ a = m.meta
  OBVIOUS
<1>2. p \in Persistences /\ o \in OperatorRegions /\ a \in MetaRegions
  BY <1>1, ModelFields
<1>3. /\ p.persists \in Int /\ p.failedPersists \in Int /\ p.restores \in Int
      /\ p.failedRestores \in Int /\ p.threshold \in Int
      /\ o.intents \in Int /\ o.help \in Int /\ o.unknown \in Int
      /\ a.assessments \in Int /\ a.state \in MetaStates
  BY <1>2 DEF Persistences, OperatorRegions, MetaRegions, ModelParameters
<1>4. PersistencePart(m) \in Seq(Int) /\ 5 = Len(PersistencePart(m))
  BY <1>1, <1>3 DEF PersistencePart
<1>5. OperatorPart(m) \in Seq(Int) /\ 3 = Len(OperatorPart(m))
  BY <1>1, <1>3 DEF OperatorPart
<1>6. MetaPart(m) \in Blobs /\ 2 = Len(MetaPart(m))
  <2>1. a.assessments \in FieldValues /\ a.state \in FieldValues
    BY <1>3 DEF FieldValues, Words
  <2>2. QED
    BY <1>1, <2>1 DEF MetaPart, Blobs
<1>7. PersistencePart(m) \in Blobs /\ OperatorPart(m) \in Blobs
  BY <1>4, <1>5, SeqMonotonic DEF Blobs, FieldValues
<1>8. QED
  BY <1>4, <1>5, <1>6, <1>7

LEMMA DevicesIsBlob ==
  ASSUME NEW list \in DeviceLists
  PROVE  EncodeDevices(list) \in Blobs
<1>1. CASE list = <<>>
  <2>1. EncodeDevices(list) = <<0>> /\ <<0>> \in Seq(FieldValues)
    BY <1>1, NoDeviceCode, NumberFields
  <2>2. QED
    BY <2>1 DEF Blobs
<1>2. CASE list # <<>>
  <2>1. PICK a \in StorageAgents : list = <<a>>
    BY <1>2 DEF DeviceLists
  <2>2. QED
    BY <2>1, DeviceCode DEF Blobs
<1>3. QED
  BY <1>1, <1>2

LEMMA DevicesTaken ==
  ASSUME NEW r, NEW list \in DeviceLists, NEW rest \in Blobs, NEW code, code = EncodeDevices(list),
         Offers(r, code, rest)
  PROVE  DecodeDevices(r) = Taken(rest, list)
BY DevicesRead DEF Blobs

LEMMA RegionsCoded ==
  ASSUME NEW m \in Models
  PROVE  /\ EncodeDiscrete(m.persistence.model) \in Blobs
         /\ EncodeDiscrete(m.operator.model) \in Blobs
         /\ EncodeDiscrete(m.meta.model) \in Blobs
<1>1. m.persistence \in Persistences /\ m.operator \in OperatorRegions /\ m.meta \in MetaRegions
  BY ModelFields
<1>2. m.persistence.model \in Discretes(<<7, 7, 6>>) /\ m.operator.model \in Discretes(<<4, 12, 5>>)
      /\ m.meta.model \in Discretes(<<4, 3, 5>>)
  BY <1>1 DEF Persistences, OperatorRegions, MetaRegions
<1>3. QED
  BY <1>2, DiscreteCoded, DimsTyped DEF Blobs

LEMMA CountedIsBlob ==
  ASSUME NEW s \in Blobs
  PROVE  Counted(s) \in Blobs
BY CountedTyped DEF Blobs

\* A model that was encoded decodes to itself, and its header to its counters:
\* no field moves, whatever the lengths of the lists, the graph and the windows.
THEOREM DecodeInvertsEncode ==
  ASSUME ModelParameters, NEW m \in Models
  PROVE  Encode(m) \in Blobs /\ Header(Encode(m)) = HeaderOf(m) /\ Decode(Encode(m)) = m
<1>1. PICK d2, d4, d6 : /\ d2 = EncodeDiscrete(m.persistence.model)
                        /\ d4 = EncodeDiscrete(m.operator.model)
                        /\ d6 = EncodeDiscrete(m.meta.model)
  OBVIOUS
<1>2. PICK p0, p1, p2, p3, p4, p5, p6, p7, p8, p9, p10, p11, p12, p13 :
        /\ p0 = HeaderPart(m) /\ p1 = EncodeDevices(m.devices) /\ p2 = Counted(d2)
        /\ p3 = PersistencePart(m) /\ p4 = Counted(d4) /\ p5 = OperatorPart(m) /\ p6 = Counted(d6)
        /\ p7 = MetaPart(m) /\ p8 = EncodeGraph(m.graph) /\ p9 = <<m.hypotheses>>
        /\ p10 = EncodePreferences(m.preferences) /\ p11 = EncodeCounts(m.counts)
        /\ p12 = EncodeRegistry(m.agents) /\ p13 = EncodeHistory(m.history)
  OBVIOUS
<1>3. d2 \in Blobs /\ d4 \in Blobs /\ d6 \in Blobs
  BY <1>1, RegionsCoded
<1>4. /\ p0 \in Blobs /\ 7 = Len(p0) /\ SubSeq(p0, 1, 2) = <<Magic, Version>>
      /\ p0[3] = m.lamport /\ p0[4] = m.boots /\ p0[5] = m.total /\ p0[6] = m.learned /\ p0[7] = m.risk
  BY <1>2, HeaderPartCoded
<1>5. p3 \in Blobs /\ 5 = Len(p3) /\ p5 \in Blobs /\ 3 = Len(p5) /\ p7 \in Blobs /\ 2 = Len(p7)
  BY <1>2, SmallPartsCoded
<1>6. p2 \in Blobs /\ p4 \in Blobs /\ p6 \in Blobs
  BY <1>2, <1>3, CountedIsBlob
<1>7. p1 \in Blobs /\ m.devices \in DeviceLists
  BY <1>2, ModelFields, DevicesIsBlob
<1>8. /\ m.graph \in CausalGraphs /\ m.hypotheses = 0 /\ m.preferences = Preferences
      /\ m.counts \in CountsTyped /\ m.agents \in Registries /\ m.history \in Histories
  BY ModelFields
<1>9. p9 \in Blobs /\ 1 = Len(p9) /\ p9[1] = m.hypotheses
  BY <1>2, <1>8, NumberFields DEF Blobs
<1>10. PICK end : end = <<>>
  OBVIOUS
<1>11. end \in Blobs
  BY <1>10 DEF Blobs
<1>12. p8 \in Blobs /\ p10 \in Blobs
  BY <1>2, <1>8, <1>11, GraphRead, PreferencesRead
<1>13. p11 \in Blobs /\ p12 \in Blobs /\ p13 \in Blobs
  BY <1>2, <1>8, <1>11, CountsRead, RegistryRead, HistoryRead
<1>14. PICK c1 \in Blobs : Joins(c1, p0, p1)
  BY <1>4, <1>7, Joinable
<1>15. PICK c2 \in Blobs : Joins(c2, c1, p2)
  BY <1>14, <1>6, Joinable
<1>16. PICK c3 \in Blobs : Joins(c3, c2, p3)
  BY <1>15, <1>5, Joinable
<1>17. PICK c4 \in Blobs : Joins(c4, c3, p4)
  BY <1>16, <1>6, Joinable
<1>18. PICK c5 \in Blobs : Joins(c5, c4, p5)
  BY <1>17, <1>5, Joinable
<1>19. PICK c6 \in Blobs : Joins(c6, c5, p6)
  BY <1>18, <1>6, Joinable
<1>20. PICK c7 \in Blobs : Joins(c7, c6, p7)
  BY <1>19, <1>5, Joinable
<1>21. PICK c8 \in Blobs : Joins(c8, c7, p8)
  BY <1>12, <1>20, Joinable
<1>22. PICK c9 \in Blobs : Joins(c9, c8, p9)
  BY <1>21, <1>9, Joinable
<1>23. PICK c10 \in Blobs : Joins(c10, c9, p10)
  BY <1>12, <1>22, Joinable
<1>24. PICK c11 \in Blobs : Joins(c11, c10, p11)
  BY <1>13, <1>23, Joinable
<1>25. PICK c12 \in Blobs : Joins(c12, c11, p12)
  BY <1>13, <1>24, Joinable
<1>26. PICK c13 \in Blobs : Joins(c13, c12, p13)
  BY <1>13, <1>25, Joinable
<1>27. Encode(m) = c13
  BY <1>1, <1>2, <1>14, <1>15, <1>16, <1>17, <1>18, <1>19, <1>20, <1>21, <1>22, <1>23, <1>24,
      <1>25, <1>26
  DEF Encode, Joins, HeaderPart, PersistencePart, OperatorPart, MetaPart
<1>28. PICK t12 \in Blobs : Joins(t12, p13, end)
  BY <1>13, <1>11, Joinable
<1>29. PICK t11 \in Blobs : Joins(t11, p12, t12)
  BY <1>13, <1>28, Joinable
<1>30. PICK t10 \in Blobs : Joins(t10, p11, t11)
  BY <1>13, <1>29, Joinable
<1>31. PICK t9 \in Blobs : Joins(t9, p10, t10)
  BY <1>12, <1>30, Joinable
<1>32. PICK t8 \in Blobs : Joins(t8, p9, t9)
  BY <1>9, <1>31, Joinable
<1>33. PICK t7 \in Blobs : Joins(t7, p8, t8)
  BY <1>12, <1>32, Joinable
<1>34. PICK t6 \in Blobs : Joins(t6, p7, t7)
  BY <1>5, <1>33, Joinable
<1>35. PICK t5 \in Blobs : Joins(t5, p6, t6)
  BY <1>6, <1>34, Joinable
<1>36. PICK t4 \in Blobs : Joins(t4, p5, t5)
  BY <1>5, <1>35, Joinable
<1>37. PICK t3 \in Blobs : Joins(t3, p4, t4)
  BY <1>6, <1>36, Joinable
<1>38. PICK t2 \in Blobs : Joins(t2, p3, t3)
  BY <1>5, <1>37, Joinable
<1>39. PICK t1 \in Blobs : Joins(t1, p2, t2)
  BY <1>6, <1>38, Joinable
<1>40. PICK t0 \in Blobs : Joins(t0, p1, t1)
  BY <1>7, <1>39, Joinable
<1>41. PICK r : r = Reading(c13)
  OBVIOUS
<1>42. Offers(r, c13, end)
  BY <1>10, <1>26, <1>41, ConcatEmptySeq DEF Offers, Reading, Blobs
<1>43. Offers(r, c12, t12)
  BY <1>42, <1>26, <1>28, <1>13, <1>11, <1>25, OffersFirst
<1>44. Offers(r, c11, t11)
  BY <1>43, <1>25, <1>29, <1>13, <1>28, <1>24, OffersFirst
<1>45. Offers(r, c10, t10)
  BY <1>44, <1>24, <1>30, <1>13, <1>29, <1>23, OffersFirst
<1>46. Offers(r, c9, t9)
  BY <1>45, <1>23, <1>31, <1>12, <1>30, <1>22, OffersFirst
<1>47. Offers(r, c8, t8)
  BY <1>46, <1>22, <1>32, <1>9, <1>31, <1>21, OffersFirst
<1>48. Offers(r, c7, t7)
  BY <1>47, <1>21, <1>33, <1>12, <1>32, <1>20, OffersFirst
<1>49. Offers(r, c6, t6)
  BY <1>48, <1>20, <1>34, <1>5, <1>33, <1>19, OffersFirst
<1>50. Offers(r, c5, t5)
  BY <1>49, <1>19, <1>35, <1>6, <1>34, <1>18, OffersFirst
<1>51. Offers(r, c4, t4)
  BY <1>50, <1>18, <1>36, <1>5, <1>35, <1>17, OffersFirst
<1>52. Offers(r, c3, t3)
  BY <1>51, <1>17, <1>37, <1>6, <1>36, <1>16, OffersFirst
<1>53. Offers(r, c2, t2)
  BY <1>52, <1>16, <1>38, <1>5, <1>37, <1>15, OffersFirst
<1>54. Offers(r, c1, t1)
  BY <1>53, <1>15, <1>39, <1>6, <1>38, <1>14, OffersFirst
<1>55. Offers(r, p0, t0)
  BY <1>54, <1>14, <1>40, <1>7, <1>39, <1>4, OffersFirst
<1>56. PICK r0, r1, r2, r3, r4, r5, r6, r7, r8, r9, r10, r11, r12, r13 :
        /\ r0 = Fields(r, 7) /\ r1 = DecodeDevices(r0) /\ r2 = Block(r1) /\ r3 = Fields(r2, 5)
        /\ r4 = Block(r3) /\ r5 = Fields(r4, 3) /\ r6 = Block(r5) /\ r7 = Fields(r6, 2)
        /\ r8 = DecodeGraph(r7) /\ r9 = Fields(r8, 1) /\ r10 = DecodePreferences(r9)
        /\ r11 = DecodeCounts(r10) /\ r12 = DecodeRegistry(r11) /\ r13 = DecodeHistory(r12)
  OBVIOUS
<1>57. r0 = Taken(t0, p0)
  <2>1. Fields(r, 7) = Taken(t0, p0)
    BY <1>4, <1>55, <1>40, FieldsTaken
  <2>2. QED
    BY <1>56, <2>1
<1>58. r1 = Taken(t1, m.devices)
  <2>1. Offers(r0, p1, t1)
    BY <1>40, <1>57, TakenNext
  <2>2. DecodeDevices(r0) = Taken(t1, m.devices)
    BY <1>2, <1>7, <1>39, <2>1, DevicesTaken
  <2>3. QED
    BY <1>56, <2>2
<1>59. r2 = Taken(t2, d2)
  <2>1. Offers(r1, p2, t2)
    BY <1>39, <1>58, TakenNext
  <2>2. Block(r1) = Taken(t2, d2)
    BY <1>2, <1>3, <1>38, <2>1, BlockTaken
  <2>3. QED
    BY <1>56, <2>2
<1>60. r3 = Taken(t3, p3)
  <2>1. Offers(r2, p3, t3)
    BY <1>38, <1>59, TakenNext
  <2>2. Fields(r2, 5) = Taken(t3, p3)
    BY <1>5, <1>37, <2>1, FieldsTaken
  <2>3. QED
    BY <1>56, <2>2
<1>61. r4 = Taken(t4, d4)
  <2>1. Offers(r3, p4, t4)
    BY <1>37, <1>60, TakenNext
  <2>2. Block(r3) = Taken(t4, d4)
    BY <1>2, <1>3, <1>36, <2>1, BlockTaken
  <2>3. QED
    BY <1>56, <2>2
<1>62. r5 = Taken(t5, p5)
  <2>1. Offers(r4, p5, t5)
    BY <1>36, <1>61, TakenNext
  <2>2. Fields(r4, 3) = Taken(t5, p5)
    BY <1>5, <1>35, <2>1, FieldsTaken
  <2>3. QED
    BY <1>56, <2>2
<1>63. r6 = Taken(t6, d6)
  <2>1. Offers(r5, p6, t6)
    BY <1>35, <1>62, TakenNext
  <2>2. Block(r5) = Taken(t6, d6)
    BY <1>2, <1>3, <1>34, <2>1, BlockTaken
  <2>3. QED
    BY <1>56, <2>2
<1>64. r7 = Taken(t7, p7)
  <2>1. Offers(r6, p7, t7)
    BY <1>34, <1>63, TakenNext
  <2>2. Fields(r6, 2) = Taken(t7, p7)
    BY <1>5, <1>33, <2>1, FieldsTaken
  <2>3. QED
    BY <1>56, <2>2
<1>65. r8 = Taken(t8, m.graph)
  <2>1. Offers(r7, p8, t8)
    BY <1>33, <1>64, TakenNext
  <2>2. DecodeGraph(r7) = Taken(t8, m.graph)
    BY <1>2, <1>8, <1>32, <2>1, GraphRead
  <2>3. QED
    BY <1>56, <2>2
<1>66. r9 = Taken(t9, p9)
  <2>1. Offers(r8, p9, t9)
    BY <1>32, <1>65, TakenNext
  <2>2. Fields(r8, 1) = Taken(t9, p9)
    BY <1>9, <1>31, <2>1, FieldsTaken
  <2>3. QED
    BY <1>56, <2>2
<1>67. r10 = Taken(t10, Preferences)
  <2>1. Offers(r9, p10, t10)
    BY <1>31, <1>66, TakenNext
  <2>2. DecodePreferences(r9) = Taken(t10, Preferences)
    BY <1>2, <1>8, <1>30, <2>1, PreferencesRead
  <2>3. QED
    BY <1>56, <2>2
<1>68. r11 = Taken(t11, m.counts)
  <2>1. Offers(r10, p11, t11)
    BY <1>30, <1>67, TakenNext
  <2>2. DecodeCounts(r10) = Taken(t11, m.counts)
    BY <1>2, <1>8, <1>29, <2>1, CountsRead
  <2>3. QED
    BY <1>56, <2>2
<1>69. r12 = Taken(t12, m.agents)
  <2>1. Offers(r11, p12, t12)
    BY <1>29, <1>68, TakenNext
  <2>2. DecodeRegistry(r11) = Taken(t12, m.agents)
    BY <1>2, <1>8, <1>28, <2>1, RegistryRead
  <2>3. QED
    BY <1>56, <2>2
<1>70. r13 = Taken(end, m.history)
  <2>1. Offers(r12, p13, end)
    BY <1>28, <1>69, TakenNext
  <2>2. DecodeHistory(r12) = Taken(end, m.history)
    BY <1>2, <1>8, <1>11, <2>1, HistoryRead
  <2>3. QED
    BY <1>56, <2>2
<1>71. r0.val = p0 /\ r1.val = m.devices /\ r2.val = d2 /\ r3.val = p3 /\ r4.val = d4
      /\ r5.val = p5 /\ r6.val = d6 /\ r7.val = p7 /\ r8.val = m.graph /\ r9.val = p9
      /\ r10.val = Preferences /\ r11.val = m.counts /\ r12.val = m.agents /\ r13.val = m.history /\ r13.ok = TRUE /\ r0.ok = TRUE
  BY <1>57, <1>58, <1>59, <1>60, <1>61, <1>62, <1>63, <1>64, <1>65, <1>66, <1>67, <1>68, <1>69,
      <1>70 DEF Taken
<1>72. Header(c13) = HeaderOf(m)
  BY <1>4, <1>41, <1>56, <1>71 DEF Header, HeaderOf
<1>73. HeaderOf(m) # Unreadable
  <2>1. PICK h, u : h = HeaderOf(m) /\ u = Unreadable
    OBVIOUS
  <2>2. "lamport" \in DOMAIN h /\ ~ ("lamport" \in DOMAIN u)
    BY <2>1 DEF HeaderOf, Unreadable
  <2>3. QED
    BY <2>1, <2>2
<1>74. PICK p, o, a : /\ p = m.persistence /\ o = m.operator /\ a = m.meta
  OBVIOUS
<1>75. /\ p3[1] = p.persists /\ p3[2] = p.failedPersists /\ p3[3] = p.restores /\ p3[4] = p.failedRestores
      /\ p3[5] = p.threshold
      /\ p5[1] = o.intents /\ p5[2] = o.help /\ p5[3] = o.unknown
      /\ p7[1] = a.assessments /\ p7[2] = a.state
  BY <1>2, <1>74 DEF PersistencePart, OperatorPart, MetaPart
<1>76. PICK pr, orr, ar :
        /\ pr = [RestoreFromBytes(Persistence, r2.val) EXCEPT
                  !.persists = r3.val[1], !.failedPersists = r3.val[2], !.restores = r3.val[3],
                  !.failedRestores = r3.val[4], !.threshold = r3.val[5]]
        /\ orr = [RestoreFromBytes(Operator, r4.val) EXCEPT
                  !.intents = r5.val[1], !.help = r5.val[2], !.unknown = r5.val[3]]
        /\ ar = [RestoreFromBytes(MetaRegion, r6.val) EXCEPT !.assessments = r7.val[1], !.state = r7.val[2]]
  OBVIOUS
<1>77. pr = p /\ orr = o /\ ar = a
  <2>1. p \in Persistences /\ o \in OperatorRegions /\ a \in MetaRegions
    BY <1>74, ModelFields
  <2>2. d2 = EncodeDiscrete(p.model) /\ d4 = EncodeDiscrete(o.model) /\ d6 = EncodeDiscrete(a.model)
    BY <1>1, <1>74
  <2>3. pr = [RestoreFromBytes(Persistence, EncodeDiscrete(p.model)) EXCEPT
                !.persists = p.persists, !.failedPersists = p.failedPersists, !.restores = p.restores,
                !.failedRestores = p.failedRestores, !.threshold = p.threshold]
    <3>1. r2.val = EncodeDiscrete(p.model) /\ r3.val = p3
      BY <1>71, <2>2
    <3>2. QED
      BY <1>75, <1>76, <3>1, Zenon
  <2>4. orr = [RestoreFromBytes(Operator, EncodeDiscrete(o.model)) EXCEPT
                 !.intents = o.intents, !.help = o.help, !.unknown = o.unknown]
    <3>1. r4.val = EncodeDiscrete(o.model) /\ r5.val = p5
      BY <1>71, <2>2
    <3>2. QED
      BY <1>75, <1>76, <3>1, Zenon
  <2>5. ar = [RestoreFromBytes(MetaRegion, EncodeDiscrete(a.model)) EXCEPT
                !.assessments = a.assessments, !.state = a.state]
    <3>1. r6.val = EncodeDiscrete(a.model) /\ r7.val = p7
      BY <1>71, <2>2
    <3>2. QED
      BY <1>75, <1>76, <3>1, Zenon
  <2>6. pr = p
    BY <2>1, <2>3, PersistenceRestored
  <2>7. orr = o
    BY <2>1, <2>4, OperatorRestored
  <2>8. ar = a
    BY <2>1, <2>5, MetaRestored
  <2>9. QED
    BY <2>6, <2>7, <2>8
<1>78. PICK h : h = Header(c13)
  OBVIOUS
<1>79. Decode(c13) =
        IF h = Unreadable \/ ~ r13.ok THEN Unreadable
        ELSE [lamport |-> h.lamport, boots |-> h.boots, total |-> h.total, learned |-> h.learned,
              risk |-> h.risk, devices |-> r1.val, persistence |-> pr, operator |-> orr, meta |-> ar,
              graph |-> r8.val, hypotheses |-> r9.val[1], preferences |-> r10.val, counts |-> r11.val,
              agents |-> r12.val, history |-> r13.val]
  BY <1>41, <1>56, <1>76, <1>78, Zenon DEF Decode
<1>80. Decode(c13) =
        [lamport |-> h.lamport, boots |-> h.boots, total |-> h.total, learned |-> h.learned,
         risk |-> h.risk, devices |-> r1.val, persistence |-> pr, operator |-> orr, meta |-> ar,
         graph |-> r8.val, hypotheses |-> r9.val[1], preferences |-> r10.val, counts |-> r11.val,
         agents |-> r12.val, history |-> r13.val]
  BY <1>71, <1>72, <1>73, <1>78, <1>79, Zenon
<1>81. h.lamport = m.lamport /\ h.boots = m.boots /\ h.total = m.total /\ h.learned = m.learned /\ h.risk = m.risk
  BY <1>72, <1>78 DEF HeaderOf
<1>82. Decode(c13) = m
  <2>1. Decode(c13) =
          [lamport |-> m.lamport, boots |-> m.boots, total |-> m.total, learned |-> m.learned,
           risk |-> m.risk, devices |-> m.devices, persistence |-> m.persistence, operator |-> m.operator,
           meta |-> m.meta, graph |-> m.graph, hypotheses |-> m.hypotheses,
           preferences |-> m.preferences, counts |-> m.counts, agents |-> m.agents, history |-> m.history]
    BY <1>8, <1>9, <1>80, <1>81, <1>77, <1>74, <1>71
  <2>2. QED
    BY <2>1, ModelFields
<1>83. QED
  BY <1>26, <1>27, <1>72, <1>82

-----------------------------------------------------------------------------
(***************************************************************************)
(* Sums of counts.                                                         *)
(***************************************************************************)
Sums(g, s) ==
  /\ g \in [0..Len(s) -> Nat] /\ g[0] = 0
  /\ \A n \in 1..Len(s) : g[n] = g[n - 1] + s[n]

LEMMA TotalIs ==
  ASSUME NEW s \in Seq(Nat)
  PROVE  \E g : Sums(g, s) /\ Total(s) = g[Len(s)]
<1>1. PICK len : len = Len(s)
  OBVIOUS
<1>2. len \in Nat /\ \A n \in 1..len : s[n] \in Nat
  BY <1>1
<1>3. PICK step : step = [n \in 1..len |-> [x \in Nat |-> x + s[n]]]
  OBVIOUS
<1>4. step \in StepsOn(Nat, len)
  <2>1. ASSUME NEW n \in 1..len
        PROVE  [x \in Nat |-> x + s[n]] \in [Nat -> Nat]
    <3>1. s[n] \in Nat
      BY <1>2
    <3>2. PICK k : k = s[n]
      OBVIOUS
    <3>3. [x \in Nat |-> x + k] \in [Nat -> Nat]
      BY <3>1, <3>2
    <3>4. QED
      BY <3>2, <3>3
  <2>2. QED
    BY <1>3, <2>1 DEF StepsOn
<1>5. PICK g : Follows(g, Nat, 0, len, step)
  BY <1>2, <1>4, Recursion
<1>6. /\ g \in [0..len -> Nat] /\ g[0] = 0
      /\ \A n \in 1..len : g[n] = g[n - 1] + s[n]
  <2>1. \A n \in 1..len : n - 1 \in 0..len
    BY <1>2
  <2>2. QED
    BY <1>3, <1>5, <2>1 DEF Follows
<1> DEFINE Chain(h) == h = [n \in 0..Len(s) |-> IF n = 0 THEN 0 ELSE h[n - 1] + s[n]]
<1>7. Chain(g)
  <2>1. PICK again : again = [n \in 0..len |-> IF n = 0 THEN 0 ELSE g[n - 1] + s[n]]
    OBVIOUS
  <2>2. \A n \in 0..len : g[n] = again[n]
    BY <1>2, <1>6, <2>1
  <2>3. g = [n \in 0..len |-> g[n]] /\ again = [n \in 0..len |-> again[n]]
    BY <1>6, <2>1
  <2>4. g = again
    BY <2>2, <2>3
  <2>5. QED
    BY <1>1, <2>1, <2>4
<1>8. PICK h : h = CHOOSE f : Chain(f)
  OBVIOUS
<1>9. Chain(h)
  BY <1>7, <1>8
<1>10. Total(s) = h[len]
  BY <1>1, <1>8 DEF Total
<1>11. h[0] = 0 /\ \A n \in 1..len : h[n] = h[n - 1] + s[n]
  <2>1. h = [n \in 0..len |-> IF n = 0 THEN 0 ELSE h[n - 1] + s[n]]
    BY <1>1, <1>9
  <2>2. 0 \in 0..len /\ \A n \in 1..len : n \in 0..len /\ n # 0
    BY <1>2
  <2>3. QED
    BY <2>1, <2>2
<1> HIDE DEF Chain
<1> DEFINE T == {n \in 0..len : h[n] = g[n]}
<1>12. 0 \in T
  BY <1>2, <1>6, <1>11
<1>13. ASSUME NEW n \in 1..len, n - 1 \in T
       PROVE  n \in T
  <2>1. h[n - 1] = g[n - 1] /\ n \in 0..len
    BY <1>2, <1>13
  <2>2. h[n] = g[n]
    BY <1>6, <1>11, <2>1
  <2>3. QED
    BY <2>1, <2>2
<1> HIDE DEF T
<1>14. len \in T
  <2>1. \A n \in 0..len : n \in T
    BY <1>2, <1>12, <1>13, UpTo
  <2>2. QED
    BY <1>2, <2>1
<1>15. Total(s) = g[len]
  BY <1>10, <1>14 DEF T
<1>16. QED
  BY <1>1, <1>6, <1>15 DEF Sums

LEMMA TotalNone == Total(<<>>) = 0
<1> <<>> \in Seq(Nat)
  OBVIOUS
<1>1. PICK s \in Seq(Nat) : s = <<>>
  OBVIOUS
<1>2. PICK g : Sums(g, s) /\ Total(s) = g[Len(s)]
  BY TotalIs
<1>3. Len(s) = 0
  BY <1>1
<1>4. QED
  BY <1>1, <1>2, <1>3 DEF Sums

LEMMA TotalTyped ==
  ASSUME NEW s \in Seq(Nat)
  PROVE  Total(s) \in Nat
<1>1. PICK g : Sums(g, s) /\ Total(s) = g[Len(s)]
  BY TotalIs
<1>2. QED
  BY <1>1 DEF Sums

LEMMA TotalAppended ==
  ASSUME NEW s \in Seq(Nat), NEW x \in Nat, NEW t, t = Append(s, x)
  PROVE  t \in Seq(Nat) /\ Total(t) = Total(s) + x
<1>1. PICK len : len = Len(s)
  OBVIOUS
<1>2. len \in Nat /\ t \in Seq(Nat) /\ Len(t) = len + 1 /\ t[len + 1] = x /\ \A n \in 1..len : t[n] = s[n]
  BY <1>1
<1>3. PICK g : Sums(g, s) /\ Total(s) = g[len]
  BY <1>1, TotalIs
<1>4. PICK h : Sums(h, t) /\ Total(t) = h[len + 1]
  <2>1. PICK h : Sums(h, t) /\ Total(t) = h[Len(t)]
    BY <1>2, TotalIs
  <2>2. QED
    BY <1>2, <2>1
<1>5. g \in [0..len -> Nat] /\ g[0] = 0 /\ \A n \in 1..len : g[n] = g[n - 1] + s[n]
  BY <1>1, <1>3 DEF Sums
<1>6. h \in [0..(len + 1) -> Nat] /\ h[0] = 0 /\ \A n \in 1..(len + 1) : h[n] = h[n - 1] + t[n]
  BY <1>2, <1>4 DEF Sums
<1> DEFINE T == {n \in 0..len : h[n] = g[n]}
<1>7. 0 \in T
  BY <1>2, <1>5, <1>6
<1>8. ASSUME NEW n \in 1..len, n - 1 \in T
      PROVE  n \in T
  <2>1. h[n - 1] = g[n - 1] /\ n \in 0..len /\ n \in 1..(len + 1)
    BY <1>2, <1>8
  <2>2. h[n] = g[n]
    BY <1>2, <1>5, <1>6, <2>1
  <2>3. QED
    BY <2>1, <2>2
<1> HIDE DEF T
<1>9. h[len] = g[len]
  <2>1. \A n \in 0..len : n \in T
    BY <1>2, <1>7, <1>8, UpTo
  <2>2. len \in T
    BY <1>2, <2>1
  <2>3. QED
    BY <2>2 DEF T
<1>10. h[len + 1] = h[len] + x
  <2>1. len + 1 \in 1..(len + 1) /\ (len + 1) - 1 = len
    BY <1>2
  <2>2. h[len + 1] = h[(len + 1) - 1] + t[len + 1]
    BY <1>6, <2>1
  <2>3. QED
    BY <1>2, <2>1, <2>2
<1>11. QED
  BY <1>2, <1>3, <1>4, <1>9, <1>10

LEMMA TotalRaised ==
  ASSUME NEW s \in Seq(Nat), NEW k \in DOMAIN s, NEW t, t = [s EXCEPT ![k] = s[k] + 1]
  PROVE  t \in Seq(Nat) /\ Total(t) = Total(s) + 1
<1>1. PICK len : len = Len(s)
  OBVIOUS
<1>2. /\ len \in Nat /\ k \in 1..len /\ t \in Seq(Nat) /\ Len(t) = len /\ t[k] = s[k] + 1
      /\ \A n \in 1..len : s[n] \in Nat /\ (n # k => t[n] = s[n])
  BY <1>1
<1>3. PICK g : Sums(g, s) /\ Total(s) = g[len]
  BY <1>1, TotalIs
<1>4. PICK h : Sums(h, t) /\ Total(t) = h[len]
  <2>1. PICK h : Sums(h, t) /\ Total(t) = h[Len(t)]
    BY <1>2, TotalIs
  <2>2. QED
    BY <1>2, <2>1
<1>5. g \in [0..len -> Nat] /\ g[0] = 0 /\ \A n \in 1..len : g[n] = g[n - 1] + s[n]
  BY <1>1, <1>3 DEF Sums
<1>6. h \in [0..len -> Nat] /\ h[0] = 0 /\ \A n \in 1..len : h[n] = h[n - 1] + t[n]
  BY <1>2, <1>4 DEF Sums
<1> DEFINE T == {n \in 0..len : h[n] = g[n] + IF n < k THEN 0 ELSE 1}
<1>7. 0 \in T
  <2>1. 0 < k
    BY <1>2
  <2>2. QED
    BY <1>2, <1>5, <1>6, <2>1
<1>8. ASSUME NEW n \in 1..len, n - 1 \in T
      PROVE  n \in T
  <2>1. PICK a, b, c, d : a = g[n - 1] /\ b = h[n - 1] /\ c = s[n] /\ d = t[n]
    OBVIOUS
  <2>2. n \in 0..len /\ n - 1 \in 0..len /\ a \in Nat /\ b \in Nat /\ c \in Nat
    <3>1. n \in 0..len /\ n - 1 \in 0..len
      BY <1>2
    <3>2. a \in Nat /\ b \in Nat
      BY <1>5, <1>6, <2>1, <3>1
    <3>3. c \in Nat
      BY <1>2, <2>1
    <3>4. QED
      BY <3>1, <3>2, <3>3
  <2>3. b = a + IF n - 1 < k THEN 0 ELSE 1
    BY <1>8, <2>1
  <2>4. d = c + IF n = k THEN 1 ELSE 0
    BY <1>2, <2>1, <2>2
  <2>5. g[n] = a + c /\ h[n] = b + d
    BY <1>5, <1>6, <2>1
  <2>6. b + d = (a + c) + IF n < k THEN 0 ELSE 1
    BY <1>2, <2>2, <2>3, <2>4
  <2>7. QED
    BY <2>2, <2>5, <2>6
<1> HIDE DEF T
<1>9. h[len] = g[len] + 1
  <2>1. \A n \in 0..len : n \in T
    BY <1>2, <1>7, <1>8, UpTo
  <2>2. len \in T
    BY <1>2, <2>1
  <2>3. ~ (len < k)
    BY <1>2
  <2>4. QED
    BY <2>2, <2>3 DEF T
<1>10. QED
  BY <1>2, <1>3, <1>4, <1>9

\* The observations of a list of nodes, or of edges, of the causal graph.
Seen(list) == [i \in DOMAIN list |-> list[i].observations]
Counting(X) == \A x \in X : x.observations \in Nat

LEMMA SeenTyped ==
  ASSUME NEW X, Counting(X), NEW list \in Seq(X)
  PROVE  Seen(list) \in Seq(Nat) /\ DOMAIN Seen(list) = DOMAIN list
<1>1. \A i \in DOMAIN list : list[i] \in X
  BY ElementOfSeq, LenProperties
<1>2. PICK t : t = Seen(list)
  OBVIOUS
<1>3. DOMAIN t = DOMAIN list /\ t = [i \in DOMAIN list |-> t[i]]
      /\ \A i \in DOMAIN list : list[i] \in X => t[i] \in Nat
  BY <1>2 DEF Seen, Counting
<1>4. t \in Seq(Nat)
  BY <1>3, EachTyped
<1>5. QED
  BY <1>2, <1>3, <1>4

LEMMA SeenAppended ==
  ASSUME NEW X, Counting(X), NEW list \in Seq(X), NEW e \in X, NEW more, more = Append(list, e),
         e.observations = 1
  PROVE  more \in Seq(X) /\ Total(Seen(more)) = Total(Seen(list)) + 1
<1>1. more \in Seq(X)
  OBVIOUS
<1>2. PICK s, t : s = Seen(list) /\ t = Append(s, 1)
  OBVIOUS
<1>3. s \in Seq(Nat) /\ DOMAIN s = DOMAIN list
  BY <1>2, SeenTyped
<1>4. PICK len : len = Len(list)
  OBVIOUS
<1>5. len \in Nat /\ DOMAIN list = 1..len /\ DOMAIN more = 1..(len + 1) /\ more[len + 1] = e
      /\ \A i \in 1..len : more[i] = list[i]
  BY <1>4
<1>6. Len(s) = len
  BY <1>3, <1>5
<1>7. DOMAIN t = 1..(len + 1) /\ t[len + 1] = 1 /\ (\A i \in 1..len : t[i] = s[i])
      /\ t = [i \in 1..(len + 1) |-> t[i]]
  <2>1. t \in Seq(Nat) /\ Len(t) = Len(s) + 1 /\ t[Len(s) + 1] = 1 /\ \A i \in 1..Len(s) : t[i] = s[i]
    BY <1>2, <1>3
  <2>2. DOMAIN t = 1..Len(t) /\ t = [i \in 1..Len(t) |-> t[i]]
    BY <2>1
  <2>3. QED
    BY <1>5, <1>6, <2>1, <2>2
<1>8. PICK u : u = Seen(more)
  OBVIOUS
<1>9. u = [i \in 1..(len + 1) |-> u[i]] /\ \A i \in 1..(len + 1) : u[i] = more[i].observations
  BY <1>5, <1>8 DEF Seen
<1>10. ASSUME NEW i \in 1..(len + 1)
       PROVE  u[i] = t[i]
  <2>1. CASE i = len + 1
    BY <1>5, <1>7, <1>9, <2>1
  <2>2. CASE i # len + 1
    <3>1. i \in 1..len
      BY <1>5, <2>2
    <3>2. s[i] = list[i].observations
      BY <1>2, <1>5, <3>1 DEF Seen
    <3>3. QED
      BY <1>5, <1>7, <1>9, <3>1, <3>2
  <2>3. QED
    BY <2>1, <2>2
<1>11. u = t
  BY <1>7, <1>9, <1>10
<1>12. Total(t) = Total(s) + 1
  BY <1>2, <1>3, TotalAppended
<1>13. QED
  BY <1>1, <1>2, <1>8, <1>11, <1>12

LEMMA SeenRaised ==
  ASSUME NEW X, Counting(X), NEW list \in Seq(X), NEW k \in DOMAIN list, NEW more,
         more = [list EXCEPT ![k].observations = @ + 1], more \in Seq(X),
         "observations" \in DOMAIN list[k]
  PROVE  Total(Seen(more)) = Total(Seen(list)) + 1
<1>1. PICK s, t, u : s = Seen(list) /\ t = [s EXCEPT ![k] = s[k] + 1] /\ u = Seen(more)
  OBVIOUS
<1>2. s \in Seq(Nat) /\ DOMAIN s = DOMAIN list
  BY <1>1, SeenTyped
<1>3. /\ DOMAIN more = DOMAIN list /\ more[k].observations = list[k].observations + 1
      /\ \A i \in DOMAIN list : i # k => more[i] = list[i]
  OBVIOUS
<1>4. u = [i \in DOMAIN list |-> u[i]] /\ \A i \in DOMAIN list : u[i] = more[i].observations
  BY <1>1, <1>3 DEF Seen
<1>5. t = [i \in DOMAIN list |-> t[i]] /\ t[k] = s[k] + 1 /\ \A i \in DOMAIN list : i # k => t[i] = s[i]
  BY <1>1, <1>2
<1>6. \A i \in DOMAIN list : s[i] = list[i].observations
  BY <1>1 DEF Seen
<1>7. \A i \in DOMAIN list : u[i] = t[i]
  BY <1>3, <1>4, <1>5, <1>6
<1>8. u = t
  BY <1>4, <1>5, <1>7
<1>9. Total(t) = Total(s) + 1
  BY <1>1, <1>2, TotalRaised
<1>10. QED
  BY <1>1, <1>8, <1>9

-----------------------------------------------------------------------------
(***************************************************************************)
(* The causal graph.                                                       *)
(***************************************************************************)
\* Ids are handed out in order.
GraphSound(g) ==
  /\ g \in CausalGraphs /\ g.next = Len(g.nodes)
  /\ \A i \in DOMAIN g.nodes : g.nodes[i].id = i - 1

Labelled(g, label) == \E i \in DOMAIN g.nodes : g.nodes[i].label = label

LEMMA CountingLists == Counting(CausalNodes) /\ Counting(CausalEdges)
BY DEF Counting, CausalNodes, CausalEdges

LEMMA GraphParts ==
  ASSUME NEW g \in CausalGraphs
  PROVE  /\ g = [nodes |-> g.nodes, edges |-> g.edges, next |-> g.next]
         /\ g.nodes \in Seq(CausalNodes) /\ g.edges \in Seq(CausalEdges) /\ g.next \in Nat
         /\ \A i \in DOMAIN g.nodes : g.nodes[i] \in CausalNodes
         /\ \A i \in DOMAIN g.edges : g.edges[i] \in CausalEdges
<1>1. /\ g = [nodes |-> g.nodes, edges |-> g.edges, next |-> g.next]
      /\ g.nodes \in Seq(CausalNodes) /\ g.edges \in Seq(CausalEdges) /\ g.next \in Nat
  BY DEF CausalGraphs
<1>2. PICK ns, es : ns = g.nodes /\ es = g.edges
  OBVIOUS
<1>3. (\A i \in DOMAIN ns : ns[i] \in CausalNodes) /\ \A i \in DOMAIN es : es[i] \in CausalEdges
  BY <1>1, <1>2, ElementOfSeq, LenProperties
<1>4. QED
  BY <1>1, <1>2, <1>3

RaisedAt(more, list, k) == more = [list EXCEPT ![k].observations = @ + 1]
SameNames(more, list) ==
  DOMAIN more = DOMAIN list /\ \A i \in DOMAIN list : more[i].id = list[i].id /\ more[i].label = list[i].label

LEMMA NodeRaised ==
  ASSUME NEW list \in Seq(CausalNodes), NEW k \in DOMAIN list, NEW more, RaisedAt(more, list, k)
  PROVE  /\ more \in Seq(CausalNodes) /\ Len(more) = Len(list) /\ SameNames(more, list)
         /\ Total(Seen(more)) = Total(Seen(list)) + 1
<1>1. \A i \in DOMAIN list : list[i] \in CausalNodes
  BY ElementOfSeq, LenProperties
<1>2. PICK n : n = list[k]
  OBVIOUS
<1>3. n \in CausalNodes /\ n = [id |-> n.id, label |-> n.label, region |-> n.region, observations |-> n.observations]
  BY <1>1, <1>2 DEF CausalNodes
<1>4. PICK v : v = [n EXCEPT !.observations = n.observations + 1]
  OBVIOUS
<1>5. v \in CausalNodes /\ v.id = n.id /\ v.label = n.label
  <2>1. v = [id |-> n.id, label |-> n.label, region |-> n.region, observations |-> n.observations + 1]
    BY <1>3, <1>4
  <2>2. n.id \in Nat /\ n.label \in Labels /\ n.region \in Regions /\ n.observations + 1 \in Nat
    BY <1>3 DEF CausalNodes
  <2>3. QED
    BY <2>1, <2>2 DEF CausalNodes
<1>6. more = [list EXCEPT ![k] = v]
  BY <1>2, <1>4 DEF RaisedAt
<1>7. DOMAIN more = DOMAIN list /\ more[k] = v /\ (\A i \in DOMAIN list : i # k => more[i] = list[i])
      /\ more = [i \in DOMAIN list |-> more[i]]
  BY <1>6
<1>8. \A i \in DOMAIN list : list[i] \in CausalNodes => more[i] \in CausalNodes
  BY <1>5, <1>7
<1>9. more \in Seq(CausalNodes) /\ Len(more) = Len(list)
  BY <1>7, <1>8, EachTyped
<1>10. SameNames(more, list)
  BY <1>2, <1>5, <1>7 DEF SameNames
<1>11. "observations" \in DOMAIN list[k]
  BY <1>2, <1>3
<1>12. Total(Seen(more)) = Total(Seen(list)) + 1
  BY <1>9, <1>11, CountingLists, SeenRaised DEF RaisedAt
<1>13. QED
  BY <1>7, <1>9, <1>10, <1>12

LEMMA EdgeRaised ==
  ASSUME NEW list \in Seq(CausalEdges), NEW k \in DOMAIN list, NEW more,
         more = [list EXCEPT ![k].observations = @ + 1]
  PROVE  more \in Seq(CausalEdges) /\ Total(Seen(more)) = Total(Seen(list)) + 1
<1>1. \A i \in DOMAIN list : list[i] \in CausalEdges
  BY ElementOfSeq, LenProperties
<1>2. PICK n : n = list[k]
  OBVIOUS
<1>3. n \in CausalEdges /\ n = [cause |-> n.cause, effect |-> n.effect, observations |-> n.observations]
  BY <1>1, <1>2 DEF CausalEdges
<1>4. PICK v : v = [n EXCEPT !.observations = n.observations + 1]
  OBVIOUS
<1>5. v \in CausalEdges
  <2>1. v = [cause |-> n.cause, effect |-> n.effect, observations |-> n.observations + 1]
    BY <1>3, <1>4
  <2>2. n.cause \in Nat /\ n.effect \in Nat /\ n.observations + 1 \in Nat
    BY <1>3 DEF CausalEdges
  <2>3. QED
    BY <2>1, <2>2 DEF CausalEdges
<1>6. more = [list EXCEPT ![k] = v]
  BY <1>2, <1>4
<1>7. DOMAIN more = DOMAIN list /\ more[k] = v /\ (\A i \in DOMAIN list : i # k => more[i] = list[i])
      /\ more = [i \in DOMAIN list |-> more[i]]
  BY <1>6
<1>8. \A i \in DOMAIN list : list[i] \in CausalEdges => more[i] \in CausalEdges
  BY <1>5, <1>7
<1>9. more \in Seq(CausalEdges)
  BY <1>7, <1>8, EachTyped
<1>10. "observations" \in DOMAIN list[k]
  BY <1>2, <1>3
<1>11. Total(Seen(more)) = Total(Seen(list)) + 1
  BY <1>9, <1>10, CountingLists, SeenRaised
<1>12. QED
  BY <1>9, <1>11

\* What interning a label makes of the graph.
LEMMA LabelInterned ==
  ASSUME NEW g, GraphSound(g), NEW label \in Labels, NEW region \in Regions, NEW h,
         h = Intern(g, label, region)
  PROVE  /\ GraphSound(h) /\ h.edges = g.edges /\ Total(Seen(h.nodes)) = Total(Seen(g.nodes)) + 1
         /\ Labelled(h, label) /\ \A l : Labelled(g, l) => Labelled(h, l)
<1>1. PICK ns, es, len : ns = g.nodes /\ es = g.edges /\ len = Len(ns)
  OBVIOUS
<1>2. /\ g = [nodes |-> ns, edges |-> es, next |-> len] /\ ns \in Seq(CausalNodes)
      /\ es \in Seq(CausalEdges) /\ len \in Nat /\ DOMAIN ns = 1..len
      /\ \A i \in DOMAIN ns : ns[i].id = i - 1
  BY <1>1, GraphParts DEF GraphSound
<1>3. CASE Labelled(g, label)
  <2>1. PICK k : k = CHOOSE i \in DOMAIN ns : ns[i].label = label
    OBVIOUS
  <2>2. k \in DOMAIN ns /\ ns[k].label = label
    BY <1>1, <1>3, <2>1 DEF Labelled
  <2>3. PICK more : more = [ns EXCEPT ![k].observations = @ + 1]
    OBVIOUS
  <2>4. h = [g EXCEPT !.nodes[k].observations = @ + 1]
    BY <1>1, <1>3, <2>1 DEF Intern, Place, Labelled
  <2>5. h = [nodes |-> more, edges |-> es, next |-> len]
    BY <1>2, <2>3, <2>4
  <2>6. /\ more \in Seq(CausalNodes) /\ Len(more) = len /\ DOMAIN more = DOMAIN ns
        /\ \A i \in DOMAIN ns : more[i].id = ns[i].id /\ more[i].label = ns[i].label
        /\ Total(Seen(more)) = Total(Seen(ns)) + 1
    <3>1. ns \in Seq(CausalNodes) /\ k \in DOMAIN ns
      BY <1>2, <2>2
    <3>2. RaisedAt(more, ns, k)
      BY <2>3 DEF RaisedAt
    <3>3. more \in Seq(CausalNodes) /\ Len(more) = Len(ns) /\ SameNames(more, ns)
          /\ Total(Seen(more)) = Total(Seen(ns)) + 1
      BY <3>1, <3>2, NodeRaised
    <3>4. QED
      BY <1>1, <3>3 DEF SameNames
  <2>7. GraphSound(h)
    <3>1. h \in CausalGraphs
      BY <1>2, <2>5, <2>6 DEF CausalGraphs
    <3>2. \A i \in DOMAIN more : more[i].id = i - 1
      BY <1>2, <2>6
    <3>3. h.nodes = more /\ h.next = len
      BY <2>5
    <3>4. QED
      BY <2>6, <3>1, <3>2, <3>3 DEF GraphSound
  <2>8. \A l : Labelled(g, l) => Labelled(h, l)
    <3>1. h.nodes = more
      BY <2>5
    <3>2. QED
      BY <1>1, <2>6, <3>1 DEF Labelled
  <2>9. h.edges = es /\ h.nodes = more
    BY <2>5
  <2>10. QED
    BY <1>1, <1>3, <2>6, <2>7, <2>8, <2>9
<1>4. CASE ~ Labelled(g, label)
  <2>1. PICK n : n = [id |-> len, label |-> label, region |-> region, observations |-> 1]
    OBVIOUS
  <2>2. n \in CausalNodes /\ n.observations = 1 /\ n.id = len /\ n.label = label
    BY <1>2, <2>1 DEF CausalNodes
  <2>3. PICK more : more = Append(ns, n)
    OBVIOUS
  <2>4. h = [g EXCEPT !.nodes = Append(@, n), !.next = @ + 1]
    BY <1>1, <1>2, <1>4, <2>1 DEF Intern, Labelled
  <2>5. h = [nodes |-> more, edges |-> es, next |-> len + 1]
    BY <1>2, <2>3, <2>4
  <2>6. more \in Seq(CausalNodes) /\ Total(Seen(more)) = Total(Seen(ns)) + 1
    <3>1. ns \in Seq(CausalNodes) /\ n \in CausalNodes /\ n.observations = 1
      BY <1>2, <2>2
    <3>2. QED
      BY <2>3, <3>1, CountingLists, SeenAppended
  <2>7. Len(more) = len + 1 /\ DOMAIN more = 1..(len + 1) /\ more[len + 1] = n
        /\ \A i \in 1..len : more[i] = ns[i]
    BY <1>1, <1>2, <2>3
  <2>8. GraphSound(h)
    <3>1. h \in CausalGraphs
      BY <1>2, <2>5, <2>6 DEF CausalGraphs
    <3>2. \A i \in DOMAIN more : more[i].id = i - 1
      BY <1>2, <2>2, <2>7
    <3>3. h.nodes = more /\ h.next = len + 1
      BY <2>5
    <3>4. QED
      BY <2>7, <3>1, <3>2, <3>3 DEF GraphSound
  <2>9. h.edges = es /\ h.nodes = more
    BY <2>5
  <2>10. Labelled(h, label)
    <3>1. len + 1 \in DOMAIN more
      BY <1>2, <2>7
    <3>2. QED
      BY <2>2, <2>7, <2>9, <3>1 DEF Labelled
  <2>11. \A l : Labelled(g, l) => Labelled(h, l)
    <3>1. \A i \in DOMAIN ns : i \in DOMAIN more /\ more[i] = ns[i]
      BY <1>2, <2>7
    <3>2. QED
      BY <1>1, <2>9, <3>1 DEF Labelled
  <2>12. QED
    BY <1>1, <2>6, <2>8, <2>9, <2>10, <2>11
<1>5. QED
  BY <1>3, <1>4

LEMMA EdgeRecorded ==
  ASSUME NEW g, GraphSound(g), NEW c \in Nat, NEW e \in Nat, c # e, NEW h, h = Record(g, c, e)
  PROVE  GraphSound(h) /\ h.nodes = g.nodes /\ Total(Seen(h.edges)) = Total(Seen(g.edges)) + 1
<1>1. PICK ns, es, next : ns = g.nodes /\ es = g.edges /\ next = g.next
  OBVIOUS
<1>2. /\ g = [nodes |-> ns, edges |-> es, next |-> next] /\ ns \in Seq(CausalNodes)
      /\ es \in Seq(CausalEdges) /\ next \in Nat /\ next = Len(ns)
      /\ \A i \in DOMAIN ns : ns[i].id = i - 1
  BY <1>1, GraphParts DEF GraphSound
<1>3. ASSUME NEW more \in Seq(CausalEdges), h = [nodes |-> ns, edges |-> more, next |-> next],
             Total(Seen(more)) = Total(Seen(es)) + 1
      PROVE  GraphSound(h) /\ h.nodes = g.nodes /\ Total(Seen(h.edges)) = Total(Seen(g.edges)) + 1
  <2>1. h \in CausalGraphs
    BY <1>2, <1>3 DEF CausalGraphs
  <2>2. h.nodes = ns /\ h.edges = more /\ h.next = next
    BY <1>3
  <2>3. QED
    BY <1>1, <1>2, <1>3, <2>1, <2>2 DEF GraphSound
<1>4. CASE \E i \in DOMAIN es : es[i].cause = c /\ es[i].effect = e
  <2>1. PICK k : k = CHOOSE i \in DOMAIN es : es[i].cause = c /\ es[i].effect = e
    OBVIOUS
  <2>2. k \in DOMAIN es
    BY <1>4, <2>1
  <2>3. PICK more : more = [es EXCEPT ![k].observations = @ + 1]
    OBVIOUS
  <2>4. h = [g EXCEPT !.edges[k].observations = @ + 1]
    BY <1>1, <1>4, <2>1 DEF Record, Place
  <2>5. h = [nodes |-> ns, edges |-> more, next |-> next]
    BY <1>2, <2>3, <2>4
  <2>6. more \in Seq(CausalEdges) /\ Total(Seen(more)) = Total(Seen(es)) + 1
    BY <1>2, <2>2, <2>3, EdgeRaised
  <2>7. QED
    BY <1>3, <2>5, <2>6
<1>5. CASE ~ \E i \in DOMAIN es : es[i].cause = c /\ es[i].effect = e
  <2>1. PICK n : n = [cause |-> c, effect |-> e, observations |-> 1]
    OBVIOUS
  <2>2. n \in CausalEdges /\ n.observations = 1
    BY <2>1 DEF CausalEdges
  <2>3. PICK more : more = Append(es, n)
    OBVIOUS
  <2>4. h = [g EXCEPT !.edges = Append(@, n)]
    BY <1>1, <1>5, <2>1 DEF Record
  <2>5. h = [nodes |-> ns, edges |-> more, next |-> next]
    BY <1>2, <2>3, <2>4
  <2>6. more \in Seq(CausalEdges) /\ Total(Seen(more)) = Total(Seen(es)) + 1
    BY <1>2, <2>2, <2>3, CountingLists, SeenAppended
  <2>7. QED
    BY <1>3, <2>5, <2>6
<1>6. QED
  BY <1>4, <1>5

\* An id is known by its label.
LEMMA IdIs ==
  ASSUME NEW g, GraphSound(g), NEW label, Labelled(g, label)
  PROVE  \E i \in DOMAIN g.nodes : IdOf(g, label) = i - 1 /\ i - 1 \in Nat /\ g.nodes[i].label = label
<1>1. PICK ns : ns = g.nodes
  OBVIOUS
<1>2. PICK k : k = CHOOSE i \in DOMAIN ns : ns[i].label = label
  OBVIOUS
<1>3. k \in DOMAIN ns /\ ns[k].label = label
  BY <1>1, <1>2 DEF Labelled
<1>4. IdOf(g, label) = ns[k].id
  BY <1>1, <1>2 DEF IdOf, Place
<1>5. ns[k].id = k - 1
  BY <1>1, <1>3 DEF GraphSound
<1>6. k - 1 \in Nat
  <2>1. ns \in Seq(CausalNodes)
    BY <1>1, GraphParts DEF GraphSound
  <2>2. DOMAIN ns = 1..Len(ns) /\ Len(ns) \in Nat
    BY <2>1
  <2>3. QED
    BY <1>3, <2>2
<1>7. QED
  BY <1>1, <1>3, <1>4, <1>5, <1>6

\* An observation is one co-occurrence, of two labels that differ.
LEMMA Explained ==
  ASSUME NEW g, GraphSound(g), NEW region \in Regions, NEW cause \in Labels, NEW effect \in Labels,
         cause # effect, NEW h, h = Explain(g, region, cause, effect)
  PROVE  /\ GraphSound(h) /\ Total(Seen(h.edges)) = Total(Seen(g.edges)) + 1
         /\ Total(Seen(h.nodes)) = Total(Seen(g.nodes)) + 2
<1>1. PICK f, known : f = Intern(g, cause, region) /\ known = Intern(f, effect, region)
  OBVIOUS
<1>2. /\ GraphSound(f) /\ f.edges = g.edges /\ Total(Seen(f.nodes)) = Total(Seen(g.nodes)) + 1
      /\ Labelled(f, cause)
  BY <1>1, LabelInterned
<1>3. /\ GraphSound(known) /\ known.edges = f.edges /\ Total(Seen(known.nodes)) = Total(Seen(f.nodes)) + 1
      /\ Labelled(known, effect) /\ Labelled(known, cause)
  BY <1>1, <1>2, LabelInterned
<1>4. PICK c, e : c = IdOf(known, cause) /\ e = IdOf(known, effect)
  OBVIOUS
<1>5. PICK i \in DOMAIN known.nodes : c = i - 1 /\ i - 1 \in Nat /\ known.nodes[i].label = cause
  BY <1>3, <1>4, IdIs
<1>6. PICK j \in DOMAIN known.nodes : e = j - 1 /\ j - 1 \in Nat /\ known.nodes[j].label = effect
  BY <1>3, <1>4, IdIs
<1>7. i # j /\ i \in Int /\ j \in Int
  <2>1. PICK ns : ns = known.nodes
    OBVIOUS
  <2>2. ns \in Seq(CausalNodes)
    BY <1>3, <2>1, GraphParts DEF GraphSound
  <2>3. DOMAIN ns = 1..Len(ns) /\ Len(ns) \in Nat
    BY <2>2
  <2>4. QED
    BY <1>5, <1>6, <2>1, <2>3
<1>8. c \in Nat /\ e \in Nat /\ c # e
  BY <1>5, <1>6, <1>7
<1>9. h = Record(known, c, e)
  BY <1>1, <1>4 DEF Explain
<1>10. GraphSound(h) /\ h.nodes = known.nodes /\ Total(Seen(h.edges)) = Total(Seen(known.edges)) + 1
  BY <1>3, <1>8, <1>9, EdgeRecorded
<1>11. Total(Seen(g.nodes)) \in Nat
  <2>1. g.nodes \in Seq(CausalNodes)
    BY GraphParts DEF GraphSound
  <2>2. Seen(g.nodes) \in Seq(Nat)
    BY <2>1, CountingLists, SeenTyped
  <2>3. QED
    BY <2>2, TotalTyped
<1>12. QED
  BY <1>2, <1>3, <1>10, <1>11

-----------------------------------------------------------------------------
(***************************************************************************)
(* What each call makes of the part of the model it changes.               *)
(***************************************************************************)
LEMMA DiscreteParts ==
  ASSUME NEW dims, NEW d \in Discretes(dims)
  PROVE  d = [dims |-> dims, seen |-> d.seen] /\ d.seen \in Nat /\ d.dims = dims
BY DEF Discretes

LEMMA DiscreteObserved ==
  ASSUME NEW dims, NEW d \in Discretes(dims), NEW n \in Nat
  PROVE  [d EXCEPT !.seen = @ + n] \in Discretes(dims) /\ [d EXCEPT !.seen = @ + n].seen = d.seen + n
<1>1. d = [dims |-> dims, seen |-> d.seen] /\ d.seen \in Nat
  BY DiscreteParts
<1>2. [d EXCEPT !.seen = @ + n] = [dims |-> dims, seen |-> d.seen + n]
  BY <1>1
<1>3. [dims |-> dims, seen |-> d.seen + n] \in Discretes(dims)
  BY <1>1 DEF Discretes
<1>4. QED
  BY <1>2, <1>3

LEMMA OperatorParts ==
  ASSUME NEW o \in OperatorRegions
  PROVE  /\ o = [model |-> o.model, intents |-> o.intents, help |-> o.help, unknown |-> o.unknown]
         /\ o.model \in Discretes(<<4, 12, 5>>) /\ o.intents \in Nat /\ o.help \in Nat /\ o.unknown \in Nat
BY DEF OperatorRegions

LEMMA IntentObserved ==
  ASSUME NEW o \in OperatorRegions, NEW class, NEW u, u = ObserveIntent(o, class)
  PROVE  u \in OperatorRegions /\ u.model.seen = o.model.seen + 1 /\ u.intents = o.intents + 1
<1>1. PICK d, i, h, k : o = [model |-> d, intents |-> i, help |-> h, unknown |-> k]
                        /\ d \in Discretes(<<4, 12, 5>>) /\ i \in Nat /\ h \in Nat /\ k \in Nat
  BY OperatorParts
<1>2. PICK e : e = Observe(d)
  OBVIOUS
<1>3. e \in Discretes(<<4, 12, 5>>) /\ e.seen = d.seen + 1
  BY <1>1, <1>2, DiscreteObserved DEF Observe
<1>4. PICK a, b : a = (IF class = "help" THEN h + 1 ELSE h) /\ b = (IF class = "unknown" THEN k + 1 ELSE k)
  OBVIOUS
<1>5. a \in Nat /\ b \in Nat
  BY <1>1, <1>4
<1>6. u = [model |-> e, intents |-> i + 1, help |-> a, unknown |-> b]
  BY <1>1, <1>2, <1>4 DEF ObserveIntent
<1>7. u \in OperatorRegions
  BY <1>1, <1>3, <1>5, <1>6 DEF OperatorRegions
<1>8. u.model = e /\ u.intents = i + 1 /\ o.model = d /\ o.intents = i
  BY <1>1, <1>6
<1>9. QED
  BY <1>3, <1>7, <1>8

LEMMA EventsObserved ==
  ASSUME NEW o \in OperatorRegions, NEW events, Len(events) \in Nat, NEW u, u = ObserveEvents(o, events)
  PROVE  u \in OperatorRegions /\ u.model.seen = o.model.seen + Len(events) /\ u.intents = o.intents
<1>1. PICK d, i, h, k : o = [model |-> d, intents |-> i, help |-> h, unknown |-> k]
                        /\ d \in Discretes(<<4, 12, 5>>) /\ i \in Nat /\ h \in Nat /\ k \in Nat
  BY OperatorParts
<1>2. PICK n : n = Len(events)
  OBVIOUS
<1>3. PICK e : e = [d EXCEPT !.seen = @ + n]
  OBVIOUS
<1>4. e \in Discretes(<<4, 12, 5>>) /\ e.seen = d.seen + n
  BY <1>1, <1>2, <1>3, DiscreteObserved
<1>5. u = [model |-> e, intents |-> i, help |-> h, unknown |-> k]
  BY <1>1, <1>2, <1>3 DEF ObserveEvents
<1>6. u \in OperatorRegions
  BY <1>1, <1>4, <1>5 DEF OperatorRegions
<1>7. u.model = e /\ u.intents = i /\ o.model = d /\ o.intents = i
  BY <1>1, <1>5
<1>8. QED
  BY <1>2, <1>4, <1>6, <1>7

LEMMA PersistenceParts ==
  ASSUME NEW p \in Persistences
  PROVE  /\ p = [model |-> p.model, persists |-> p.persists, failedPersists |-> p.failedPersists,
                 restores |-> p.restores, failedRestores |-> p.failedRestores, threshold |-> Threshold]
         /\ p.model \in Discretes(<<7, 7, 6>>) /\ p.persists \in Nat /\ p.failedPersists \in Nat
         /\ p.restores \in Nat /\ p.failedRestores \in Nat /\ p.threshold = Threshold
BY DEF Persistences

\* What the persistence region observes of a persist.
PersistNoted(p, ok) ==
  NotePersistOutcome(ObservePersistence(p, IF ok THEN "restoredOk" ELSE "ioError"), ok)

LEMMA PersistIsNoted ==
  ASSUME NEW p \in Persistences, NEW ok \in BOOLEAN, NEW u, u = PersistNoted(p, ok)
  PROVE  /\ u \in Persistences /\ u.model.seen = p.model.seen + 1
         /\ u.persists = p.persists + (IF ok THEN 1 ELSE 0)
         /\ u.failedPersists = p.failedPersists + (IF ok THEN 0 ELSE 1)
         /\ u.restores = p.restores + (IF ok THEN 1 ELSE 0) /\ u.failedRestores = p.failedRestores
<1>1. PICK d, a, b, c, f :
        /\ p = [model |-> d, persists |-> a, failedPersists |-> b, restores |-> c, failedRestores |-> f,
                threshold |-> Threshold]
        /\ d \in Discretes(<<7, 7, 6>>) /\ a \in Nat /\ b \in Nat /\ c \in Nat /\ f \in Nat
  BY PersistenceParts
<1>2. PICK e : e = Observe(d)
  OBVIOUS
<1>3. e \in Discretes(<<7, 7, 6>>) /\ e.seen = d.seen + 1
  BY <1>1, <1>2, DiscreteObserved DEF Observe
<1>4. p.model = d /\ p.persists = a /\ p.failedPersists = b /\ p.restores = c /\ p.failedRestores = f
  BY <1>1
<1>5. CASE ok
  <2>1. ObservePersistence(p, "restoredOk") =
          [model |-> e, persists |-> a, failedPersists |-> b, restores |-> c + 1, failedRestores |-> f,
           threshold |-> Threshold]
    <3>1. "restoredOk" \notin {"checksumMismatch", "partialRestore", "corruptData"}
      OBVIOUS
    <3>2. PICK o : o = "restoredOk"
      OBVIOUS
    <3>3. ObservePersistence(p, o) = [p EXCEPT !.model = Observe(@), !.restores = @ + 1, !.failedRestores = @]
      BY <3>1, <3>2, Zenon DEF ObservePersistence
    <3>4. p.model = d /\ p.restores = c /\ p.failedRestores = f
      BY <1>1
    <3>5. [p EXCEPT !.model = Observe(@), !.restores = @ + 1, !.failedRestores = @]
            = [p EXCEPT !.model = e, !.restores = c + 1, !.failedRestores = f]
      BY <1>2, <3>4, Zenon
    <3>6. [p EXCEPT !.model = e, !.restores = c + 1, !.failedRestores = f] =
            [model |-> e, persists |-> a, failedPersists |-> b, restores |-> c + 1, failedRestores |-> f,
             threshold |-> Threshold]
      <4>1. PICK q : q = [p EXCEPT !.model = e, !.restores = c + 1, !.failedRestores = f]
        OBVIOUS
      <4>2. q = [model |-> q.model, persists |-> q.persists, failedPersists |-> q.failedPersists,
                 restores |-> q.restores, failedRestores |-> q.failedRestores, threshold |-> q.threshold]
        BY <1>1, <4>1
      <4>3. /\ q.model = e /\ q.persists = a /\ q.failedPersists = b /\ q.restores = c + 1
            /\ q.failedRestores = f /\ q.threshold = Threshold
        BY <1>1, <4>1
      <4>4. QED
        BY <4>1, <4>2, <4>3
    <3>7. QED
      BY <3>2, <3>3, <3>5, <3>6, Zenon
  <2>2. u = [model |-> e, persists |-> a + 1, failedPersists |-> b, restores |-> c + 1,
             failedRestores |-> f, threshold |-> Threshold]
    BY <1>5, <2>1 DEF PersistNoted, NotePersistOutcome
  <2>3. u \in Persistences
    BY <1>1, <1>3, <2>2 DEF Persistences
  <2>4. u.model = e /\ u.persists = a + 1 /\ u.failedPersists = b /\ u.restores = c + 1 /\ u.failedRestores = f
    BY <2>2
  <2>5. QED
    <3>1. (IF ok THEN 1 ELSE 0) = 1 /\ (IF ok THEN 0 ELSE 1) = 0
      BY <1>5
    <3>2. u.model.seen = p.model.seen + 1 /\ u.persists = p.persists + 1 /\ u.failedPersists = p.failedPersists + 0
          /\ u.restores = p.restores + 1 /\ u.failedRestores = p.failedRestores
      BY <1>1, <1>3, <1>4, <2>4
    <3>3. QED
      BY <2>3, <3>1, <3>2, Zenon
<1>6. CASE ~ ok
  <2>1. ObservePersistence(p, "ioError") =
          [model |-> e, persists |-> a, failedPersists |-> b, restores |-> c, failedRestores |-> f,
           threshold |-> Threshold]
    <3>1. "ioError" # "restoredOk" /\ "ioError" \notin {"checksumMismatch", "partialRestore", "corruptData"}
      OBVIOUS
    <3>2. PICK o : o = "ioError"
      OBVIOUS
    <3>3. ObservePersistence(p, o) = [p EXCEPT !.model = Observe(@), !.restores = @, !.failedRestores = @]
      BY <3>1, <3>2, Zenon DEF ObservePersistence
    <3>4. p.model = d /\ p.restores = c /\ p.failedRestores = f
      BY <1>1
    <3>5. [p EXCEPT !.model = Observe(@), !.restores = @, !.failedRestores = @]
            = [p EXCEPT !.model = e, !.restores = c, !.failedRestores = f]
      BY <1>2, <3>4, Zenon
    <3>6. [p EXCEPT !.model = e, !.restores = c, !.failedRestores = f] =
            [model |-> e, persists |-> a, failedPersists |-> b, restores |-> c, failedRestores |-> f,
             threshold |-> Threshold]
      <4>1. PICK q : q = [p EXCEPT !.model = e, !.restores = c, !.failedRestores = f]
        OBVIOUS
      <4>2. q = [model |-> q.model, persists |-> q.persists, failedPersists |-> q.failedPersists,
                 restores |-> q.restores, failedRestores |-> q.failedRestores, threshold |-> q.threshold]
        BY <1>1, <4>1
      <4>3. /\ q.model = e /\ q.persists = a /\ q.failedPersists = b /\ q.restores = c
            /\ q.failedRestores = f /\ q.threshold = Threshold
        BY <1>1, <4>1
      <4>4. QED
        BY <4>1, <4>2, <4>3
    <3>7. QED
      BY <3>2, <3>3, <3>5, <3>6, Zenon
  <2>2. u = [model |-> e, persists |-> a, failedPersists |-> b + 1, restores |-> c,
             failedRestores |-> f, threshold |-> Threshold]
    BY <1>6, <2>1 DEF PersistNoted, NotePersistOutcome
  <2>3. u \in Persistences
    BY <1>1, <1>3, <2>2 DEF Persistences
  <2>4. u.model = e /\ u.persists = a /\ u.failedPersists = b + 1 /\ u.restores = c /\ u.failedRestores = f
    BY <2>2
  <2>5. QED
    <3>1. (IF ok THEN 1 ELSE 0) = 0 /\ (IF ok THEN 0 ELSE 1) = 1
      BY <1>6
    <3>2. u.model.seen = p.model.seen + 1 /\ u.persists = p.persists + 0 /\ u.failedPersists = p.failedPersists + 1
          /\ u.restores = p.restores + 0 /\ u.failedRestores = p.failedRestores
      BY <1>1, <1>3, <1>4, <2>4
    <3>3. QED
      BY <2>3, <3>1, <3>2, Zenon
<1>7. QED
  BY <1>5, <1>6

LEMMA MetaParts ==
  ASSUME NEW e \in MetaRegions
  PROVE  /\ e = [model |-> e.model, assessments |-> e.assessments, state |-> e.state]
         /\ e.model \in Discretes(<<4, 3, 5>>) /\ e.assessments \in Nat /\ e.state \in MetaStates
BY DEF MetaRegions

LEMMA MetaAssessed ==
  ASSUME NEW e \in MetaRegions, NEW h, NEW u, u = Assess(e, h)
  PROVE  u \in MetaRegions /\ u.model.seen = e.model.seen + 1 /\ u.assessments = e.assessments + 1
<1>1. PICK d, n, s : e = [model |-> d, assessments |-> n, state |-> s]
                     /\ d \in Discretes(<<4, 3, 5>>) /\ n \in Nat
  BY MetaParts
<1>2. PICK k : k = Observe(d)
  OBVIOUS
<1>3. k \in Discretes(<<4, 3, 5>>) /\ k.seen = d.seen + 1
  BY <1>1, <1>2, DiscreteObserved DEF Observe
<1>4. PICK state \in MetaStates : u = [e EXCEPT !.model = Observe(@), !.assessments = @ + 1, !.state = state]
  BY DEF Assess, MetaStates
<1>5. u = [model |-> k, assessments |-> n + 1, state |-> state]
  BY <1>1, <1>2, <1>4
<1>6. u \in MetaRegions
  BY <1>1, <1>3, <1>5 DEF MetaRegions
<1>7. u.model = k /\ u.assessments = n + 1 /\ e.model = d /\ e.assessments = n
  BY <1>1, <1>5
<1>8. QED
  BY <1>3, <1>6, <1>7

LEMMA DeviceStepped ==
  ASSUME NEW d \in DeviceLists, d # <<>>, NEW u, u = [d EXCEPT ![1] = Step(@)]
  PROVE  u \in DeviceLists /\ u # <<>> /\ u[1].model.seen = d[1].model.seen + 1
<1>1. PICK a \in StorageAgents : d = <<a>>
  BY DEF DeviceLists
<1>2. PICK k \in Discretes(<<5, 5, 5>>) : a = [label |-> "vblk0", model |-> k]
  BY DEF StorageAgents
<1>3. PICK e : e = Observe(k)
  OBVIOUS
<1>4. e \in Discretes(<<5, 5, 5>>) /\ e.seen = k.seen + 1
  BY <1>3, DiscreteObserved DEF Observe
<1>5. PICK b : b = Step(a)
  OBVIOUS
<1>6. b = [label |-> "vblk0", model |-> e]
  BY <1>2, <1>3, <1>5 DEF Step
<1>7. b \in StorageAgents
  BY <1>4, <1>6 DEF StorageAgents
<1>8. u = <<b>>
  BY <1>1, <1>5
<1>9. u[1] = b /\ d[1] = a /\ b.model = e /\ a.model = k /\ u # <<>>
  BY <1>1, <1>2, <1>6, <1>8
<1>10. QED
  BY <1>4, <1>7, <1>8, <1>9 DEF DeviceLists

LEMMA CountsParts ==
  ASSUME NEW c \in CountsTyped
  PROVE  /\ c = [substrate |-> c.substrate, surprisability |-> c.surprisability, addressed |-> c.addressed,
                 rendered |-> c.rendered, updated |-> c.updated, novel |-> c.novel]
         /\ c.substrate \in Int /\ c.surprisability \in Int /\ c.addressed \in Nat /\ c.updated \in Nat
         /\ c.novel \in Nat /\ c.rendered \in Nat
BY DEF CountsTyped

LEMMA AgentsParked ==
  ASSUME NEW g \in Registries, NEW n \in Nat, NEW u, u = [g EXCEPT !.agents[1].lastTick = n]
  PROVE  u \in Registries
<1>1. PICK a \in LoopAgents : g = [agents |-> <<a>>, next |-> 1]
  BY DEF Registries
<1>2. PICK b : b = [a EXCEPT !.lastTick = n]
  OBVIOUS
<1>3. a = [id |-> 0, name |-> "nucleation", cadence |-> 1, lastTick |-> a.lastTick, spawnedAt |-> 0,
           spawnedBy |-> NobodySpawned, state |-> "healthy"]
  BY DEF LoopAgents
<1>4. b = [id |-> 0, name |-> "nucleation", cadence |-> 1, lastTick |-> n, spawnedAt |-> 0,
           spawnedBy |-> NobodySpawned, state |-> "healthy"]
  BY <1>2, <1>3
<1>5. b \in LoopAgents
  BY <1>4 DEF LoopAgents
<1>6. PICK list, more : list = <<a>> /\ more = [list EXCEPT ![1] = b]
  OBVIOUS
<1>7. more = <<b>>
  BY <1>6
<1>8. u = [agents |-> more, next |-> 1]
  BY <1>1, <1>2, <1>6
<1>9. QED
  BY <1>5, <1>7, <1>8 DEF Registries

\* The history with one more observation, at the model's clock.
Told(h, lamport, region, surprise) ==
  LET pushed == PushFe(h, surprise)
  IN IF Novel(surprise)
     THEN PushSurprise(pushed, [lamport |-> lamport, region |-> region, surprise |-> surprise])
     ELSE pushed

\* The window holds the observations, the last of them when it is full.
HistoryFits(h, total, learned) ==
  /\ Len(h.fe) = IF total < FeWindow THEN total ELSE FeWindow
  /\ total <= FeWindow => Total(h.fe) = learned

LEMMA HistoryTold ==
  ASSUME ModelParameters, NEW h \in Histories, NEW lamport \in Nat, NEW region \in Regions, NEW s \in Nat,
         NEW total \in Nat, NEW learned \in Nat, HistoryFits(h, total, learned),
         NEW u, u = Told(h, lamport, region, s)
  PROVE  u \in Histories /\ HistoryFits(u, total + 1, learned + s)
<1>1. PICK fe, list : h = [fe |-> fe, surprises |-> list] /\ fe \in Seq(Nat) /\ list \in Seq(SurpriseEntries)
  BY DEF Histories
<1>2. FeWindow \in Nat \ {0} /\ SurpriseLog \in Nat \ {0}
  BY DEF ModelParameters
<1>3. PICK base, more : base = (IF Len(fe) = FeWindow THEN Tail(fe) ELSE fe) /\ more = Append(base, s)
  OBVIOUS
<1>4. base \in Seq(Nat) /\ Len(base) = IF Len(fe) = FeWindow THEN FeWindow - 1 ELSE Len(fe)
  <2>1. CASE Len(fe) = FeWindow
    <3>1. fe # <<>>
      BY <1>2, <2>1
    <3>2. Tail(fe) \in Seq(Nat) /\ Len(Tail(fe)) = Len(fe) - 1
      BY <1>1, <3>1, HeadTailProperties
    <3>3. QED
      BY <1>3, <2>1, <3>2
  <2>2. CASE Len(fe) # FeWindow
    BY <1>1, <1>3, <2>2
  <2>3. QED
    BY <2>1, <2>2
<1>5. more \in Seq(Nat) /\ Len(more) = Len(base) + 1 /\ Total(more) = Total(base) + s
  <2>1. more \in Seq(Nat) /\ Total(more) = Total(base) + s
    BY <1>3, <1>4, TotalAppended
  <2>2. QED
    BY <1>3, <1>4, <2>1
<1>6. PICK pushed : pushed = PushFe(h, s)
  OBVIOUS
<1>7. pushed = [fe |-> more, surprises |-> list]
  BY <1>1, <1>3, <1>6 DEF PushFe
<1>8. PICK entry : entry = [lamport |-> lamport, region |-> region, surprise |-> s]
  OBVIOUS
<1>9. entry \in SurpriseEntries
  BY <1>8 DEF SurpriseEntries
<1>10. PICK kept, longer : kept = (IF Len(list) = SurpriseLog THEN Tail(list) ELSE list)
                           /\ longer = Append(kept, entry)
  OBVIOUS
<1>11. longer \in Seq(SurpriseEntries)
  <2>1. kept \in Seq(SurpriseEntries)
    <3>1. CASE Len(list) = SurpriseLog
      <4>1. list # <<>>
        BY <1>2, <3>1
      <4>2. QED
        BY <1>1, <1>10, <3>1, <4>1, HeadTailProperties
    <3>2. CASE Len(list) # SurpriseLog
      BY <1>1, <1>10, <3>2
    <3>3. QED
      BY <3>1, <3>2
  <2>2. QED
    BY <1>9, <1>10, <2>1
<1>12. PushSurprise(pushed, entry) = [fe |-> more, surprises |-> longer]
  <2>1. PushSurprise(pushed, entry) = [pushed EXCEPT !.surprises = Append(IF Len(@) = SurpriseLog THEN Tail(@) ELSE @, entry)]
    BY Zenon DEF PushSurprise
  <2>2. pushed.surprises = list /\ pushed = [fe |-> more, surprises |-> list]
    BY <1>7
  <2>3. [pushed EXCEPT !.surprises = Append(IF Len(@) = SurpriseLog THEN Tail(@) ELSE @, entry)]
          = [pushed EXCEPT !.surprises = longer]
    BY <1>10, <2>2, Zenon
  <2>4. [pushed EXCEPT !.surprises = longer] = [fe |-> more, surprises |-> longer]
    BY <2>2
  <2>5. QED
    BY <2>1, <2>3, <2>4
<1>13. u = (IF Novel(s) THEN [fe |-> more, surprises |-> longer] ELSE [fe |-> more, surprises |-> list])
  BY <1>6, <1>7, <1>8, <1>12 DEF Told
<1>14. u.fe = more /\ u \in Histories
  <2>1. [fe |-> more, surprises |-> longer] \in Histories /\ [fe |-> more, surprises |-> list] \in Histories
    BY <1>1, <1>5, <1>11 DEF Histories
  <2>2. QED
    BY <1>13, <2>1
<1>15. Len(fe) = (IF total < FeWindow THEN total ELSE FeWindow) /\ (total <= FeWindow => Total(fe) = learned)
  <2>1. h.fe = fe
    BY <1>1
  <2>2. QED
    BY <2>1 DEF HistoryFits
<1>16. Len(more) = IF total + 1 < FeWindow THEN total + 1 ELSE FeWindow
  BY <1>2, <1>4, <1>5, <1>15
<1>17. ASSUME total + 1 <= FeWindow
       PROVE  Total(more) = learned + s
  <2>1. Len(fe) # FeWindow /\ Total(fe) = learned
    BY <1>2, <1>15, <1>17
  <2>2. base = fe
    BY <1>3, <2>1
  <2>3. QED
    BY <1>5, <2>1, <2>2
<1>18. QED
  BY <1>14, <1>16, <1>17 DEF HistoryFits

-----------------------------------------------------------------------------
(***************************************************************************)
(* A call changes some fields of the model and leaves the others.          *)
(***************************************************************************)
Whole(m) ==
  m = [devices |-> m.devices, persistence |-> m.persistence, operator |-> m.operator, meta |-> m.meta,
       graph |-> m.graph, hypotheses |-> m.hypotheses, preferences |-> m.preferences,
       history |-> m.history, lamport |-> m.lamport, boots |-> m.boots, total |-> m.total,
       learned |-> m.learned, risk |-> m.risk, counts |-> m.counts, agents |-> m.agents]

\* What no call changes.
Rest(u, m) ==
  u.hypotheses = m.hypotheses /\ u.preferences = m.preferences

LEMMA Typed ==
  ASSUME NEW m
  PROVE  m \in Models <=>
           /\ m.devices \in DeviceLists /\ m.persistence \in Persistences /\ m.operator \in OperatorRegions
           /\ m.meta \in MetaRegions /\ m.graph \in CausalGraphs /\ m.hypotheses = 0
           /\ m.preferences = Preferences /\ m.history \in Histories /\ m.lamport \in Nat
           /\ m.boots \in Nat /\ m.total \in Nat /\ m.learned \in Nat /\ m.risk \in Nat
           /\ m.counts \in CountsTyped /\ m.agents \in Registries /\ Whole(m)
<1>1. ASSUME m \in Models
      PROVE  /\ m.devices \in DeviceLists /\ m.persistence \in Persistences /\ m.operator \in OperatorRegions
             /\ m.meta \in MetaRegions /\ m.graph \in CausalGraphs /\ m.hypotheses = 0
             /\ m.preferences = Preferences /\ m.history \in Histories /\ m.lamport \in Nat
             /\ m.boots \in Nat /\ m.total \in Nat /\ m.learned \in Nat /\ m.risk \in Nat
             /\ m.counts \in CountsTyped /\ m.agents \in Registries /\ Whole(m)
  BY <1>1, ModelFields DEF Whole
<1>2. ASSUME m.devices \in DeviceLists, m.persistence \in Persistences, m.operator \in OperatorRegions,
             m.meta \in MetaRegions, m.graph \in CausalGraphs, m.hypotheses = 0,
             m.preferences = Preferences, m.history \in Histories, m.lamport \in Nat,
             m.boots \in Nat, m.total \in Nat, m.learned \in Nat, m.risk \in Nat,
             m.counts \in CountsTyped, m.agents \in Registries, Whole(m)
      PROVE  m \in Models
  BY <1>2 DEF Whole, Models
<1>3. QED
  BY <1>1, <1>2

LEMMA BootsSet ==
  ASSUME NEW m, Whole(m), NEW b, NEW u,
         u = [m EXCEPT !.boots = b]
  PROVE  /\ Whole(u) /\ Rest(u, m) /\ u.agents = m.agents /\ u.boots = b
         /\ u.devices = m.devices /\ u.persistence = m.persistence /\ u.operator = m.operator
         /\ u.meta = m.meta /\ u.graph = m.graph /\ u.history = m.history
         /\ u.lamport = m.lamport /\ u.total = m.total /\ u.learned = m.learned
         /\ u.risk = m.risk /\ u.counts = m.counts
<1>1. Whole(u)
  BY DEF Whole
<1>2. QED
  BY <1>1 DEF Whole, Rest

LEMMA DevicesSet ==
  ASSUME NEW m, Whole(m), NEW d, NEW u,
         u = [m EXCEPT !.devices = d]
  PROVE  /\ Whole(u) /\ Rest(u, m) /\ u.agents = m.agents /\ u.devices = d
         /\ u.persistence = m.persistence /\ u.operator = m.operator /\ u.meta = m.meta
         /\ u.graph = m.graph /\ u.history = m.history /\ u.lamport = m.lamport
         /\ u.boots = m.boots /\ u.total = m.total /\ u.learned = m.learned /\ u.risk = m.risk
         /\ u.counts = m.counts
<1>1. Whole(u)
  BY DEF Whole
<1>2. QED
  BY <1>1 DEF Whole, Rest

LEMMA RiskSet ==
  ASSUME NEW m, Whole(m), NEW r, NEW u,
         u = [m EXCEPT !.risk = r]
  PROVE  /\ Whole(u) /\ Rest(u, m) /\ u.agents = m.agents /\ u.risk = r
         /\ u.devices = m.devices /\ u.persistence = m.persistence /\ u.operator = m.operator
         /\ u.meta = m.meta /\ u.graph = m.graph /\ u.history = m.history
         /\ u.lamport = m.lamport /\ u.boots = m.boots /\ u.total = m.total
         /\ u.learned = m.learned /\ u.counts = m.counts
<1>1. Whole(u)
  BY DEF Whole
<1>2. QED
  BY <1>1 DEF Whole, Rest

WithOperator(m, o) == [m EXCEPT !.operator = o]
LEMMA OperatorSet ==
  ASSUME NEW m, Whole(m), NEW o, NEW u,
         u = WithOperator(m, o)
  PROVE  /\ Whole(u) /\ Rest(u, m) /\ u.agents = m.agents /\ u.operator = o
         /\ u.devices = m.devices /\ u.persistence = m.persistence /\ u.meta = m.meta
         /\ u.graph = m.graph /\ u.history = m.history /\ u.lamport = m.lamport
         /\ u.boots = m.boots /\ u.total = m.total /\ u.learned = m.learned /\ u.risk = m.risk
         /\ u.counts = m.counts
<1>1. Whole(u)
  BY DEF Whole, WithOperator
<1>2. QED
  BY <1>1 DEF Whole, Rest, WithOperator

WithIntent(m, o, g) == [m EXCEPT !.operator = o, !.graph = g]
LEMMA IntentSet ==
  ASSUME NEW m, Whole(m), NEW o, NEW g, NEW u,
         u = WithIntent(m, o, g)
  PROVE  /\ Whole(u) /\ Rest(u, m) /\ u.agents = m.agents /\ u.operator = o /\ u.graph = g
         /\ u.devices = m.devices /\ u.persistence = m.persistence /\ u.meta = m.meta
         /\ u.history = m.history /\ u.lamport = m.lamport /\ u.boots = m.boots
         /\ u.total = m.total /\ u.learned = m.learned /\ u.risk = m.risk /\ u.counts = m.counts
<1>1. Whole(u)
  BY DEF Whole, WithIntent
<1>2. QED
  BY <1>1 DEF Whole, Rest, WithIntent

WithStep(m, d, g) == [m EXCEPT !.devices = d, !.graph = g]
LEMMA StepSet ==
  ASSUME NEW m, Whole(m), NEW d, NEW g, NEW u,
         u = WithStep(m, d, g)
  PROVE  /\ Whole(u) /\ Rest(u, m) /\ u.agents = m.agents /\ u.devices = d /\ u.graph = g
         /\ u.persistence = m.persistence /\ u.operator = m.operator /\ u.meta = m.meta
         /\ u.history = m.history /\ u.lamport = m.lamport /\ u.boots = m.boots
         /\ u.total = m.total /\ u.learned = m.learned /\ u.risk = m.risk /\ u.counts = m.counts
<1>1. Whole(u)
  BY DEF Whole, WithStep
<1>2. QED
  BY <1>1 DEF Whole, Rest, WithStep

WithObservation(m, t, l, r, h) == [m EXCEPT !.total = t, !.learned = l, !.risk = r, !.history = h]
LEMMA ObservationSet ==
  ASSUME NEW m, Whole(m), NEW t, NEW l, NEW r, NEW h, NEW u,
         u = WithObservation(m, t, l, r, h)
  PROVE  /\ Whole(u) /\ Rest(u, m) /\ u.agents = m.agents /\ u.total = t /\ u.learned = l /\ u.risk = r /\ u.history = h
         /\ u.devices = m.devices /\ u.persistence = m.persistence /\ u.operator = m.operator
         /\ u.meta = m.meta /\ u.graph = m.graph /\ u.lamport = m.lamport /\ u.boots = m.boots
         /\ u.counts = m.counts
<1>1. Whole(u)
  BY DEF Whole, WithObservation
<1>2. QED
  BY <1>1 DEF Whole, Rest, WithObservation

LEMMA CountsSet ==
  ASSUME NEW m, Whole(m), NEW c, NEW u,
         u = [m EXCEPT !.counts = c]
  PROVE  /\ Whole(u) /\ Rest(u, m) /\ u.agents = m.agents /\ u.counts = c
         /\ u.devices = m.devices /\ u.persistence = m.persistence /\ u.operator = m.operator
         /\ u.meta = m.meta /\ u.graph = m.graph /\ u.history = m.history
         /\ u.lamport = m.lamport /\ u.boots = m.boots /\ u.total = m.total
         /\ u.learned = m.learned /\ u.risk = m.risk
<1>1. Whole(u)
  BY DEF Whole
<1>2. QED
  BY <1>1 DEF Whole, Rest

WithMeta(m, l, e) == [m EXCEPT !.lamport = l, !.meta = e]
LEMMA MetaSet ==
  ASSUME NEW m, Whole(m), NEW l, NEW e, NEW u,
         u = WithMeta(m, l, e)
  PROVE  /\ Whole(u) /\ Rest(u, m) /\ u.agents = m.agents /\ u.lamport = l /\ u.meta = e
         /\ u.devices = m.devices /\ u.persistence = m.persistence /\ u.operator = m.operator
         /\ u.graph = m.graph /\ u.history = m.history /\ u.boots = m.boots /\ u.total = m.total
         /\ u.learned = m.learned /\ u.risk = m.risk /\ u.counts = m.counts
<1>1. Whole(u)
  BY DEF Whole, WithMeta
<1>2. QED
  BY <1>1 DEF Whole, WithMeta, Rest

LEMMA PersistenceSet ==
  ASSUME NEW m, Whole(m), NEW p, NEW u,
         u = [m EXCEPT !.persistence = p]
  PROVE  /\ Whole(u) /\ Rest(u, m) /\ u.agents = m.agents /\ u.persistence = p
         /\ u.devices = m.devices /\ u.operator = m.operator /\ u.meta = m.meta
         /\ u.graph = m.graph /\ u.history = m.history /\ u.lamport = m.lamport
         /\ u.boots = m.boots /\ u.total = m.total /\ u.learned = m.learned /\ u.risk = m.risk
         /\ u.counts = m.counts
<1>1. Whole(u)
  BY DEF Whole
<1>2. QED
  BY <1>1 DEF Whole, Rest

LEMMA AgentsSet ==
  ASSUME NEW m, Whole(m), NEW a, NEW u,
         u = [m EXCEPT !.agents = a]
  PROVE  /\ Whole(u) /\ Rest(u, m) /\ u.agents = a
         /\ u.devices = m.devices /\ u.persistence = m.persistence /\ u.operator = m.operator
         /\ u.meta = m.meta /\ u.graph = m.graph /\ u.history = m.history
         /\ u.lamport = m.lamport /\ u.boots = m.boots /\ u.total = m.total
         /\ u.learned = m.learned /\ u.risk = m.risk /\ u.counts = m.counts
<1>1. Whole(u)
  BY DEF Whole
<1>2. QED
  BY <1>1 DEF Whole, Rest

LEMMA CountsAddressed ==
  ASSUME NEW m \in Models, NEW u, u = AccountSubstrate(m, "addressed")
  PROVE  \E c \in CountsTyped :
           /\ u = [m EXCEPT !.counts = c]
           /\ c.substrate = m.counts.substrate + 2 /\ c.surprisability = m.counts.surprisability
           /\ c.addressed = m.counts.addressed + 1 /\ c.updated = m.counts.updated /\ c.novel = m.counts.novel
           /\ c.rendered = m.counts.rendered
<1>1. PICK k : k = m.counts
  OBVIOUS
<1>2. k \in CountsTyped
  BY <1>1, Typed
<1>3. PICK s, p, a, d, n, v :
        /\ k = [substrate |-> s, surprisability |-> p, addressed |-> a, rendered |-> d,
                updated |-> n, novel |-> v]
        /\ s \in Int /\ p \in Int /\ a \in Nat /\ d \in Nat /\ n \in Nat /\ v \in Nat
  BY <1>2, CountsParts
<1>4. m.preferences.constitution.substrate["addressed"] = 2
  BY Typed DEF Preferences, Constitution
<1>5. PICK c : c = Accounted(k, "substrate", 2, "addressed")
  OBVIOUS
<1>6. u = [m EXCEPT !.counts = c]
  BY <1>1, <1>4, <1>5 DEF AccountSubstrate
<1>7. c = [substrate |-> c.substrate, surprisability |-> c.surprisability, addressed |-> c.addressed,
           rendered |-> c.rendered, updated |-> c.updated, novel |-> c.novel]
  BY <1>3, <1>5 DEF Accounted
<1>8. c.substrate = s + 2 /\ c.surprisability = p /\ c.addressed = a + 1 /\ c.rendered = d /\ c.updated = n /\ c.novel = v
  BY <1>3, <1>5 DEF Accounted
<1>9. c \in CountsTyped
  BY <1>3, <1>7, <1>8 DEF CountsTyped
<1>10. m.counts.substrate = s /\ m.counts.surprisability = p /\ m.counts.addressed = a /\ m.counts.rendered = d /\ m.counts.updated = n /\ m.counts.novel = v
  BY <1>1, <1>3
<1>11. QED
  BY <1>6, <1>8, <1>9, <1>10, Zenon

LEMMA CountsRendered ==
  ASSUME NEW m \in Models, NEW u, u = AccountSubstrate(m, "rendered")
  PROVE  \E c \in CountsTyped :
           /\ u = [m EXCEPT !.counts = c]
           /\ c.substrate = m.counts.substrate + 1 /\ c.surprisability = m.counts.surprisability
           /\ c.addressed = m.counts.addressed /\ c.updated = m.counts.updated /\ c.novel = m.counts.novel
           /\ c.rendered = m.counts.rendered + 1
<1>1. PICK k : k = m.counts
  OBVIOUS
<1>2. k \in CountsTyped
  BY <1>1, Typed
<1>3. PICK s, p, a, d, n, v :
        /\ k = [substrate |-> s, surprisability |-> p, addressed |-> a, rendered |-> d,
                updated |-> n, novel |-> v]
        /\ s \in Int /\ p \in Int /\ a \in Nat /\ d \in Nat /\ n \in Nat /\ v \in Nat
  BY <1>2, CountsParts
<1>4. m.preferences.constitution.substrate["rendered"] = 1
  BY Typed DEF Preferences, Constitution
<1>5. PICK c : c = Accounted(k, "substrate", 1, "rendered")
  OBVIOUS
<1>6. u = [m EXCEPT !.counts = c]
  BY <1>1, <1>4, <1>5 DEF AccountSubstrate
<1>7. c = [substrate |-> c.substrate, surprisability |-> c.surprisability, addressed |-> c.addressed,
           rendered |-> c.rendered, updated |-> c.updated, novel |-> c.novel]
  BY <1>3, <1>5 DEF Accounted
<1>8. c.substrate = s + 1 /\ c.surprisability = p /\ c.addressed = a /\ c.rendered = d + 1 /\ c.updated = n /\ c.novel = v
  BY <1>3, <1>5 DEF Accounted
<1>9. c \in CountsTyped
  BY <1>3, <1>7, <1>8 DEF CountsTyped
<1>10. m.counts.substrate = s /\ m.counts.surprisability = p /\ m.counts.addressed = a /\ m.counts.rendered = d /\ m.counts.updated = n /\ m.counts.novel = v
  BY <1>1, <1>3
<1>11. QED
  BY <1>6, <1>8, <1>9, <1>10, Zenon

LEMMA CountsUpdated ==
  ASSUME NEW m \in Models, NEW u, u = AccountSurprisability(m, "updated")
  PROVE  \E c \in CountsTyped :
           /\ u = [m EXCEPT !.counts = c]
           /\ c.substrate = m.counts.substrate /\ c.surprisability = m.counts.surprisability + 1
           /\ c.addressed = m.counts.addressed /\ c.updated = m.counts.updated + 1 /\ c.novel = m.counts.novel
           /\ c.rendered = m.counts.rendered
<1>1. PICK k : k = m.counts
  OBVIOUS
<1>2. k \in CountsTyped
  BY <1>1, Typed
<1>3. PICK s, p, a, d, n, v :
        /\ k = [substrate |-> s, surprisability |-> p, addressed |-> a, rendered |-> d,
                updated |-> n, novel |-> v]
        /\ s \in Int /\ p \in Int /\ a \in Nat /\ d \in Nat /\ n \in Nat /\ v \in Nat
  BY <1>2, CountsParts
<1>4. m.preferences.constitution.surprisability["updated"] = 1
  BY Typed DEF Preferences, Constitution
<1>5. PICK c : c = Accounted(k, "surprisability", 1, "updated")
  OBVIOUS
<1>6. u = [m EXCEPT !.counts = c]
  BY <1>1, <1>4, <1>5 DEF AccountSurprisability
<1>7. c = [substrate |-> c.substrate, surprisability |-> c.surprisability, addressed |-> c.addressed,
           rendered |-> c.rendered, updated |-> c.updated, novel |-> c.novel]
  BY <1>3, <1>5 DEF Accounted
<1>8. c.substrate = s /\ c.surprisability = p + 1 /\ c.addressed = a /\ c.rendered = d /\ c.updated = n + 1 /\ c.novel = v
  BY <1>3, <1>5 DEF Accounted
<1>9. c \in CountsTyped
  BY <1>3, <1>7, <1>8 DEF CountsTyped
<1>10. m.counts.substrate = s /\ m.counts.surprisability = p /\ m.counts.addressed = a /\ m.counts.rendered = d /\ m.counts.updated = n /\ m.counts.novel = v
  BY <1>1, <1>3
<1>11. QED
  BY <1>6, <1>8, <1>9, <1>10, Zenon

LEMMA CountsNovel ==
  ASSUME NEW m \in Models, NEW u, u = AccountSurprisability(m, "novel")
  PROVE  \E c \in CountsTyped :
           /\ u = [m EXCEPT !.counts = c]
           /\ c.substrate = m.counts.substrate /\ c.surprisability = m.counts.surprisability + 2
           /\ c.addressed = m.counts.addressed /\ c.updated = m.counts.updated /\ c.novel = m.counts.novel + 1
           /\ c.rendered = m.counts.rendered
<1>1. PICK k : k = m.counts
  OBVIOUS
<1>2. k \in CountsTyped
  BY <1>1, Typed
<1>3. PICK s, p, a, d, n, v :
        /\ k = [substrate |-> s, surprisability |-> p, addressed |-> a, rendered |-> d,
                updated |-> n, novel |-> v]
        /\ s \in Int /\ p \in Int /\ a \in Nat /\ d \in Nat /\ n \in Nat /\ v \in Nat
  BY <1>2, CountsParts
<1>4. m.preferences.constitution.surprisability["novel"] = 2
  BY Typed DEF Preferences, Constitution
<1>5. PICK c : c = Accounted(k, "surprisability", 2, "novel")
  OBVIOUS
<1>6. u = [m EXCEPT !.counts = c]
  BY <1>1, <1>4, <1>5 DEF AccountSurprisability
<1>7. c = [substrate |-> c.substrate, surprisability |-> c.surprisability, addressed |-> c.addressed,
           rendered |-> c.rendered, updated |-> c.updated, novel |-> c.novel]
  BY <1>3, <1>5 DEF Accounted
<1>8. c.substrate = s /\ c.surprisability = p + 2 /\ c.addressed = a /\ c.rendered = d /\ c.updated = n /\ c.novel = v + 1
  BY <1>3, <1>5 DEF Accounted
<1>9. c \in CountsTyped
  BY <1>3, <1>7, <1>8 DEF CountsTyped
<1>10. m.counts.substrate = s /\ m.counts.surprisability = p /\ m.counts.addressed = a /\ m.counts.rendered = d /\ m.counts.updated = n /\ m.counts.novel = v
  BY <1>1, <1>3
<1>11. QED
  BY <1>6, <1>8, <1>9, <1>10, Zenon

-----------------------------------------------------------------------------
(***************************************************************************)
(* What each call makes of the whole model.                                *)
(***************************************************************************)
LEMMA BootNoted ==
  ASSUME NEW m \in Models, NEW u, u = NoteBoot(m)
  PROVE  /\ u \in Models /\ u.boots = m.boots + 1
         /\ u.devices = m.devices /\ u.persistence = m.persistence /\ u.operator = m.operator
         /\ u.meta = m.meta /\ u.graph = m.graph /\ u.history = m.history
         /\ u.lamport = m.lamport /\ u.total = m.total /\ u.learned = m.learned
         /\ u.risk = m.risk /\ u.counts = m.counts
<1>1. Whole(m) /\ m.boots + 1 \in Nat
  BY Typed
<1>2. PICK b : b = m.boots + 1
  OBVIOUS
<1>3. u = [m EXCEPT !.boots = b]
  BY <1>2 DEF NoteBoot
<1>4. Whole(u) /\ Rest(u, m) /\ u.agents = m.agents /\ u.boots = b
      /\ u.devices = m.devices /\ u.persistence = m.persistence /\ u.operator = m.operator
      /\ u.meta = m.meta /\ u.graph = m.graph /\ u.history = m.history
      /\ u.lamport = m.lamport /\ u.total = m.total /\ u.learned = m.learned
      /\ u.risk = m.risk /\ u.counts = m.counts
  BY <1>1, <1>3, BootsSet
<1>5. u \in Models
  BY <1>1, <1>2, <1>4, Typed DEF Rest
<1>6. QED
  BY <1>2, <1>4, <1>5

LEMMA EventsHeard ==
  ASSUME NEW m \in Models, NEW events, Len(events) \in Nat, NEW u, u = Heard(m, events)
  PROVE  /\ u \in Models /\ u.operator.model.seen = m.operator.model.seen + Len(events)
         /\ u.operator.intents = m.operator.intents
         /\ u.devices = m.devices /\ u.persistence = m.persistence /\ u.meta = m.meta
         /\ u.graph = m.graph /\ u.history = m.history /\ u.lamport = m.lamport
         /\ u.boots = m.boots /\ u.total = m.total /\ u.learned = m.learned /\ u.risk = m.risk
         /\ u.counts = m.counts
<1>1. Whole(m) /\ m.operator \in OperatorRegions
  BY Typed
<1>2. PICK o : o = ObserveEvents(m.operator, events)
  OBVIOUS
<1>3. /\ o \in OperatorRegions /\ o.model.seen = m.operator.model.seen + Len(events)
      /\ o.intents = m.operator.intents
  BY <1>1, <1>2, EventsObserved
<1>4. u = WithOperator(m, o)
  BY <1>2 DEF Heard, WithOperator
<1>5. Whole(u) /\ Rest(u, m) /\ u.agents = m.agents /\ u.operator = o
      /\ u.devices = m.devices /\ u.persistence = m.persistence /\ u.meta = m.meta
      /\ u.graph = m.graph /\ u.history = m.history /\ u.lamport = m.lamport
      /\ u.boots = m.boots /\ u.total = m.total /\ u.learned = m.learned /\ u.risk = m.risk
      /\ u.counts = m.counts
  BY <1>1, <1>4, OperatorSet
<1>6. u \in Models
  BY <1>1, <1>3, <1>5, Typed DEF Rest
<1>7. QED
  BY <1>3, <1>5, <1>6

LEMMA ObservationAccounted ==
  ASSUME ModelParameters, NEW m \in Models, HistoryFits(m.history, m.total, m.learned),
         NEW region \in Regions, NEW s \in Nat, NEW u, u = AccountObservation(m, region, s)
  PROVE  /\ u \in Models /\ HistoryFits(u.history, u.total, u.learned)
         /\ u.total = m.total + 1 /\ u.learned = m.learned + s /\ u.risk = m.risk + s
         /\ u.devices = m.devices /\ u.persistence = m.persistence /\ u.operator = m.operator
         /\ u.meta = m.meta /\ u.graph = m.graph /\ u.lamport = m.lamport /\ u.boots = m.boots
         /\ u.counts = m.counts
<1>1. /\ Whole(m) /\ m.history \in Histories /\ m.lamport \in Nat /\ m.total \in Nat /\ m.learned \in Nat
      /\ m.risk \in Nat
  BY Typed
<1>2. PICK h : h = Told(m.history, m.lamport, region, s)
  OBVIOUS
<1>3. h \in Histories /\ HistoryFits(h, m.total + 1, m.learned + s)
  BY <1>1, <1>2, HistoryTold
<1>4. PICK t, l, r : t = m.total + 1 /\ l = m.learned + s /\ r = m.risk + s
  OBVIOUS
<1>5. u = WithObservation(m, t, l, r, h)
  <2>1. u = [m EXCEPT !.total = @ + 1, !.learned = @ + s, !.risk = @ + s,
                      !.history = Told(@, m.lamport, region, s)]
    BY DEF AccountObservation, Told
  <2>2. QED
    BY <1>2, <1>4, <2>1, Zenon DEF WithObservation
<1>6. Whole(u) /\ Rest(u, m) /\ u.agents = m.agents /\ u.total = t /\ u.learned = l /\ u.risk = r /\ u.history = h
      /\ u.devices = m.devices /\ u.persistence = m.persistence /\ u.operator = m.operator
      /\ u.meta = m.meta /\ u.graph = m.graph /\ u.lamport = m.lamport /\ u.boots = m.boots
      /\ u.counts = m.counts
  BY <1>1, <1>5, ObservationSet
<1>7. t \in Nat /\ l \in Nat /\ r \in Nat
  BY <1>1, <1>4
<1>8. u \in Models
  BY <1>1, <1>3, <1>6, <1>7, Typed DEF Rest
<1>9. HistoryFits(u.history, u.total, u.learned)
  BY <1>3, <1>4, <1>6
<1>10. QED
  BY <1>4, <1>6, <1>8, <1>9

LEMMA SubstrateAccounted ==
  ASSUME NEW m \in Models, NEW u, u = AccountSubstrate(m, "addressed")
  PROVE  /\ u \in Models
         /\ u.counts.substrate = m.counts.substrate + 2 /\ u.counts.surprisability = m.counts.surprisability
         /\ u.counts.addressed = m.counts.addressed + 1 /\ u.counts.updated = m.counts.updated /\ u.counts.novel = m.counts.novel
         /\ u.counts.rendered = m.counts.rendered
         /\ u.devices = m.devices /\ u.persistence = m.persistence /\ u.operator = m.operator
         /\ u.meta = m.meta /\ u.graph = m.graph /\ u.history = m.history
         /\ u.lamport = m.lamport /\ u.boots = m.boots /\ u.total = m.total
         /\ u.learned = m.learned /\ u.risk = m.risk
<1>1. PICK c \in CountsTyped :
        /\ u = [m EXCEPT !.counts = c]
        /\ c.substrate = m.counts.substrate + 2 /\ c.surprisability = m.counts.surprisability
        /\ c.addressed = m.counts.addressed + 1 /\ c.updated = m.counts.updated /\ c.novel = m.counts.novel
        /\ c.rendered = m.counts.rendered
  BY CountsAddressed
<1>2. Whole(m)
  BY Typed
<1>3. Whole(u) /\ Rest(u, m) /\ u.agents = m.agents /\ u.counts = c
      /\ u.devices = m.devices /\ u.persistence = m.persistence /\ u.operator = m.operator
      /\ u.meta = m.meta /\ u.graph = m.graph /\ u.history = m.history
      /\ u.lamport = m.lamport /\ u.boots = m.boots /\ u.total = m.total
      /\ u.learned = m.learned /\ u.risk = m.risk
  BY <1>1, <1>2, CountsSet
<1>4. u \in Models
  BY <1>1, <1>3, Typed DEF Rest
<1>5. QED
  BY <1>1, <1>3, <1>4

LEMMA RenderAccounted ==
  ASSUME NEW m \in Models, NEW u, u = AccountSubstrate(m, "rendered")
  PROVE  /\ u \in Models
         /\ u.counts.substrate = m.counts.substrate + 1 /\ u.counts.surprisability = m.counts.surprisability
         /\ u.counts.addressed = m.counts.addressed /\ u.counts.updated = m.counts.updated /\ u.counts.novel = m.counts.novel
         /\ u.counts.rendered = m.counts.rendered + 1
         /\ u.devices = m.devices /\ u.persistence = m.persistence /\ u.operator = m.operator
         /\ u.meta = m.meta /\ u.graph = m.graph /\ u.history = m.history
         /\ u.lamport = m.lamport /\ u.boots = m.boots /\ u.total = m.total
         /\ u.learned = m.learned /\ u.risk = m.risk
<1>1. PICK c \in CountsTyped :
        /\ u = [m EXCEPT !.counts = c]
        /\ c.substrate = m.counts.substrate + 1 /\ c.surprisability = m.counts.surprisability
        /\ c.addressed = m.counts.addressed /\ c.updated = m.counts.updated /\ c.novel = m.counts.novel
        /\ c.rendered = m.counts.rendered + 1
  BY CountsRendered
<1>2. Whole(m)
  BY Typed
<1>3. Whole(u) /\ Rest(u, m) /\ u.agents = m.agents /\ u.counts = c
      /\ u.devices = m.devices /\ u.persistence = m.persistence /\ u.operator = m.operator
      /\ u.meta = m.meta /\ u.graph = m.graph /\ u.history = m.history
      /\ u.lamport = m.lamport /\ u.boots = m.boots /\ u.total = m.total
      /\ u.learned = m.learned /\ u.risk = m.risk
  BY <1>1, <1>2, CountsSet
<1>4. u \in Models
  BY <1>1, <1>3, Typed DEF Rest
<1>5. QED
  BY <1>1, <1>3, <1>4

LEMMA UpdateAccounted ==
  ASSUME NEW m \in Models, NEW u, u = AccountSurprisability(m, "updated")
  PROVE  /\ u \in Models
         /\ u.counts.substrate = m.counts.substrate /\ u.counts.surprisability = m.counts.surprisability + 1
         /\ u.counts.addressed = m.counts.addressed /\ u.counts.updated = m.counts.updated + 1 /\ u.counts.novel = m.counts.novel
         /\ u.counts.rendered = m.counts.rendered
         /\ u.devices = m.devices /\ u.persistence = m.persistence /\ u.operator = m.operator
         /\ u.meta = m.meta /\ u.graph = m.graph /\ u.history = m.history
         /\ u.lamport = m.lamport /\ u.boots = m.boots /\ u.total = m.total
         /\ u.learned = m.learned /\ u.risk = m.risk
<1>1. PICK c \in CountsTyped :
        /\ u = [m EXCEPT !.counts = c]
        /\ c.substrate = m.counts.substrate /\ c.surprisability = m.counts.surprisability + 1
        /\ c.addressed = m.counts.addressed /\ c.updated = m.counts.updated + 1 /\ c.novel = m.counts.novel
        /\ c.rendered = m.counts.rendered
  BY CountsUpdated
<1>2. Whole(m)
  BY Typed
<1>3. Whole(u) /\ Rest(u, m) /\ u.agents = m.agents /\ u.counts = c
      /\ u.devices = m.devices /\ u.persistence = m.persistence /\ u.operator = m.operator
      /\ u.meta = m.meta /\ u.graph = m.graph /\ u.history = m.history
      /\ u.lamport = m.lamport /\ u.boots = m.boots /\ u.total = m.total
      /\ u.learned = m.learned /\ u.risk = m.risk
  BY <1>1, <1>2, CountsSet
<1>4. u \in Models
  BY <1>1, <1>3, Typed DEF Rest
<1>5. QED
  BY <1>1, <1>3, <1>4

LEMMA NoveltyAccounted ==
  ASSUME NEW m \in Models, NEW u, u = AccountSurprisability(m, "novel")
  PROVE  /\ u \in Models
         /\ u.counts.substrate = m.counts.substrate /\ u.counts.surprisability = m.counts.surprisability + 2
         /\ u.counts.addressed = m.counts.addressed /\ u.counts.updated = m.counts.updated /\ u.counts.novel = m.counts.novel + 1
         /\ u.counts.rendered = m.counts.rendered
         /\ u.devices = m.devices /\ u.persistence = m.persistence /\ u.operator = m.operator
         /\ u.meta = m.meta /\ u.graph = m.graph /\ u.history = m.history
         /\ u.lamport = m.lamport /\ u.boots = m.boots /\ u.total = m.total
         /\ u.learned = m.learned /\ u.risk = m.risk
<1>1. PICK c \in CountsTyped :
        /\ u = [m EXCEPT !.counts = c]
        /\ c.substrate = m.counts.substrate /\ c.surprisability = m.counts.surprisability + 2
        /\ c.addressed = m.counts.addressed /\ c.updated = m.counts.updated /\ c.novel = m.counts.novel + 1
        /\ c.rendered = m.counts.rendered
  BY CountsNovel
<1>2. Whole(m)
  BY Typed
<1>3. Whole(u) /\ Rest(u, m) /\ u.agents = m.agents /\ u.counts = c
      /\ u.devices = m.devices /\ u.persistence = m.persistence /\ u.operator = m.operator
      /\ u.meta = m.meta /\ u.graph = m.graph /\ u.history = m.history
      /\ u.lamport = m.lamport /\ u.boots = m.boots /\ u.total = m.total
      /\ u.learned = m.learned /\ u.risk = m.risk
  BY <1>1, <1>2, CountsSet
<1>4. u \in Models
  BY <1>1, <1>3, Typed DEF Rest
<1>5. QED
  BY <1>1, <1>3, <1>4

IntentOf(m, class) ==
  [m EXCEPT !.operator = ObserveIntent(@, class), !.graph = Explain(@, "operator", class, "rendered")]

LEMMA IntentExplained ==
  ASSUME NEW m \in Models, GraphSound(m.graph), NEW class \in Labels, class # "rendered", NEW u,
         u = IntentOf(m, class)
  PROVE  /\ u \in Models /\ GraphSound(u.graph)
         /\ Total(Seen(u.graph.edges)) = Total(Seen(m.graph.edges)) + 1
         /\ Total(Seen(u.graph.nodes)) = Total(Seen(m.graph.nodes)) + 2
         /\ u.operator.model.seen = m.operator.model.seen + 1 /\ u.operator.intents = m.operator.intents + 1
         /\ u.devices = m.devices /\ u.persistence = m.persistence /\ u.meta = m.meta
         /\ u.history = m.history /\ u.lamport = m.lamport /\ u.boots = m.boots
         /\ u.total = m.total /\ u.learned = m.learned /\ u.risk = m.risk /\ u.counts = m.counts
<1>1. Whole(m) /\ m.operator \in OperatorRegions
  BY Typed
<1>2. PICK o, g : o = ObserveIntent(m.operator, class) /\ g = Explain(m.graph, "operator", class, "rendered")
  OBVIOUS
<1>3. o \in OperatorRegions /\ o.model.seen = m.operator.model.seen + 1 /\ o.intents = m.operator.intents + 1
  BY <1>1, <1>2, IntentObserved
<1>4. /\ GraphSound(g) /\ Total(Seen(g.edges)) = Total(Seen(m.graph.edges)) + 1
      /\ Total(Seen(g.nodes)) = Total(Seen(m.graph.nodes)) + 2
  <2>1. "operator" \in Regions /\ "rendered" \in Labels
    BY DEF Regions, Labels
  <2>2. QED
    BY <1>2, <2>1, Explained
<1>5. u = WithIntent(m, o, g)
  BY <1>2, Zenon DEF WithIntent, IntentOf
<1>6. Whole(u) /\ Rest(u, m) /\ u.agents = m.agents /\ u.operator = o /\ u.graph = g
      /\ u.devices = m.devices /\ u.persistence = m.persistence /\ u.meta = m.meta
      /\ u.history = m.history /\ u.lamport = m.lamport /\ u.boots = m.boots
      /\ u.total = m.total /\ u.learned = m.learned /\ u.risk = m.risk /\ u.counts = m.counts
  <2>1. Whole(m)
    BY <1>1
  <2>2. QED
    BY ONLY <2>1, <1>5, IntentSet
<1>7. g \in CausalGraphs
  BY <1>4 DEF GraphSound
<1>8. u \in Models
  BY <1>1, <1>3, <1>6, <1>7, Typed DEF Rest
<1>9. QED
  BY <1>3, <1>4, <1>6, <1>8

StepOf(m, cause, effect) ==
  [m EXCEPT !.devices[1] = Step(@), !.graph = Explain(@, "devices", cause, effect)]

LEMMA StepExplained ==
  ASSUME NEW m \in Models, GraphSound(m.graph), m.devices # <<>>,
         NEW cause \in Labels, NEW effect \in Labels, cause # effect, NEW u,
         u = StepOf(m, cause, effect)
  PROVE  /\ u \in Models /\ GraphSound(u.graph)
         /\ Total(Seen(u.graph.edges)) = Total(Seen(m.graph.edges)) + 1
         /\ Total(Seen(u.graph.nodes)) = Total(Seen(m.graph.nodes)) + 2
         /\ u.devices # <<>> /\ u.devices[1].model.seen = m.devices[1].model.seen + 1
         /\ u.persistence = m.persistence /\ u.operator = m.operator /\ u.meta = m.meta
         /\ u.history = m.history /\ u.lamport = m.lamport /\ u.boots = m.boots
         /\ u.total = m.total /\ u.learned = m.learned /\ u.risk = m.risk /\ u.counts = m.counts
<1>1. Whole(m) /\ m.devices \in DeviceLists
  BY Typed
<1>2. PICK ds : ds = m.devices
  OBVIOUS
<1>3. PICK d, g : d = [ds EXCEPT ![1] = Step(@)] /\ g = Explain(m.graph, "devices", cause, effect)
  OBVIOUS
<1>4. d \in DeviceLists /\ d # <<>> /\ d[1].model.seen = ds[1].model.seen + 1
  BY <1>1, <1>2, <1>3, DeviceStepped
<1>5. /\ GraphSound(g) /\ Total(Seen(g.edges)) = Total(Seen(m.graph.edges)) + 1
      /\ Total(Seen(g.nodes)) = Total(Seen(m.graph.nodes)) + 2
  <2>1. "devices" \in Regions
    BY DEF Regions
  <2>2. QED
    BY <1>3, <2>1, Explained
<1>6. u = WithStep(m, d, g)
  <2>1. PICK a : a = Step(ds[1])
    OBVIOUS
  <2>2. u = [m EXCEPT !.devices[1] = a, !.graph = g]
    BY <1>2, <1>3, <2>1 DEF StepOf
  <2>3. u = [m EXCEPT !.devices = [m.devices EXCEPT ![1] = a], !.graph = g]
    BY <2>2
  <2>4. d = [m.devices EXCEPT ![1] = a]
    BY <1>2, <1>3, <2>1
  <2>5. QED
    BY <2>3, <2>4, Zenon DEF WithStep
<1>7. Whole(u) /\ Rest(u, m) /\ u.agents = m.agents /\ u.devices = d /\ u.graph = g
      /\ u.persistence = m.persistence /\ u.operator = m.operator /\ u.meta = m.meta
      /\ u.history = m.history /\ u.lamport = m.lamport /\ u.boots = m.boots
      /\ u.total = m.total /\ u.learned = m.learned /\ u.risk = m.risk /\ u.counts = m.counts
  <2>1. Whole(m)
    BY <1>1
  <2>2. QED
    BY ONLY <2>1, <1>6, StepSet
<1>8. g \in CausalGraphs
  BY <1>5 DEF GraphSound
<1>9. u \in Models
  BY <1>1, <1>4, <1>7, <1>8, Typed DEF Rest
<1>10. QED
  BY <1>2, <1>4, <1>5, <1>7, <1>9

-----------------------------------------------------------------------------
(***************************************************************************)
(* The accounts of one model.                                              *)
(***************************************************************************)
GraphFits(m) ==
  /\ GraphSound(m.graph) /\ Total(Seen(m.graph.edges)) = m.total
  /\ Total(Seen(m.graph.nodes)) = 2 * m.total

CountersFit(m) ==
  /\ m.total = m.operator.intents + m.counts.updated
  /\ m.counts.addressed = m.operator.intents
  /\ m.counts.substrate = 2 * m.counts.addressed + m.counts.rendered
  /\ m.counts.surprisability = m.counts.updated + 2 * m.counts.novel
  /\ m.meta.model.seen = m.meta.assessments

PersistsFit(m) ==
  /\ m.persistence.model.seen = m.persistence.persists + m.persistence.failedPersists
  /\ m.persistence.restores = m.persistence.persists /\ m.persistence.failedRestores = 0

\* How many lines n answers may have had.
Answered(n) == n .. (LongestAnswer * n)

EventsFit(m, on) ==
  \E k \in Answered(m.operator.intents) :
    m.operator.model.seen =
      (IF on THEN 3 * m.boots ELSE 2 * m.boots) + 2 * m.operator.intents + k + m.counts.updated
      + m.meta.assessments + m.persistence.model.seen

StepsFit(m, on) ==
  on => m.devices # <<>> /\ m.devices[1].model.seen >= m.boots + m.counts.updated

Accounts(m, on) ==
  /\ GraphFits(m) /\ CountersFit(m) /\ PersistsFit(m) /\ EventsFit(m, on) /\ StepsFit(m, on)
  /\ HistoryFits(m.history, m.total, m.learned)

Sound(m, on) == m \in Models /\ Accounts(m, on)

Numbers(m) ==
  /\ m.boots \in Nat /\ m.total \in Nat /\ m.learned \in Nat /\ m.risk \in Nat /\ m.lamport \in Nat
  /\ m.operator.intents \in Nat /\ m.operator.model.seen \in Nat
  /\ m.counts.substrate \in Int /\ m.counts.surprisability \in Int /\ m.counts.addressed \in Nat
  /\ m.counts.updated \in Nat /\ m.counts.novel \in Nat /\ m.counts.rendered \in Nat
  /\ m.meta.assessments \in Nat /\ m.meta.model.seen \in Nat
  /\ m.persistence.model.seen \in Nat /\ m.persistence.persists \in Nat
  /\ m.persistence.failedPersists \in Nat /\ m.persistence.restores \in Nat
  /\ m.persistence.failedRestores \in Nat /\ m.persistence.threshold = Threshold
  /\ (m.devices # <<>> => m.devices[1].model.seen \in Nat)

LEMMA AnsweredNone == 0 \in Answered(0)
BY LoopAssumption DEF LoopParameters, Answered

LEMMA AnsweredLines ==
  ASSUME NEW n, NEW k \in Answered(n)
  PROVE  k \in Int
BY DEF Answered

LEMMA AnsweredOneMore ==
  ASSUME NEW n \in Nat, NEW k \in Answered(n), NEW answer \in 1..LongestAnswer
  PROVE  k + answer \in Answered(n + 1)
<1>1. PICK top : top = LongestAnswer * n
  OBVIOUS
<1>2. LongestAnswer \in Nat
  BY LoopAssumption DEF LoopParameters
<1>3. top \in Int /\ LongestAnswer * (n + 1) = top + LongestAnswer
  BY <1>1, <1>2
<1>4. k \in n..top
  BY <1>1 DEF Answered
<1>5. k + answer \in (n + 1) .. (top + LongestAnswer)
  BY <1>2, <1>3, <1>4
<1>6. QED
  BY <1>3, <1>5 DEF Answered

LEMMA NumbersTyped ==
  ASSUME NEW m \in Models
  PROVE  Numbers(m)
<1>1. m.operator.intents \in Nat /\ m.operator.model.seen \in Nat
  BY Typed, OperatorParts, DiscreteParts
<1>2. /\ m.counts.substrate \in Int /\ m.counts.surprisability \in Int /\ m.counts.addressed \in Nat
      /\ m.counts.updated \in Nat /\ m.counts.novel \in Nat /\ m.counts.rendered \in Nat
  BY Typed, CountsParts
<1>3. m.meta.assessments \in Nat /\ m.meta.model.seen \in Nat
  BY Typed, MetaParts, DiscreteParts
<1>4. /\ m.persistence.model.seen \in Nat /\ m.persistence.persists \in Nat
      /\ m.persistence.failedPersists \in Nat /\ m.persistence.restores \in Nat
      /\ m.persistence.failedRestores \in Nat /\ m.persistence.threshold = Threshold
  BY Typed, PersistenceParts, DiscreteParts
<1>5. m.devices # <<>> => m.devices[1].model.seen \in Nat
  <2>1. SUFFICES ASSUME m.devices # <<>> PROVE m.devices[1].model.seen \in Nat
    OBVIOUS
  <2>2. PICK ds \in DeviceLists : ds = m.devices
    BY Typed
  <2>3. PICK a \in StorageAgents : ds = <<a>>
    BY <2>1, <2>2 DEF DeviceLists
  <2>4. a.model \in Discretes(<<5, 5, 5>>)
    BY DEF StorageAgents
  <2>5. a.model.seen \in Nat
    BY <2>4, DiscreteParts
  <2>6. QED
    BY <2>2, <2>3, <2>5
<1>6. m.boots \in Nat /\ m.total \in Nat /\ m.learned \in Nat /\ m.risk \in Nat /\ m.lamport \in Nat
  BY Typed
<1>7. QED
  BY <1>1, <1>2, <1>3, <1>4, <1>5, <1>6 DEF Numbers

(***************************************************************************)
(* An intent of the operator.                                              *)
(***************************************************************************)
Intended(m, line, s, answer) ==
  LET heard == IntentOf(Handled(m, line), Classify(line))
      accounted == AccountSubstrate(AccountObservation(heard, "operator", s), "addressed")
  IN Heard(accounted, <<"input">> \o [i \in 1..answer |-> "response"])

LEMMA CommandHandled ==
  ASSUME Bump \in Nat, NEW m \in Models, NEW line, NEW u, u = Handled(m, line)
  PROVE  /\ u \in Models /\ u.risk >= m.risk
         /\ u.devices = m.devices /\ u.persistence = m.persistence /\ u.operator = m.operator
         /\ u.meta = m.meta /\ u.graph = m.graph /\ u.history = m.history /\ u.lamport = m.lamport
         /\ u.boots = m.boots /\ u.total = m.total /\ u.learned = m.learned /\ u.counts = m.counts
<1>1. Whole(m) /\ m.risk \in Nat
  BY Typed
<1>2. CASE line = "persist"
  <2>1. PICK r : r = m.risk + Bump
    OBVIOUS
  <2>2. u = [m EXCEPT !.risk = r]
    BY <1>2, <2>1 DEF Handled
  <2>3. Whole(m)
    BY <1>1
  <2>4. /\ Whole(u) /\ Rest(u, m) /\ u.agents = m.agents /\ u.risk = r
        /\ u.devices = m.devices /\ u.persistence = m.persistence /\ u.operator = m.operator
        /\ u.meta = m.meta /\ u.graph = m.graph /\ u.history = m.history /\ u.lamport = m.lamport
        /\ u.boots = m.boots /\ u.total = m.total /\ u.learned = m.learned /\ u.counts = m.counts
    BY ONLY <2>2, <2>3, RiskSet
  <2>5. r \in Nat /\ r >= m.risk
    BY <1>1, <2>1
  <2>6. u \in Models
    BY <2>4, <2>5, Typed DEF Rest
  <2>7. QED
    BY <2>4, <2>5, <2>6
<1>3. CASE line # "persist"
  <2>1. u = m
    BY <1>3 DEF Handled
  <2>2. QED
    BY <1>1, <2>1
<1>4. QED
  BY <1>2, <1>3

LEMMA IntentKept ==
  ASSUME ModelParameters, Bump \in Nat, NEW on \in BOOLEAN, NEW m, Sound(m, on),
         NEW line \in Vocabulary, NEW s \in Nat, NEW answer \in 1..LongestAnswer, NEW u,
         u = Intended(m, line, s, answer)
  PROVE  /\ Sound(u, on) /\ u.boots = m.boots /\ u.total = m.total + 1
         /\ u.learned = m.learned + s /\ u.risk >= m.risk + s
<1>1. PICK a : a = Handled(m, line)
  OBVIOUS
<1>2. PICK class : class = Classify(line)
  OBVIOUS
<1>3. class \in Labels /\ class # "rendered"
  BY <1>2 DEF Vocabulary, Classify, Labels
<1>4. PICK b : b = IntentOf(a, class)
  OBVIOUS
<1>5. PICK c : c = AccountObservation(b, "operator", s)
  OBVIOUS
<1>6. PICK d : d = AccountSubstrate(c, "addressed")
  OBVIOUS
<1>7. PICK events : events = <<"input">> \o [i \in 1..answer |-> "response"]
  OBVIOUS
<1>8. PICK e : e = Heard(d, events)
  OBVIOUS
<1>9. u = e
  BY <1>1, <1>2, <1>4, <1>5, <1>6, <1>7, <1>8, Zenon DEF Intended
<1>10. answer \in Nat /\ Len(events) = 1 + answer
  <2>1. PICK first, lines, X : /\ first = <<"input">> /\ lines = [i \in 1..answer |-> "response"]
                               /\ X = {"input", "response"}
    OBVIOUS
  <2>2. answer \in Nat
    BY LoopAssumption DEF LoopParameters
  <2>3. first \in Seq(X) /\ Len(first) = 1
    BY <2>1
  <2>4. lines \in Seq(X) /\ Len(lines) = answer
    <3>1. lines \in [1..answer -> X]
      BY ONLY <2>1
    <3>2. lines \in Seq(X)
      BY ONLY <2>2, <3>1, SeqDef
    <3>3. DOMAIN lines = 1..answer
      BY ONLY <3>1
    <3>4. QED
      BY ONLY <2>2, <3>2, <3>3, LenProperties
  <2>5. events = first \o lines
    BY <1>7, <2>1
  <2>6. QED
    <3>1. Len(first \o lines) = Len(first) + Len(lines)
      BY ONLY <2>3, <2>4, Joined
    <3>2. QED
      BY ONLY <2>2, <2>3, <2>4, <2>5, <3>1
<1>11. m \in Models /\ Accounts(m, on)
  BY DEF Sound
<1>12. HistoryFits(m.history, m.total, m.learned) /\ GraphFits(m)
  BY <1>11 DEF Accounts
<1>13. /\ a \in Models /\ a.risk >= m.risk
       /\ a.devices = m.devices /\ a.persistence = m.persistence /\ a.operator = m.operator
       /\ a.meta = m.meta /\ a.graph = m.graph /\ a.history = m.history
       /\ a.boots = m.boots /\ a.total = m.total /\ a.learned = m.learned /\ a.counts = m.counts
  BY <1>1, <1>11, CommandHandled
<1>14. /\ b \in Models /\ GraphSound(b.graph)
       /\ Total(Seen(b.graph.edges)) = Total(Seen(a.graph.edges)) + 1
       /\ Total(Seen(b.graph.nodes)) = Total(Seen(a.graph.nodes)) + 2
       /\ b.operator.model.seen = a.operator.model.seen + 1 /\ b.operator.intents = a.operator.intents + 1
       /\ b.devices = a.devices /\ b.persistence = a.persistence /\ b.meta = a.meta
       /\ b.history = a.history /\ b.boots = a.boots /\ b.total = a.total /\ b.learned = a.learned
       /\ b.risk = a.risk /\ b.counts = a.counts
  <2>1. GraphSound(a.graph) /\ a \in Models
    BY <1>12, <1>13 DEF GraphFits
  <2>2. QED
    BY ONLY <1>3, <1>4, <2>1, IntentExplained
<1>15. /\ c \in Models /\ HistoryFits(c.history, c.total, c.learned)
       /\ c.total = b.total + 1 /\ c.learned = b.learned + s /\ c.risk = b.risk + s
       /\ c.devices = b.devices /\ c.persistence = b.persistence /\ c.operator = b.operator
       /\ c.meta = b.meta /\ c.graph = b.graph /\ c.boots = b.boots /\ c.counts = b.counts
  <2>1. HistoryFits(b.history, b.total, b.learned) /\ "operator" \in Regions /\ b \in Models
    BY <1>12, <1>13, <1>14 DEF Regions
  <2>2. ModelParameters /\ s \in Nat
    OBVIOUS
  <2>3. QED
    BY ONLY <1>5, <2>1, <2>2, ObservationAccounted
<1>16. /\ d \in Models
       /\ d.counts.substrate = c.counts.substrate + 2 /\ d.counts.surprisability = c.counts.surprisability
       /\ d.counts.addressed = c.counts.addressed + 1 /\ d.counts.updated = c.counts.updated
       /\ d.counts.novel = c.counts.novel /\ d.counts.rendered = c.counts.rendered
       /\ d.devices = c.devices /\ d.persistence = c.persistence /\ d.operator = c.operator
       /\ d.meta = c.meta /\ d.graph = c.graph /\ d.history = c.history /\ d.boots = c.boots
       /\ d.total = c.total /\ d.learned = c.learned /\ d.risk = c.risk
  <2>1. c \in Models
    BY <1>15
  <2>2. QED
    BY ONLY <1>6, <2>1, SubstrateAccounted
<1>17. /\ e \in Models /\ e.operator.model.seen = d.operator.model.seen + (1 + answer)
       /\ e.operator.intents = d.operator.intents
       /\ e.devices = d.devices /\ e.persistence = d.persistence /\ e.meta = d.meta
       /\ e.graph = d.graph /\ e.history = d.history /\ e.boots = d.boots
       /\ e.total = d.total /\ e.learned = d.learned /\ e.risk = d.risk /\ e.counts = d.counts
  <2>1. d \in Models /\ Len(events) \in Nat
    BY <1>10, <1>16
  <2>2. QED
    <3>1. /\ e \in Models /\ e.operator.model.seen = d.operator.model.seen + Len(events)
          /\ e.operator.intents = d.operator.intents
          /\ e.devices = d.devices /\ e.persistence = d.persistence /\ e.meta = d.meta
          /\ e.graph = d.graph /\ e.history = d.history /\ e.boots = d.boots
          /\ e.total = d.total /\ e.learned = d.learned /\ e.risk = d.risk /\ e.counts = d.counts
      BY ONLY <1>8, <2>1, EventsHeard
    <3>2. QED
      BY ONLY <1>10, <3>1
<1>18. Numbers(m)
  BY <1>11, NumbersTyped
<1>19. /\ e.devices = m.devices /\ e.persistence = m.persistence /\ e.meta = m.meta /\ e.boots = m.boots
       /\ e.total = m.total + 1 /\ e.learned = m.learned + s /\ e.risk = a.risk + s
       /\ e.operator.model.seen = m.operator.model.seen + 2 + answer
       /\ e.operator.intents = m.operator.intents + 1
       /\ e.counts.substrate = m.counts.substrate + 2 /\ e.counts.surprisability = m.counts.surprisability
       /\ e.counts.addressed = m.counts.addressed + 1 /\ e.counts.updated = m.counts.updated
       /\ e.counts.novel = m.counts.novel /\ e.counts.rendered = m.counts.rendered
  <2>1. e.devices = m.devices /\ e.persistence = m.persistence /\ e.meta = m.meta /\ e.boots = m.boots
    BY ONLY <1>13, <1>14, <1>15, <1>16, <1>17
  <2>2. e.total = m.total + 1 /\ e.learned = m.learned + s /\ e.risk = a.risk + s
    BY ONLY <1>13, <1>14, <1>15, <1>16, <1>17
  <2>3. e.operator.intents = m.operator.intents + 1
    BY ONLY <1>13, <1>14, <1>15, <1>16, <1>17
  <2>4. e.operator.model.seen = m.operator.model.seen + 2 + answer
    <3>1. e.operator.model.seen = (m.operator.model.seen + 1) + (1 + answer)
      BY ONLY <1>13, <1>14, <1>15, <1>16, <1>17
    <3>2. m.operator.model.seen \in Nat
      BY ONLY <1>18 DEF Numbers
    <3>3. PICK before, after : before = m.operator.model.seen /\ after = e.operator.model.seen
      BY ONLY TRUE
    <3>4. after = (before + 1) + (1 + answer) /\ before \in Nat
      BY ONLY <3>1, <3>2, <3>3
    <3>5. answer \in Nat
      BY ONLY <1>10
    <3>6. after = before + 2 + answer
      BY ONLY <3>4, <3>5, SMT
    <3>7. QED
      BY ONLY <3>3, <3>6
  <2>5. /\ e.counts.substrate = m.counts.substrate + 2 /\ e.counts.surprisability = m.counts.surprisability
        /\ e.counts.addressed = m.counts.addressed + 1 /\ e.counts.updated = m.counts.updated
        /\ e.counts.novel = m.counts.novel /\ e.counts.rendered = m.counts.rendered
    BY ONLY <1>13, <1>14, <1>15, <1>16, <1>17
  <2>6. QED
    BY ONLY <2>1, <2>2, <2>3, <2>4, <2>5
<1>20. GraphFits(e)
  <2>1. e.graph = b.graph /\ a.graph = m.graph
    BY ONLY <1>13, <1>14, <1>15, <1>16, <1>17
  <2>2. GraphSound(m.graph) /\ Total(Seen(m.graph.edges)) = m.total /\ Total(Seen(m.graph.nodes)) = 2 * m.total
    BY <1>12 DEF GraphFits
  <2>3. 2 * m.total + 2 = 2 * (m.total + 1)
    <3>1. m.total \in Nat
      BY ONLY <1>18 DEF Numbers
    <3>2. QED
      BY ONLY <3>1
  <2>4. GraphSound(e.graph) /\ Total(Seen(e.graph.edges)) = e.total /\ Total(Seen(e.graph.nodes)) = 2 * e.total
    BY ONLY <1>14, <1>19, <2>1, <2>2, <2>3
  <2>5. QED
    BY <2>4 DEF GraphFits
<1>21. CountersFit(e) /\ PersistsFit(e) /\ EventsFit(e, on) /\ StepsFit(e, on)
  <2>1. CountersFit(m) /\ PersistsFit(m) /\ EventsFit(m, on) /\ StepsFit(m, on)
    BY <1>11 DEF Accounts
  <2>2. CountersFit(e)
    <3>1. /\ m.total \in Nat /\ m.operator.intents \in Nat /\ m.counts.updated \in Nat
          /\ m.counts.addressed \in Nat /\ m.counts.rendered \in Nat /\ m.counts.novel \in Nat
      BY ONLY <1>18 DEF Numbers
    <3>2. /\ m.total = m.operator.intents + m.counts.updated
          /\ m.counts.addressed = m.operator.intents
          /\ m.counts.substrate = 2 * m.counts.addressed + m.counts.rendered
          /\ m.counts.surprisability = m.counts.updated + 2 * m.counts.novel
          /\ m.meta.model.seen = m.meta.assessments
      BY ONLY <2>1 DEF CountersFit
    <3>3. /\ e.total = e.operator.intents + e.counts.updated
          /\ e.counts.addressed = e.operator.intents
          /\ e.counts.substrate = 2 * e.counts.addressed + e.counts.rendered
          /\ e.counts.surprisability = e.counts.updated + 2 * e.counts.novel
          /\ e.meta.model.seen = e.meta.assessments
      BY ONLY <1>19, <3>1, <3>2
    <3>4. QED
      BY <3>3 DEF CountersFit
  <2>3. PersistsFit(e)
    BY ONLY <1>19, <2>1 DEF PersistsFit
  <2>4. EventsFit(e, on)
    <3>1. PICK z : z = IF on THEN 3 * m.boots ELSE 2 * m.boots
      OBVIOUS
    <3>2. /\ m.boots \in Nat /\ m.operator.intents \in Nat /\ m.counts.updated \in Nat
          /\ m.meta.assessments \in Nat /\ m.persistence.model.seen \in Nat
      BY ONLY <1>18 DEF Numbers
    <3>3. z \in Nat
      BY <3>1, <3>2
    <3>4. PICK k \in Answered(m.operator.intents) :
            m.operator.model.seen = z + 2 * m.operator.intents + k + m.counts.updated
                                    + m.meta.assessments + m.persistence.model.seen
      BY ONLY <2>1, <3>1 DEF EventsFit
    <3>5. PICK lines : lines = k + answer
      OBVIOUS
    <3>6. k \in Int /\ lines \in Answered(m.operator.intents + 1)
      BY ONLY <3>2, <3>4, <3>5, answer \in 1..LongestAnswer, AnsweredLines, AnsweredOneMore
    <3>7. e.operator.model.seen = z + 2 * e.operator.intents + lines + e.counts.updated
                                  + e.meta.assessments + e.persistence.model.seen
      <4>1. /\ e.operator.model.seen = m.operator.model.seen + 2 + answer
            /\ e.operator.intents = m.operator.intents + 1 /\ e.counts.updated = m.counts.updated
            /\ e.meta.assessments = m.meta.assessments
            /\ e.persistence.model.seen = m.persistence.model.seen
        BY ONLY <1>19
      <4>2. answer \in Nat
        BY <1>10
      <4>3. QED
        BY ONLY <3>2, <3>3, <3>4, <3>5, <3>6, <4>1, <4>2
    <3>8. lines \in Answered(e.operator.intents)
      BY ONLY <1>19, <3>6
    <3>9. QED
      BY ONLY <1>19, <3>1, <3>7, <3>8 DEF EventsFit
  <2>5. StepsFit(e, on)
    BY ONLY <1>19, <2>1 DEF StepsFit
  <2>6. QED
    BY <2>2, <2>3, <2>4, <2>5
<1>22. HistoryFits(e.history, e.total, e.learned)
  BY ONLY <1>15, <1>16, <1>17
<1>23. Sound(e, on)
  BY ONLY <1>17, <1>20, <1>21, <1>22 DEF Sound, Accounts
<1>24. e.risk >= m.risk + s
  <2>1. e.risk = a.risk + s /\ a.risk >= m.risk
    BY <1>13, <1>19
  <2>2. a.risk \in Nat /\ m.risk \in Nat /\ s \in Nat
    BY <1>11, <1>13, Typed
  <2>3. QED
    BY ONLY <2>1, <2>2
<1>25. QED
  BY <1>9, <1>19, <1>23, <1>24

-----------------------------------------------------------------------------
(***************************************************************************)
(* A step of the storage agent.                                            *)
(***************************************************************************)
Stepped(m, action, result, s) ==
  LET stepped == StepOf(m, action, Observation(result))
      learned == AccountSurprisability(AccountObservation(stepped, "devices", s), "updated")
  IN Heard(IF Novel(s) THEN AccountSurprisability(learned, "novel") ELSE learned, <<"step">>)

LEMMA StepKept ==
  ASSUME ModelParameters, NEW on \in BOOLEAN, NEW m, Sound(m, on), m.devices # <<>>,
         NEW action \in {"identify", "read", "write", "flush", "wait"},
         NEW result \in {"ok", "timeout", "error", "noDevice"},
         NEW s \in Nat, NEW u, u = Stepped(m, action, result, s)
  PROVE  /\ Sound(u, on) /\ u.boots = m.boots /\ u.total = m.total + 1
         /\ u.learned = m.learned + s /\ u.risk = m.risk + s
<1>1. PICK effect : effect = Observation(result)
  OBVIOUS
<1>2. action \in Labels /\ effect \in Labels /\ action # effect
  <2>1. effect \in {"ok", "timeout", "error"}
    BY <1>1 DEF Observation
  <2>2. QED
    BY <2>1 DEF Labels
<1>3. PICK b : b = StepOf(m, action, effect)
  OBVIOUS
<1>4. PICK c : c = AccountObservation(b, "devices", s)
  OBVIOUS
<1>5. PICK d : d = AccountSurprisability(c, "updated")
  OBVIOUS
<1>6. PICK n : n = IF Novel(s) THEN AccountSurprisability(d, "novel") ELSE d
  OBVIOUS
<1>7. PICK events : events = <<"step">>
  OBVIOUS
<1>8. PICK e : e = Heard(n, events)
  OBVIOUS
<1>9. u = e
  BY <1>1, <1>3, <1>4, <1>5, <1>6, <1>7, <1>8, Zenon DEF Stepped
<1>10. Len(events) = 1
  BY <1>7
<1>11. m \in Models /\ Accounts(m, on)
  BY DEF Sound
<1>12. HistoryFits(m.history, m.total, m.learned) /\ GraphFits(m)
  BY <1>11 DEF Accounts
<1>13. /\ b \in Models /\ GraphSound(b.graph)
       /\ Total(Seen(b.graph.edges)) = Total(Seen(m.graph.edges)) + 1
       /\ Total(Seen(b.graph.nodes)) = Total(Seen(m.graph.nodes)) + 2
       /\ b.devices # <<>> /\ b.devices[1].model.seen = m.devices[1].model.seen + 1
       /\ b.persistence = m.persistence /\ b.operator = m.operator /\ b.meta = m.meta
       /\ b.history = m.history /\ b.lamport = m.lamport /\ b.boots = m.boots
       /\ b.total = m.total /\ b.learned = m.learned /\ b.risk = m.risk /\ b.counts = m.counts
  <2>1. GraphSound(m.graph) /\ m \in Models /\ m.devices # <<>>
    BY <1>11, <1>12 DEF GraphFits
  <2>2. QED
    BY ONLY <1>2, <1>3, <2>1, StepExplained
<1>14. /\ c \in Models /\ HistoryFits(c.history, c.total, c.learned)
       /\ c.total = b.total + 1 /\ c.learned = b.learned + s /\ c.risk = b.risk + s
       /\ c.devices = b.devices /\ c.persistence = b.persistence /\ c.operator = b.operator
       /\ c.meta = b.meta /\ c.graph = b.graph /\ c.lamport = b.lamport /\ c.boots = b.boots
       /\ c.counts = b.counts
  <2>1. HistoryFits(b.history, b.total, b.learned) /\ "devices" \in Regions /\ b \in Models
    BY <1>12, <1>13 DEF Regions
  <2>2. ModelParameters /\ s \in Nat
    OBVIOUS
  <2>3. QED
    BY ONLY <1>4, <2>1, <2>2, ObservationAccounted
<1>15. /\ d \in Models
       /\ d.counts.substrate = c.counts.substrate /\ d.counts.surprisability = c.counts.surprisability + 1
       /\ d.counts.addressed = c.counts.addressed /\ d.counts.updated = c.counts.updated + 1
       /\ d.counts.novel = c.counts.novel /\ d.counts.rendered = c.counts.rendered
       /\ d.devices = c.devices /\ d.persistence = c.persistence /\ d.operator = c.operator
       /\ d.meta = c.meta /\ d.graph = c.graph /\ d.history = c.history
       /\ d.lamport = c.lamport /\ d.boots = c.boots /\ d.total = c.total
       /\ d.learned = c.learned /\ d.risk = c.risk
  <2>1. c \in Models
    BY <1>14
  <2>2. QED
    BY ONLY <1>5, <2>1, UpdateAccounted
<1>16. PICK v \in {0, 1} :
         /\ n \in Models
         /\ n.counts.substrate = d.counts.substrate /\ n.counts.surprisability = d.counts.surprisability + 2 * v
         /\ n.counts.addressed = d.counts.addressed /\ n.counts.updated = d.counts.updated
         /\ n.counts.novel = d.counts.novel + v /\ n.counts.rendered = d.counts.rendered
         /\ n.devices = d.devices /\ n.persistence = d.persistence /\ n.operator = d.operator
         /\ n.meta = d.meta /\ n.graph = d.graph /\ n.history = d.history
         /\ n.lamport = d.lamport /\ n.boots = d.boots /\ n.total = d.total
         /\ n.learned = d.learned /\ n.risk = d.risk
  <2>1. d \in Models
    BY <1>15
  <2>2. CASE Novel(s)
    <3>1. n = AccountSurprisability(d, "novel")
      BY <1>6, <2>2
    <3>2. /\ n \in Models
          /\ n.counts.substrate = d.counts.substrate /\ n.counts.surprisability = d.counts.surprisability + 2
          /\ n.counts.addressed = d.counts.addressed /\ n.counts.updated = d.counts.updated
          /\ n.counts.novel = d.counts.novel + 1 /\ n.counts.rendered = d.counts.rendered
          /\ n.devices = d.devices /\ n.persistence = d.persistence /\ n.operator = d.operator
          /\ n.meta = d.meta /\ n.graph = d.graph /\ n.history = d.history
          /\ n.lamport = d.lamport /\ n.boots = d.boots /\ n.total = d.total
          /\ n.learned = d.learned /\ n.risk = d.risk
      BY ONLY <2>1, <3>1, NoveltyAccounted
    <3>3. 1 \in {0, 1} /\ 2 * 1 = 2
      OBVIOUS
    <3>4. d.counts.surprisability + 2 * 1 = d.counts.surprisability + 2
      BY <3>3
    <3>5. QED
      BY ONLY <3>2, <3>3, <3>4
  <2>3. CASE ~ Novel(s)
    <3>1. n = d
      BY <1>6, <2>3
    <3>2. d.counts.surprisability + 2 * 0 = d.counts.surprisability /\ d.counts.novel + 0 = d.counts.novel
      BY <2>1, NumbersTyped DEF Numbers
    <3>3. QED
      BY <2>1, <3>1, <3>2
  <2>4. QED
    BY <2>2, <2>3
<1>17. /\ e \in Models /\ e.operator.model.seen = n.operator.model.seen + 1
       /\ e.operator.intents = n.operator.intents
       /\ e.devices = n.devices /\ e.persistence = n.persistence /\ e.meta = n.meta
       /\ e.graph = n.graph /\ e.history = n.history /\ e.lamport = n.lamport
       /\ e.boots = n.boots /\ e.total = n.total /\ e.learned = n.learned /\ e.risk = n.risk
       /\ e.counts = n.counts
  <2>1. n \in Models /\ Len(events) \in Nat
    BY <1>10, <1>16
  <2>2. /\ e \in Models /\ e.operator.model.seen = n.operator.model.seen + Len(events)
        /\ e.operator.intents = n.operator.intents
        /\ e.devices = n.devices /\ e.persistence = n.persistence /\ e.meta = n.meta
        /\ e.graph = n.graph /\ e.history = n.history /\ e.lamport = n.lamport
        /\ e.boots = n.boots /\ e.total = n.total /\ e.learned = n.learned /\ e.risk = n.risk
        /\ e.counts = n.counts
    BY ONLY <1>8, <2>1, EventsHeard
  <2>3. QED
    BY ONLY <1>10, <2>2
<1>18. Numbers(m)
  BY <1>11, NumbersTyped
<1>19. /\ e.persistence = m.persistence /\ e.meta = m.meta /\ e.boots = m.boots
       /\ e.total = m.total + 1 /\ e.learned = m.learned + s /\ e.risk = m.risk + s
       /\ e.operator.model.seen = m.operator.model.seen + 1
       /\ e.operator.intents = m.operator.intents
       /\ e.counts.substrate = m.counts.substrate
       /\ e.counts.surprisability = m.counts.surprisability + 1 + 2 * v
       /\ e.counts.addressed = m.counts.addressed /\ e.counts.updated = m.counts.updated + 1
       /\ e.counts.novel = m.counts.novel + v /\ e.counts.rendered = m.counts.rendered
  BY ONLY <1>13, <1>14, <1>15, <1>16, <1>17
<1>20. GraphFits(e)
  <2>1. e.graph = b.graph
    BY ONLY <1>14, <1>15, <1>16, <1>17
  <2>2. GraphSound(m.graph) /\ Total(Seen(m.graph.edges)) = m.total /\ Total(Seen(m.graph.nodes)) = 2 * m.total
    BY <1>12 DEF GraphFits
  <2>3. 2 * m.total + 2 = 2 * (m.total + 1)
    <3>1. m.total \in Nat
      BY ONLY <1>18 DEF Numbers
    <3>2. QED
      BY ONLY <3>1
  <2>4. GraphSound(e.graph) /\ Total(Seen(e.graph.edges)) = e.total /\ Total(Seen(e.graph.nodes)) = 2 * e.total
    BY ONLY <1>13, <1>19, <2>1, <2>2, <2>3
  <2>5. QED
    BY <2>4 DEF GraphFits
<1>21. CountersFit(m) /\ PersistsFit(m) /\ EventsFit(m, on) /\ StepsFit(m, on)
  BY <1>11 DEF Accounts
<1>22. e.devices # <<>> /\ e.devices[1].model.seen = m.devices[1].model.seen + 1
  BY ONLY <1>13, <1>14, <1>15, <1>16, <1>17
<1>23. v \in Nat
  BY <1>16
<1>24. CountersFit(e) /\ PersistsFit(e) /\ EventsFit(e, on) /\ StepsFit(e, on)
  <2>1. /\ m.total \in Nat /\ m.boots \in Nat /\ m.operator.intents \in Nat /\ m.counts.updated \in Nat
        /\ m.counts.addressed \in Nat /\ m.counts.rendered \in Nat /\ m.counts.novel \in Nat
        /\ m.meta.assessments \in Nat
        /\ m.persistence.model.seen \in Nat /\ m.persistence.persists \in Nat
        /\ m.persistence.failedPersists \in Nat
    BY ONLY <1>18 DEF Numbers
  <2>2. CountersFit(e)
    <3>1. /\ m.total = m.operator.intents + m.counts.updated
          /\ m.counts.addressed = m.operator.intents
          /\ m.counts.substrate = 2 * m.counts.addressed + m.counts.rendered
          /\ m.counts.surprisability = m.counts.updated + 2 * m.counts.novel
          /\ m.meta.model.seen = m.meta.assessments
      BY ONLY <1>21 DEF CountersFit
    <3>2. /\ e.total = e.operator.intents + e.counts.updated
          /\ e.counts.addressed = e.operator.intents
          /\ e.counts.substrate = 2 * e.counts.addressed + e.counts.rendered
          /\ e.counts.surprisability = e.counts.updated + 2 * e.counts.novel
          /\ e.meta.model.seen = e.meta.assessments
      BY ONLY <1>19, <1>23, <2>1, <3>1
    <3>3. QED
      BY ONLY <3>2 DEF CountersFit
  <2>3. PersistsFit(e)
    <3>1. /\ m.persistence.model.seen = m.persistence.persists + m.persistence.failedPersists
          /\ m.persistence.restores = m.persistence.persists /\ m.persistence.failedRestores = 0
      BY ONLY <1>21 DEF PersistsFit
    <3>2. /\ e.persistence.model.seen = e.persistence.persists + e.persistence.failedPersists
          /\ e.persistence.restores = e.persistence.persists /\ e.persistence.failedRestores = 0
      BY ONLY <1>19, <1>23, <2>1, <3>1
    <3>3. QED
      BY ONLY <3>2 DEF PersistsFit
  <2>4. EventsFit(e, on)
    <3>1. PICK z : z = IF on THEN 3 * m.boots ELSE 2 * m.boots
      OBVIOUS
    <3>2. z \in Nat
      BY <2>1, <3>1
    <3>3. PICK k \in Answered(m.operator.intents) :
            m.operator.model.seen = z + 2 * m.operator.intents + k + m.counts.updated
                                    + m.meta.assessments + m.persistence.model.seen
      BY ONLY <1>21, <3>1 DEF EventsFit
    <3>4. k \in Int
      BY ONLY <3>3, AnsweredLines
    <3>5. e.boots = m.boots /\ e.operator.intents = m.operator.intents
      BY ONLY <1>19, <1>23
    <3>6. e.operator.model.seen = z + 2 * e.operator.intents + k + e.counts.updated
                                  + e.meta.assessments + e.persistence.model.seen
      BY ONLY <1>19, <1>23, <2>1, <3>2, <3>3, <3>4
    <3>7. k \in Answered(e.operator.intents)
      BY ONLY <3>3, <3>5
    <3>8. QED
      BY ONLY <3>1, <3>5, <3>6, <3>7 DEF EventsFit
  <2>5. StepsFit(e, on)
    <3>1. on => m.devices # <<>> /\ m.devices[1].model.seen >= m.boots + m.counts.updated
      BY ONLY <1>21 DEF StepsFit
    <3>2. ASSUME on PROVE e.devices # <<>> /\ e.devices[1].model.seen >= e.boots + e.counts.updated
      <4>1. PICK x : x = m.devices[1].model.seen
        OBVIOUS
      <4>2. x \in Nat /\ x >= m.boots + m.counts.updated
        BY ONLY <1>18, <3>1, <3>2, <4>1 DEF Numbers
      <4>3. e.devices # <<>> /\ e.devices[1].model.seen = x + 1
        BY ONLY <1>22, <4>1
      <4>4. QED
        BY ONLY <1>19, <1>23, <2>1, <4>2, <4>3
    <3>3. QED
      BY ONLY <3>2 DEF StepsFit
  <2>6. QED
    BY ONLY <2>2, <2>3, <2>4, <2>5
<1>25. HistoryFits(e.history, e.total, e.learned)
  BY ONLY <1>14, <1>15, <1>16, <1>17
<1>26. Sound(e, on)
  BY ONLY <1>17, <1>20, <1>24, <1>25 DEF Sound, Accounts
<1>27. QED
  BY <1>9, <1>19, <1>26

-----------------------------------------------------------------------------
(***************************************************************************)
(* An assessment.                                                          *)
(***************************************************************************)
Assessed(m, clock) ==
  Heard([m EXCEPT !.lamport = clock, !.meta = Assess(@, m.history)], <<"meta">>)

LEMMA AssessmentKept ==
  ASSUME NEW on \in BOOLEAN, NEW m, Sound(m, on), NEW clock \in Nat, NEW u, u = Assessed(m, clock)
  PROVE  /\ Sound(u, on) /\ u.boots = m.boots /\ u.total = m.total
         /\ u.learned = m.learned /\ u.risk = m.risk
<1>1. PICK a : a = Assess(m.meta, m.history)
  OBVIOUS
<1>2. PICK b : b = [m EXCEPT !.lamport = clock, !.meta = a]
  OBVIOUS
<1>3. PICK events : events = <<"meta">>
  OBVIOUS
<1>4. PICK e : e = Heard(b, events)
  OBVIOUS
<1>5. u = e
  BY <1>1, <1>2, <1>3, <1>4, Zenon DEF Assessed
<1>6. Len(events) = 1
  BY <1>3
<1>7. m \in Models /\ Accounts(m, on)
  BY DEF Sound
<1>8. Whole(m) /\ m.meta \in MetaRegions
  BY <1>7, Typed
<1>9. a \in MetaRegions /\ a.model.seen = m.meta.model.seen + 1 /\ a.assessments = m.meta.assessments + 1
  BY ONLY <1>1, <1>8, MetaAssessed
<1>10. /\ Whole(b) /\ Rest(b, m) /\ b.agents = m.agents /\ b.lamport = clock /\ b.meta = a
       /\ b.devices = m.devices /\ b.persistence = m.persistence /\ b.operator = m.operator
       /\ b.graph = m.graph /\ b.history = m.history /\ b.boots = m.boots /\ b.total = m.total
       /\ b.learned = m.learned /\ b.risk = m.risk /\ b.counts = m.counts
  <2>1. Whole(m)
    BY <1>8
  <2>2. b = WithMeta(m, clock, a)
    BY <1>2 DEF WithMeta
  <2>3. QED
    BY ONLY <2>1, <2>2, MetaSet
<1>11. b \in Models
  BY <1>7, <1>9, <1>10, Typed DEF Rest
<1>12. /\ e \in Models /\ e.operator.model.seen = b.operator.model.seen + 1
       /\ e.operator.intents = b.operator.intents
       /\ e.devices = b.devices /\ e.persistence = b.persistence /\ e.meta = b.meta
       /\ e.graph = b.graph /\ e.history = b.history /\ e.lamport = b.lamport
       /\ e.boots = b.boots /\ e.total = b.total /\ e.learned = b.learned /\ e.risk = b.risk
       /\ e.counts = b.counts
  <2>1. b \in Models /\ Len(events) \in Nat
    BY <1>6, <1>11
  <2>2. /\ e \in Models /\ e.operator.model.seen = b.operator.model.seen + Len(events)
        /\ e.operator.intents = b.operator.intents
        /\ e.devices = b.devices /\ e.persistence = b.persistence /\ e.meta = b.meta
        /\ e.graph = b.graph /\ e.history = b.history /\ e.lamport = b.lamport
        /\ e.boots = b.boots /\ e.total = b.total /\ e.learned = b.learned /\ e.risk = b.risk
        /\ e.counts = b.counts
    BY ONLY <1>4, <2>1, EventsHeard
  <2>3. QED
    BY ONLY <1>6, <2>2
<1>13. Numbers(m)
  BY <1>7, NumbersTyped
<1>14. /\ e.persistence = m.persistence /\ e.boots = m.boots /\ e.graph = m.graph /\ e.history = m.history
       /\ e.total = m.total /\ e.learned = m.learned /\ e.risk = m.risk /\ e.counts = m.counts
       /\ e.meta.assessments = m.meta.assessments + 1 /\ e.meta.model.seen = m.meta.model.seen + 1
       /\ e.operator.model.seen = m.operator.model.seen + 1
       /\ e.operator.intents = m.operator.intents
  BY ONLY <1>9, <1>10, <1>12
<1>15. e.devices = m.devices
  BY ONLY <1>10, <1>12
<1>16. GraphFits(m) /\ HistoryFits(m.history, m.total, m.learned)
  BY <1>7 DEF Accounts
<1>17. GraphFits(e) /\ HistoryFits(e.history, e.total, e.learned)
  BY ONLY <1>14, <1>16 DEF GraphFits
<1>18. CountersFit(m) /\ PersistsFit(m) /\ EventsFit(m, on) /\ StepsFit(m, on)
  BY <1>7 DEF Accounts
<1>19. CountersFit(e) /\ PersistsFit(e) /\ EventsFit(e, on) /\ StepsFit(e, on)
  <2>1. /\ m.total \in Nat /\ m.boots \in Nat /\ m.operator.intents \in Nat /\ m.counts.updated \in Nat
        /\ m.counts.addressed \in Nat /\ m.counts.rendered \in Nat /\ m.counts.novel \in Nat
        /\ m.meta.assessments \in Nat
        /\ m.persistence.model.seen \in Nat /\ m.persistence.persists \in Nat
        /\ m.persistence.failedPersists \in Nat
    BY ONLY <1>13 DEF Numbers
  <2>2. CountersFit(e)
    <3>1. /\ m.total = m.operator.intents + m.counts.updated
          /\ m.counts.addressed = m.operator.intents
          /\ m.counts.substrate = 2 * m.counts.addressed + m.counts.rendered
          /\ m.counts.surprisability = m.counts.updated + 2 * m.counts.novel
          /\ m.meta.model.seen = m.meta.assessments
      BY ONLY <1>18 DEF CountersFit
    <3>2. /\ e.total = e.operator.intents + e.counts.updated
          /\ e.counts.addressed = e.operator.intents
          /\ e.counts.substrate = 2 * e.counts.addressed + e.counts.rendered
          /\ e.counts.surprisability = e.counts.updated + 2 * e.counts.novel
          /\ e.meta.model.seen = e.meta.assessments
      BY ONLY <1>14, <2>1, <3>1
    <3>3. QED
      BY ONLY <3>2 DEF CountersFit
  <2>3. PersistsFit(e)
    <3>1. /\ m.persistence.model.seen = m.persistence.persists + m.persistence.failedPersists
          /\ m.persistence.restores = m.persistence.persists /\ m.persistence.failedRestores = 0
      BY ONLY <1>18 DEF PersistsFit
    <3>2. /\ e.persistence.model.seen = e.persistence.persists + e.persistence.failedPersists
          /\ e.persistence.restores = e.persistence.persists /\ e.persistence.failedRestores = 0
      BY ONLY <1>14, <2>1, <3>1
    <3>3. QED
      BY ONLY <3>2 DEF PersistsFit
  <2>4. EventsFit(e, on)
    <3>1. PICK z : z = IF on THEN 3 * m.boots ELSE 2 * m.boots
      OBVIOUS
    <3>2. z \in Nat
      BY <2>1, <3>1
    <3>3. PICK k \in Answered(m.operator.intents) :
            m.operator.model.seen = z + 2 * m.operator.intents + k + m.counts.updated
                                    + m.meta.assessments + m.persistence.model.seen
      BY ONLY <1>18, <3>1 DEF EventsFit
    <3>4. k \in Int
      BY ONLY <3>3, AnsweredLines
    <3>5. e.boots = m.boots /\ e.operator.intents = m.operator.intents
      BY ONLY <1>14
    <3>6. e.operator.model.seen = z + 2 * e.operator.intents + k + e.counts.updated
                                  + e.meta.assessments + e.persistence.model.seen
      BY ONLY <1>14, <2>1, <3>2, <3>3, <3>4
    <3>7. k \in Answered(e.operator.intents)
      BY ONLY <3>3, <3>5
    <3>8. QED
      BY ONLY <3>1, <3>5, <3>6, <3>7 DEF EventsFit
  <2>5. StepsFit(e, on)
    <3>1. on => m.devices # <<>> /\ m.devices[1].model.seen >= m.boots + m.counts.updated
      BY ONLY <1>18 DEF StepsFit
    <3>2. ASSUME on PROVE e.devices # <<>> /\ e.devices[1].model.seen >= e.boots + e.counts.updated
      <4>1. PICK x : x = m.devices[1].model.seen
        OBVIOUS
      <4>2. x \in Nat /\ x >= m.boots + m.counts.updated
        BY ONLY <1>13, <3>1, <3>2, <4>1 DEF Numbers
      <4>3. e.devices # <<>> /\ e.devices[1].model.seen = x
        BY ONLY <1>15, <3>1, <3>2, <4>1
      <4>4. QED
        BY ONLY <1>14, <2>1, <4>2, <4>3
    <3>3. QED
      BY ONLY <3>2 DEF StepsFit
  <2>6. QED
    BY ONLY <2>2, <2>3, <2>4, <2>5
<1>20. Sound(e, on)
  BY ONLY <1>12, <1>17, <1>19 DEF Sound, Accounts
<1>21. QED
  BY <1>5, <1>14, <1>20

(***************************************************************************)
(* A persist, successful or not.                                           *)
(***************************************************************************)
Persisted(m, ok) ==
  Heard(IF ok THEN Saved(Observed(m, ok)) ELSE Observed(m, ok), <<IF ok THEN "persistOk" ELSE "failure">>)

LEMMA PersistKept ==
  ASSUME NEW on \in BOOLEAN, NEW m, Sound(m, on), NEW ok \in BOOLEAN, NEW u, u = Persisted(m, ok)
  PROVE  /\ Sound(u, on) /\ u.boots = m.boots /\ u.total = m.total
         /\ u.learned = m.learned /\ u.risk = IF ok THEN 0 ELSE m.risk
<1>1. PICK p : p = PersistNoted(m.persistence, ok)
  OBVIOUS
<1>2. PICK b : b = [m EXCEPT !.persistence = p]
  OBVIOUS
<1>3. PICK r : r = IF ok THEN 0 ELSE m.risk
  OBVIOUS
<1>4. PICK c : c = [b EXCEPT !.risk = r]
  OBVIOUS
<1>5. PICK events : events = <<IF ok THEN "persistOk" ELSE "failure">>
  OBVIOUS
<1>6. PICK e : e = Heard(c, events)
  OBVIOUS
<1>7. Len(events) = 1
  BY <1>5
<1>8. m \in Models /\ Accounts(m, on)
  BY DEF Sound
<1>9. Whole(m) /\ m.persistence \in Persistences /\ m.risk \in Nat
  BY <1>8, Typed
<1>10. /\ p \in Persistences /\ p.model.seen = m.persistence.model.seen + 1
       /\ p.persists = m.persistence.persists + (IF ok THEN 1 ELSE 0)
       /\ p.failedPersists = m.persistence.failedPersists + (IF ok THEN 0 ELSE 1)
       /\ p.restores = m.persistence.restores + (IF ok THEN 1 ELSE 0)
       /\ p.failedRestores = m.persistence.failedRestores
  <2>1. m.persistence \in Persistences /\ ok \in BOOLEAN
    BY <1>9
  <2>2. QED
    BY ONLY <1>1, <2>1, PersistIsNoted
<1>11. /\ Whole(b) /\ Rest(b, m) /\ b.agents = m.agents /\ b.persistence = p
       /\ b.devices = m.devices /\ b.operator = m.operator /\ b.meta = m.meta
       /\ b.graph = m.graph /\ b.history = m.history /\ b.lamport = m.lamport
       /\ b.boots = m.boots /\ b.total = m.total /\ b.learned = m.learned /\ b.risk = m.risk
       /\ b.counts = m.counts
  BY ONLY <1>2, <1>9, PersistenceSet
<1>12. b \in Models
  BY <1>8, <1>10, <1>11, Typed DEF Rest
<1>13. /\ Whole(c) /\ Rest(c, b) /\ c.agents = b.agents /\ c.risk = r
       /\ c.devices = b.devices /\ c.persistence = b.persistence /\ c.operator = b.operator
       /\ c.meta = b.meta /\ c.graph = b.graph /\ c.history = b.history
       /\ c.lamport = b.lamport /\ c.boots = b.boots /\ c.total = b.total
       /\ c.learned = b.learned /\ c.counts = b.counts
  <2>1. Whole(b)
    BY <1>11
  <2>2. QED
    BY ONLY <1>4, <2>1, RiskSet
<1>14. c \in Models
  <2>1. r \in Nat
    BY <1>3, <1>9
  <2>2. QED
    BY <1>12, <1>13, <2>1, Typed DEF Rest
<1>15. /\ e \in Models /\ e.operator.model.seen = c.operator.model.seen + 1
       /\ e.operator.intents = c.operator.intents
       /\ e.devices = c.devices /\ e.persistence = c.persistence /\ e.meta = c.meta
       /\ e.graph = c.graph /\ e.history = c.history /\ e.lamport = c.lamport
       /\ e.boots = c.boots /\ e.total = c.total /\ e.learned = c.learned /\ e.risk = c.risk
       /\ e.counts = c.counts
  <2>1. c \in Models /\ Len(events) \in Nat
    BY <1>7, <1>14
  <2>2. /\ e \in Models /\ e.operator.model.seen = c.operator.model.seen + Len(events)
        /\ e.operator.intents = c.operator.intents
        /\ e.devices = c.devices /\ e.persistence = c.persistence /\ e.meta = c.meta
        /\ e.graph = c.graph /\ e.history = c.history /\ e.lamport = c.lamport
        /\ e.boots = c.boots /\ e.total = c.total /\ e.learned = c.learned /\ e.risk = c.risk
        /\ e.counts = c.counts
    BY ONLY <1>6, <2>1, EventsHeard
  <2>3. QED
    BY ONLY <1>7, <2>2
<1>16. u = e
  <2>1. Observed(m, ok) = b
    BY <1>1, <1>2, Zenon DEF Observed, PersistNoted
  <2>2. CASE ok
    <3>1. Saved(b) = c
      BY <1>3, <1>4, <2>2 DEF Saved
    <3>2. QED
      BY <1>5, <1>6, <2>1, <2>2, <3>1, Zenon DEF Persisted
  <2>3. CASE ~ ok
    <3>1. r = b.risk
      BY <1>3, <1>11, <2>3
    <3>2. c = b
      <4>1. Whole(b)
        BY <1>11
      <4>2. QED
        BY ONLY <1>4, <3>1, <4>1 DEF Whole
    <3>3. QED
      BY <1>5, <1>6, <2>1, <2>3, <3>2, Zenon DEF Persisted
  <2>4. QED
    BY <2>2, <2>3
<1>17. Numbers(m)
  BY <1>8, NumbersTyped
<1>18. PICK k \in {0, 1}, f \in {0, 1} :
         k + f = 1 /\ k = (IF ok THEN 1 ELSE 0) /\ f = (IF ok THEN 0 ELSE 1)
  <2>1. CASE ok
    <3>1. 1 + 0 = 1 /\ 1 = (IF ok THEN 1 ELSE 0) /\ 0 = (IF ok THEN 0 ELSE 1)
      BY <2>1
    <3>2. QED
      BY <3>1
  <2>2. CASE ~ ok
    <3>1. 0 + 1 = 1 /\ 0 = (IF ok THEN 1 ELSE 0) /\ 1 = (IF ok THEN 0 ELSE 1)
      BY <2>2
    <3>2. QED
      BY <3>1
  <2>3. QED
    BY <2>1, <2>2
<1>19. /\ e.meta = m.meta /\ e.boots = m.boots /\ e.graph = m.graph /\ e.history = m.history
       /\ e.total = m.total /\ e.learned = m.learned /\ e.risk = r /\ e.counts = m.counts
       /\ e.persistence.model.seen = m.persistence.model.seen + 1
       /\ e.persistence.persists = m.persistence.persists + k
       /\ e.persistence.failedPersists = m.persistence.failedPersists + f
       /\ e.persistence.restores = m.persistence.restores + k
       /\ e.persistence.failedRestores = m.persistence.failedRestores
       /\ e.operator.model.seen = m.operator.model.seen + 1
       /\ e.operator.intents = m.operator.intents
  BY ONLY <1>10, <1>11, <1>13, <1>15, <1>18
<1>20. e.devices = m.devices
  BY ONLY <1>11, <1>13, <1>15
<1>21. GraphFits(m) /\ HistoryFits(m.history, m.total, m.learned)
  BY <1>8 DEF Accounts
<1>22. GraphFits(e) /\ HistoryFits(e.history, e.total, e.learned)
  BY ONLY <1>19, <1>21 DEF GraphFits
<1>23. CountersFit(m) /\ PersistsFit(m) /\ EventsFit(m, on) /\ StepsFit(m, on)
  BY <1>8 DEF Accounts
<1>24. k \in Nat /\ f \in Nat /\ k + f = 1
  BY <1>18
<1>25. CountersFit(e) /\ PersistsFit(e) /\ EventsFit(e, on) /\ StepsFit(e, on)
  <2>1. /\ m.total \in Nat /\ m.boots \in Nat /\ m.operator.intents \in Nat /\ m.counts.updated \in Nat
        /\ m.counts.addressed \in Nat /\ m.counts.rendered \in Nat /\ m.counts.novel \in Nat
        /\ m.meta.assessments \in Nat
        /\ m.persistence.model.seen \in Nat /\ m.persistence.persists \in Nat
        /\ m.persistence.failedPersists \in Nat
    BY ONLY <1>17 DEF Numbers
  <2>2. CountersFit(e)
    <3>1. /\ m.total = m.operator.intents + m.counts.updated
          /\ m.counts.addressed = m.operator.intents
          /\ m.counts.substrate = 2 * m.counts.addressed + m.counts.rendered
          /\ m.counts.surprisability = m.counts.updated + 2 * m.counts.novel
          /\ m.meta.model.seen = m.meta.assessments
      BY ONLY <1>23 DEF CountersFit
    <3>2. /\ e.total = e.operator.intents + e.counts.updated
          /\ e.counts.addressed = e.operator.intents
          /\ e.counts.substrate = 2 * e.counts.addressed + e.counts.rendered
          /\ e.counts.surprisability = e.counts.updated + 2 * e.counts.novel
          /\ e.meta.model.seen = e.meta.assessments
      BY ONLY <1>19, <1>24, <2>1, <3>1
    <3>3. QED
      BY ONLY <3>2 DEF CountersFit
  <2>3. PersistsFit(e)
    <3>1. /\ m.persistence.model.seen = m.persistence.persists + m.persistence.failedPersists
          /\ m.persistence.restores = m.persistence.persists /\ m.persistence.failedRestores = 0
      BY ONLY <1>23 DEF PersistsFit
    <3>2. /\ e.persistence.model.seen = e.persistence.persists + e.persistence.failedPersists
          /\ e.persistence.restores = e.persistence.persists /\ e.persistence.failedRestores = 0
      BY ONLY <1>19, <1>24, <2>1, <3>1
    <3>3. QED
      BY ONLY <3>2 DEF PersistsFit
  <2>4. EventsFit(e, on)
    <3>1. PICK z : z = IF on THEN 3 * m.boots ELSE 2 * m.boots
      OBVIOUS
    <3>2. z \in Nat
      BY <2>1, <3>1
    <3>3. PICK lines \in Answered(m.operator.intents) :
            m.operator.model.seen = z + 2 * m.operator.intents + lines + m.counts.updated
                                    + m.meta.assessments + m.persistence.model.seen
      BY ONLY <1>23, <3>1 DEF EventsFit
    <3>4. lines \in Int
      BY ONLY <3>3, AnsweredLines
    <3>5. e.boots = m.boots /\ e.operator.intents = m.operator.intents
      BY ONLY <1>19, <1>24
    <3>6. e.operator.model.seen = z + 2 * e.operator.intents + lines + e.counts.updated
                                  + e.meta.assessments + e.persistence.model.seen
      BY ONLY <1>19, <1>24, <2>1, <3>2, <3>3, <3>4
    <3>7. lines \in Answered(e.operator.intents)
      BY ONLY <3>3, <3>5
    <3>8. QED
      BY ONLY <3>1, <3>5, <3>6, <3>7 DEF EventsFit
  <2>5. StepsFit(e, on)
    <3>1. on => m.devices # <<>> /\ m.devices[1].model.seen >= m.boots + m.counts.updated
      BY ONLY <1>23 DEF StepsFit
    <3>2. ASSUME on PROVE e.devices # <<>> /\ e.devices[1].model.seen >= e.boots + e.counts.updated
      <4>1. PICK x : x = m.devices[1].model.seen
        OBVIOUS
      <4>2. x \in Nat /\ x >= m.boots + m.counts.updated
        BY ONLY <1>17, <3>1, <3>2, <4>1 DEF Numbers
      <4>3. e.devices # <<>> /\ e.devices[1].model.seen = x
        BY ONLY <1>20, <3>1, <3>2, <4>1
      <4>4. QED
        BY ONLY <1>19, <1>24, <2>1, <4>2, <4>3
    <3>3. QED
      BY ONLY <3>2 DEF StepsFit
  <2>6. QED
    BY ONLY <2>2, <2>3, <2>4, <2>5
<1>26. Sound(e, on)
  BY ONLY <1>15, <1>22, <1>25 DEF Sound, Accounts
<1>27. QED
  BY <1>3, <1>16, <1>19, <1>26

(***************************************************************************)
(* A park, which credits the registry's agent.                             *)
(***************************************************************************)
LEMMA ParkKept ==
  ASSUME NEW on \in BOOLEAN, NEW m, Sound(m, on), NEW clock \in Nat, NEW u,
         u = [m EXCEPT !.agents.agents[1].lastTick = clock]
  PROVE  /\ Sound(u, on) /\ u.boots = m.boots /\ u.total = m.total
         /\ u.learned = m.learned /\ u.risk = m.risk
<1>1. m \in Models /\ Accounts(m, on)
  BY DEF Sound
<1>2. Whole(m) /\ m.agents \in Registries
  BY <1>1, Typed
<1>3. PICK g : g = m.agents
  OBVIOUS
<1>4. PICK a : a = [g EXCEPT !.agents[1].lastTick = clock]
  OBVIOUS
<1>5. u = [m EXCEPT !.agents = a]
  BY <1>3, <1>4
<1>6. a \in Registries
  BY <1>2, <1>3, <1>4, AgentsParked
<1>7. /\ Whole(u) /\ Rest(u, m) /\ u.agents = a
      /\ u.devices = m.devices /\ u.persistence = m.persistence /\ u.operator = m.operator
      /\ u.meta = m.meta /\ u.graph = m.graph /\ u.history = m.history
      /\ u.lamport = m.lamport /\ u.boots = m.boots /\ u.total = m.total
      /\ u.learned = m.learned /\ u.risk = m.risk /\ u.counts = m.counts
  <2>1. Whole(m)
    BY <1>2
  <2>2. QED
    BY ONLY <1>5, <2>1, AgentsSet
<1>8. u \in Models
  BY <1>1, <1>6, <1>7, Typed DEF Rest
<1>9. Accounts(u, on)
  BY ONLY <1>1, <1>7 DEF Accounts, GraphFits, CountersFit, PersistsFit, EventsFit, StepsFit
<1>10. QED
  BY <1>7, <1>8, <1>9 DEF Sound

(***************************************************************************)
(* A render, which the substrate channel accounts for.                     *)
(***************************************************************************)
LEMMA RenderKept ==
  ASSUME NEW on \in BOOLEAN, NEW m, Sound(m, on), NEW u, u = AccountSubstrate(m, "rendered")
  PROVE  /\ Sound(u, on) /\ u.boots = m.boots /\ u.total = m.total
         /\ u.learned = m.learned /\ u.risk = m.risk
<1>1. m \in Models /\ Accounts(m, on)
  BY DEF Sound
<1>2. /\ u \in Models
      /\ u.counts.substrate = m.counts.substrate + 1 /\ u.counts.surprisability = m.counts.surprisability
      /\ u.counts.addressed = m.counts.addressed /\ u.counts.updated = m.counts.updated
      /\ u.counts.novel = m.counts.novel /\ u.counts.rendered = m.counts.rendered + 1
      /\ u.devices = m.devices /\ u.persistence = m.persistence /\ u.operator = m.operator
      /\ u.meta = m.meta /\ u.graph = m.graph /\ u.history = m.history
      /\ u.boots = m.boots /\ u.total = m.total /\ u.learned = m.learned /\ u.risk = m.risk
  BY <1>1, RenderAccounted
<1>3. m.counts.addressed \in Nat /\ m.counts.rendered \in Nat
  BY <1>1, NumbersTyped DEF Numbers
<1>4. CountersFit(m)
  BY <1>1 DEF Accounts
<1>5. u.counts.substrate = 2 * u.counts.addressed + u.counts.rendered
  <2>1. m.counts.substrate = 2 * m.counts.addressed + m.counts.rendered
    BY <1>4 DEF CountersFit
  <2>2. QED
    BY ONLY <1>2, <1>3, <2>1
<1>6. CountersFit(u)
  BY ONLY <1>2, <1>4, <1>5 DEF CountersFit
<1>7. Accounts(u, on)
  BY ONLY <1>1, <1>2, <1>6 DEF Accounts, GraphFits, PersistsFit, EventsFit, StepsFit
<1>8. QED
  BY <1>2, <1>7 DEF Sound

-----------------------------------------------------------------------------
(***************************************************************************)
(* Nucleation: a boot is noted, the device is probed, the log is heard.    *)
(***************************************************************************)
Booted(m, on, events) ==
  Heard(IF on THEN [NoteBoot(m) EXCEPT !.devices[1] = Step(@)] ELSE NoteBoot(m), events)

LEMMA BootKept ==
  ASSUME NEW on \in BOOLEAN, NEW m, Sound(m, on), NEW events, Len(events) = (IF on THEN 3 ELSE 2),
         NEW u, u = Booted(m, on, events)
  PROVE  /\ Sound(u, on) /\ u.boots = m.boots + 1 /\ u.total = m.total
         /\ u.learned = m.learned /\ u.risk = m.risk
<1>1. PICK b : b = NoteBoot(m)
  OBVIOUS
<1>2. PICK c : c = IF on THEN [b EXCEPT !.devices[1] = Step(@)] ELSE b
  OBVIOUS
<1>3. PICK e : e = Heard(c, events)
  OBVIOUS
<1>4. u = e
  BY <1>1, <1>2, <1>3, Zenon DEF Booted
<1>5. m \in Models /\ Accounts(m, on)
  BY DEF Sound
<1>6. /\ b \in Models /\ b.boots = m.boots + 1
      /\ b.devices = m.devices /\ b.persistence = m.persistence /\ b.operator = m.operator
      /\ b.meta = m.meta /\ b.graph = m.graph /\ b.history = m.history
      /\ b.lamport = m.lamport /\ b.total = m.total /\ b.learned = m.learned
      /\ b.risk = m.risk /\ b.counts = m.counts
  BY ONLY <1>1, <1>5, BootNoted
<1>7. CountersFit(m) /\ PersistsFit(m) /\ EventsFit(m, on) /\ StepsFit(m, on)
  BY <1>5 DEF Accounts
<1>8. /\ c \in Models /\ (on => c.devices # <<>> /\ c.devices[1].model.seen = b.devices[1].model.seen + 1)
      /\ c.persistence = b.persistence /\ c.operator = b.operator /\ c.meta = b.meta
      /\ c.graph = b.graph /\ c.history = b.history /\ c.lamport = b.lamport
      /\ c.boots = b.boots /\ c.total = b.total /\ c.learned = b.learned /\ c.risk = b.risk
      /\ c.counts = b.counts
  <2>1. CASE on
    <3>1. PICK ds : ds = b.devices
      OBVIOUS
    <3>2. PICK d : d = [ds EXCEPT ![1] = Step(@)]
      OBVIOUS
    <3>3. Whole(b) /\ ds \in DeviceLists /\ ds # <<>>
      <4>1. m.devices # <<>> /\ b.devices = m.devices
        BY <1>6, <1>7, <2>1 DEF StepsFit
      <4>2. QED
        BY <1>6, <3>1, <4>1, Typed
    <3>4. d \in DeviceLists /\ d # <<>> /\ d[1].model.seen = ds[1].model.seen + 1
      BY ONLY <3>2, <3>3, DeviceStepped
    <3>5. c = [b EXCEPT !.devices = d]
      <4>1. PICK a : a = Step(ds[1])
        OBVIOUS
      <4>2. c = [b EXCEPT !.devices[1] = a]
        BY <1>2, <2>1, <3>1, <4>1
      <4>3. d = [b.devices EXCEPT ![1] = a]
        BY <3>1, <3>2, <4>1
      <4>4. QED
        BY <4>2, <4>3
    <3>6. /\ Whole(c) /\ Rest(c, b) /\ c.agents = b.agents /\ c.devices = d
          /\ c.persistence = b.persistence /\ c.operator = b.operator /\ c.meta = b.meta
          /\ c.graph = b.graph /\ c.history = b.history /\ c.lamport = b.lamport
          /\ c.boots = b.boots /\ c.total = b.total /\ c.learned = b.learned /\ c.risk = b.risk
          /\ c.counts = b.counts
      <4>1. Whole(b)
        BY <3>3
      <4>2. QED
        BY ONLY <3>5, <4>1, DevicesSet
    <3>7. c \in Models
      BY <1>6, <3>4, <3>6, Typed DEF Rest
    <3>8. QED
      BY <3>1, <3>4, <3>6, <3>7
  <2>2. CASE ~ on
    <3>1. c = b
      BY <1>2, <2>2
    <3>2. QED
      BY <1>6, <2>2, <3>1
  <2>3. QED
    BY <2>1, <2>2
<1>9. PICK n : n = Len(events)
  OBVIOUS
<1>10. n \in Nat /\ n = (IF on THEN 3 ELSE 2)
  BY <1>9
<1>11. /\ e \in Models /\ e.operator.model.seen = c.operator.model.seen + n
       /\ e.operator.intents = c.operator.intents
       /\ e.devices = c.devices /\ e.persistence = c.persistence /\ e.meta = c.meta
       /\ e.graph = c.graph /\ e.history = c.history /\ e.lamport = c.lamport
       /\ e.boots = c.boots /\ e.total = c.total /\ e.learned = c.learned /\ e.risk = c.risk
       /\ e.counts = c.counts
  <2>1. c \in Models /\ Len(events) \in Nat
    BY <1>8, <1>9, <1>10
  <2>2. /\ e \in Models /\ e.operator.model.seen = c.operator.model.seen + Len(events)
        /\ e.operator.intents = c.operator.intents
        /\ e.devices = c.devices /\ e.persistence = c.persistence /\ e.meta = c.meta
        /\ e.graph = c.graph /\ e.history = c.history /\ e.lamport = c.lamport
        /\ e.boots = c.boots /\ e.total = c.total /\ e.learned = c.learned /\ e.risk = c.risk
        /\ e.counts = c.counts
    BY ONLY <1>3, <2>1, EventsHeard
  <2>3. QED
    BY ONLY <1>9, <2>2
<1>12. Numbers(m)
  BY <1>5, NumbersTyped
<1>13. /\ e.persistence = m.persistence /\ e.graph = m.graph /\ e.history = m.history
       /\ e.total = m.total /\ e.learned = m.learned /\ e.risk = m.risk /\ e.counts = m.counts
       /\ e.meta = m.meta /\ e.boots = m.boots + 1
       /\ e.operator.model.seen = m.operator.model.seen + n
       /\ e.operator.intents = m.operator.intents
  BY ONLY <1>6, <1>8, <1>11
<1>14. GraphFits(m) /\ HistoryFits(m.history, m.total, m.learned)
  BY <1>5 DEF Accounts
<1>15. GraphFits(e) /\ HistoryFits(e.history, e.total, e.learned)
  BY ONLY <1>13, <1>14 DEF GraphFits
<1>16. CountersFit(e) /\ PersistsFit(e)
  BY ONLY <1>7, <1>13 DEF CountersFit, PersistsFit
<1>17. EventsFit(e, on)
  <2>1. PICK z, w : z = (IF on THEN 3 * m.boots ELSE 2 * m.boots) /\ w = (IF on THEN 3 * e.boots ELSE 2 * e.boots)
    OBVIOUS
  <2>2. m.boots \in Nat
    BY ONLY <1>12 DEF Numbers
  <2>3. z \in Nat /\ w = z + n
    <3>1. CASE on
      <4>1. z = 3 * m.boots /\ w = 3 * e.boots /\ n = 3 /\ e.boots = m.boots + 1
        BY <1>10, <1>13, <2>1, <3>1
      <4>2. QED
        BY ONLY <2>2, <4>1
    <3>2. CASE ~ on
      <4>1. z = 2 * m.boots /\ w = 2 * e.boots /\ n = 2 /\ e.boots = m.boots + 1
        BY <1>10, <1>13, <2>1, <3>2
      <4>2. QED
        BY ONLY <2>2, <4>1
    <3>3. QED
      BY <3>1, <3>2
  <2>4. /\ m.operator.intents \in Nat /\ m.counts.updated \in Nat /\ m.meta.assessments \in Nat
        /\ m.persistence.model.seen \in Nat
    BY ONLY <1>12 DEF Numbers
  <2>5. PICK k \in Answered(m.operator.intents) :
          m.operator.model.seen = z + 2 * m.operator.intents + k + m.counts.updated
                                  + m.meta.assessments + m.persistence.model.seen
    BY ONLY <1>7, <2>1 DEF EventsFit
  <2>6. k \in Int /\ k \in Answered(e.operator.intents)
    BY ONLY <1>13, <2>5, AnsweredLines
  <2>7. e.operator.model.seen = w + 2 * e.operator.intents + k + e.counts.updated
                                + e.meta.assessments + e.persistence.model.seen
    BY ONLY <1>10, <1>13, <2>3, <2>4, <2>5, <2>6
  <2>8. QED
    BY ONLY <2>1, <2>6, <2>7 DEF EventsFit
<1>18. StepsFit(e, on)
  <2>1. SUFFICES ASSUME on
                 PROVE  e.devices # <<>> /\ e.devices[1].model.seen >= e.boots + e.counts.updated
    BY DEF StepsFit
  <2>2. m.devices # <<>> /\ m.devices[1].model.seen >= m.boots + m.counts.updated
    BY ONLY <1>7, <2>1 DEF StepsFit
  <2>3. PICK x : x = m.devices[1].model.seen
    OBVIOUS
  <2>4. x \in Nat /\ x >= m.boots + m.counts.updated /\ m.boots \in Nat /\ m.counts.updated \in Nat
    BY ONLY <1>12, <2>2, <2>3 DEF Numbers
  <2>5. e.devices # <<>> /\ e.devices[1].model.seen = x + 1
    BY ONLY <1>6, <1>8, <1>11, <2>1, <2>3
  <2>6. e.boots = m.boots + 1 /\ e.counts.updated = m.counts.updated
    BY <1>13
  <2>7. QED
    BY ONLY <2>4, <2>5, <2>6
<1>19. Sound(e, on)
  BY ONLY <1>11, <1>15, <1>16, <1>17, <1>18 DEF Sound, Accounts
<1>20. QED
  BY <1>4, <1>13, <1>19

LEMMA NothingSeen == Total(Seen(<<>>)) = 0
<1>1. PICK X : X = CausalEdges
  OBVIOUS
<1>2. Counting(X)
  BY <1>1, CountingLists
<1>3. PICK none \in Seq(X) : none = <<>>
  <2>1. <<>> \in Seq(X)
    OBVIOUS
  <2>2. QED
    BY <2>1
<1>4. PICK s : s = Seen(none)
  OBVIOUS
<1>5. s \in Seq(Nat) /\ DOMAIN s = DOMAIN none
  BY <1>2, <1>4, SeenTyped
<1>6. s = <<>>
  BY <1>3, <1>5
<1>7. QED
  BY <1>3, <1>4, <1>6, TotalNone

LEMMA NucleationSound ==
  ASSUME ModelParameters, NEW on \in BOOLEAN, NEW ds \in DeviceLists, on => ds # <<>>, NEW u,
         u = [Nucleation EXCEPT !.devices = ds]
  PROVE  Sound(u, on) /\ u.total = 0 /\ u.boots = 0 /\ u.learned = 0 /\ u.risk = 0
<1>1. PICK m : m = Nucleation
  OBVIOUS
<1>2. Whole(m)
  BY <1>1 DEF Nucleation, Whole
<1>3. /\ m.persistence = Persistence /\ m.operator = Operator /\ m.meta = MetaRegion /\ m.graph = CausalGraph
      /\ m.hypotheses = 0 /\ m.preferences = Preferences /\ m.history = History /\ m.lamport = 0
      /\ m.boots = 0 /\ m.total = 0 /\ m.learned = 0 /\ m.risk = 0 /\ m.counts = Counts
      /\ m.agents = Registry
  BY <1>1 DEF Nucleation
<1>4. u = [m EXCEPT !.devices = ds]
  BY <1>1
<1>5. /\ Whole(u) /\ Rest(u, m) /\ u.agents = m.agents /\ u.devices = ds
      /\ u.persistence = m.persistence /\ u.operator = m.operator /\ u.meta = m.meta
      /\ u.graph = m.graph /\ u.history = m.history /\ u.lamport = m.lamport
      /\ u.boots = m.boots /\ u.total = m.total /\ u.learned = m.learned /\ u.risk = m.risk
      /\ u.counts = m.counts
  BY ONLY <1>2, <1>4, DevicesSet
<1>6. Threshold \in Nat /\ FeWindow \in Nat /\ FeWindow > 0
  BY DEF ModelParameters
<1>7. /\ Persistence \in Persistences /\ Persistence.model.seen = 0 /\ Persistence.persists = 0
      /\ Persistence.failedPersists = 0 /\ Persistence.restores = 0 /\ Persistence.failedRestores = 0
  BY DEF Persistence, Persistences, Discrete, Discretes
<1>8. Operator \in OperatorRegions /\ Operator.model.seen = 0 /\ Operator.intents = 0
  BY DEF Operator, OperatorRegions, Discrete, Discretes
<1>9. MetaRegion \in MetaRegions /\ MetaRegion.model.seen = 0 /\ MetaRegion.assessments = 0
  BY DEF MetaRegion, MetaRegions, MetaStates, Discrete, Discretes
<1>10. GraphSound(CausalGraph) /\ CausalGraph.nodes = <<>> /\ CausalGraph.edges = <<>>
  BY DEF CausalGraph, GraphSound, CausalGraphs
<1>11. History \in Histories /\ HistoryFits(History, 0, 0)
  <2>1. History = [fe |-> <<>>, surprises |-> <<>>] /\ History.fe = <<>>
    BY DEF History
  <2>2. History \in Histories
    BY <2>1 DEF Histories
  <2>3. Total(History.fe) = 0 /\ Len(History.fe) = 0
    BY <2>1, TotalNone
  <2>4. QED
    BY <1>6, <2>2, <2>3 DEF HistoryFits
<1>12. /\ Counts \in CountsTyped /\ Counts.substrate = 0 /\ Counts.surprisability = 0 /\ Counts.addressed = 0
       /\ Counts.updated = 0 /\ Counts.novel = 0 /\ Counts.rendered = 0
  BY DEF Counts, CountsTyped
<1>13. Registry \in Registries
  <2>1. Agent \in LoopAgents
    BY DEF Agent, LoopAgents
  <2>2. QED
    BY <2>1 DEF Registry, Registries
<1>14. u \in Models
  <2>1. CausalGraph \in CausalGraphs
    BY <1>10 DEF GraphSound
  <2>2. QED
    <3>1. /\ u.devices \in DeviceLists /\ u.persistence \in Persistences /\ u.operator \in OperatorRegions
          /\ u.meta \in MetaRegions /\ u.graph \in CausalGraphs /\ u.history \in Histories
          /\ u.counts \in CountsTyped /\ u.agents \in Registries
      BY ONLY <1>3, <1>5, <1>7, <1>8, <1>9, <1>11, <1>12, <1>13, <2>1, ds \in DeviceLists
    <3>2. /\ u.hypotheses = 0 /\ u.preferences = Preferences /\ u.lamport = 0 /\ u.boots = 0 /\ u.total = 0
          /\ u.learned = 0 /\ u.risk = 0
      BY ONLY <1>3, <1>5 DEF Rest
    <3>3. Whole(u)
      BY <1>5
    <3>4. /\ u.lamport \in Nat /\ u.boots \in Nat /\ u.total \in Nat /\ u.learned \in Nat /\ u.risk \in Nat
      BY ONLY <3>2
    <3>5. QED
      BY ONLY <3>1, <3>2, <3>3, <3>4, Typed
<1>15. u.total = 0 /\ u.boots = 0 /\ u.learned = 0 /\ u.risk = 0
  BY ONLY <1>3, <1>5
<1>16. GraphFits(u)
  <2>1. u.graph.nodes = <<>> /\ u.graph.edges = <<>> /\ GraphSound(u.graph)
    BY ONLY <1>3, <1>5, <1>10
  <2>2. Total(Seen(u.graph.nodes)) = 0 /\ Total(Seen(u.graph.edges)) = 0
    BY <2>1, NothingSeen
  <2>3. QED
    BY <1>15, <2>1, <2>2 DEF GraphFits
<1>17. CountersFit(u)
  BY ONLY <1>3, <1>5, <1>8, <1>9, <1>12 DEF CountersFit
<1>18. PersistsFit(u)
  BY ONLY <1>3, <1>5, <1>7 DEF PersistsFit
<1>19. EventsFit(u, on)
  <2>1. (IF on THEN 3 * u.boots ELSE 2 * u.boots) = 0
    BY <1>15
  <2>2. /\ u.operator.model.seen = 0 /\ u.operator.intents = 0 /\ u.counts.updated = 0
        /\ u.meta.assessments = 0 /\ u.persistence.model.seen = 0
    BY ONLY <1>3, <1>5, <1>7, <1>8, <1>9, <1>12
  <2>3. 0 \in Answered(u.operator.intents)
    BY ONLY <2>2, AnsweredNone
  <2>4. u.operator.model.seen =
          (IF on THEN 3 * u.boots ELSE 2 * u.boots) + 2 * u.operator.intents + 0 + u.counts.updated
          + u.meta.assessments + u.persistence.model.seen
    BY ONLY <2>1, <2>2
  <2>5. QED
    BY ONLY <2>3, <2>4 DEF EventsFit
<1>20. StepsFit(u, on)
  <2>1. Numbers(u)
    BY <1>14, NumbersTyped
  <2>2. SUFFICES ASSUME on PROVE u.devices # <<>> /\ u.devices[1].model.seen >= u.boots + u.counts.updated
    BY DEF StepsFit
  <2>3. u.devices # <<>>
    BY <1>5, <2>2
  <2>4. u.devices[1].model.seen \in Nat
    BY ONLY <2>1, <2>3 DEF Numbers
  <2>5. u.boots = 0 /\ u.counts.updated = 0
    BY ONLY <1>3, <1>5, <1>12
  <2>6. QED
    BY ONLY <2>3, <2>4, <2>5
<1>21. HistoryFits(u.history, u.total, u.learned)
  BY ONLY <1>3, <1>5, <1>11
<1>22. QED
  BY ONLY <1>14, <1>15, <1>16, <1>17, <1>18, <1>19, <1>20, <1>21 DEF Sound, Accounts

-----------------------------------------------------------------------------
(***************************************************************************)
(* What the fabric keeps of the model.                                     *)
(***************************************************************************)
AtMost(h, k) == h.total <= k.total /\ h.boots <= k.boots /\ h.learned <= k.learned

Readable(c) == Header(c.blob) # Unreadable

\* The blob of a model carrier: an older format's, or a persist's.
Carried(blob, on) ==
  \/ blob = <<Magic, Version - 1>>
  \/ \E m : Sound(m, on) /\ m.risk > Threshold /\ blob = Encode(m)

DriverBlob(blob) == \E dims \in Dims : \E d \in Discretes(dims) : blob = EncodeDiscrete(d)

CarrierSound(c, on) ==
  /\ c.kind \in {"model", "storage"}
  /\ c.kind = "model" => Carried(c.blob, on)
  /\ c.kind = "storage" => DriverBlob(c.blob)

\* A newer carrier of a model knows what an older one knew.
Ordered(f) ==
  \A c, d \in OfKind(f, "model") :
    c.at <= d.at /\ Readable(c) => Readable(d) /\ AtMost(Header(c.blob), Header(d.blob))

Placed(f) == \A c \in f.carriers : c.at \in Nat /\ c.at <= f.lamport

CarriersSound(f, on) ==
  /\ f = [lamport |-> f.lamport, carriers |-> f.carriers]
  /\ f.lamport \in Nat /\ Placed(f) /\ Ordered(f)
  /\ \A c \in f.carriers : CarrierSound(c, on)

\* No carrier of the fabric knows more than the model.
Covers(m, f) == \A c \in OfKind(f, "model") : Readable(c) => AtMost(Header(c.blob), m)

LEMMA HeaderRead ==
  ASSUME ModelParameters, NEW on, NEW m, Sound(m, on), NEW b, b = Encode(m)
  PROVE  /\ Header(b) # Unreadable /\ Decode(b) = m /\ m # Unreadable
         /\ Header(b).total = m.total /\ Header(b).boots = m.boots /\ Header(b).learned = m.learned
         /\ m.total \in Nat /\ m.boots \in Nat /\ m.learned \in Nat
<1>1. m \in Models
  BY DEF Sound
<1>2. Header(b) = HeaderOf(m) /\ Decode(b) = m
  BY <1>1, DecodeInvertsEncode
<1>3. HeaderOf(m) # Unreadable
  <2>1. "lamport" \in DOMAIN HeaderOf(m) /\ "lamport" \notin DOMAIN Unreadable
    BY DEF HeaderOf, Unreadable
  <2>2. QED
    BY <2>1
<1>4. m # Unreadable
  <2>1. "lamport" \in DOMAIN m
    BY <1>1, Typed DEF Whole
  <2>2. "lamport" \notin DOMAIN Unreadable
    BY DEF Unreadable
  <2>3. QED
    BY <2>1, <2>2
<1>5. HeaderOf(m).total = m.total /\ HeaderOf(m).boots = m.boots /\ HeaderOf(m).learned = m.learned
  BY DEF HeaderOf
<1>6. m.total \in Nat /\ m.boots \in Nat /\ m.learned \in Nat
  BY <1>1, Typed
<1>7. QED
  BY ONLY <1>2, <1>3, <1>4, <1>5, <1>6

LEMMA OldIsUnreadable ==
  ASSUME NEW b, b = <<Magic, Version - 1>>
  PROVE  Header(b) = Unreadable /\ Decode(b) = Unreadable
<1>1. Len(b) = 2
  OBVIOUS
<1>2. PICK r : r = Reading(b)
  OBVIOUS
<1>3. r.ok /\ r.rest = b
  BY <1>2 DEF Reading
<1>4. ~ (7 <= Len(r.rest))
  BY <1>1, <1>3
<1>5. Fields(r, 7) = Failing
  BY <1>4 DEF Fields
<1>6. ~ Failing.ok
  BY DEF Failing
<1>7. Header(b) = Unreadable
  BY <1>2, <1>5, <1>6 DEF Header
<1>8. QED
  BY <1>7 DEF Decode

\* What a readable carrier holds.
LEMMA CarrierRead ==
  ASSUME ModelParameters, NEW on, NEW blob, Carried(blob, on), Header(blob) # Unreadable
  PROVE  \E m : /\ Sound(m, on) /\ m.risk > Threshold /\ blob = Encode(m) /\ Decode(blob) = m
                /\ m # Unreadable /\ Header(blob).total = m.total /\ Header(blob).boots = m.boots
                /\ Header(blob).learned = m.learned
                /\ m.total \in Nat /\ m.boots \in Nat /\ m.learned \in Nat
<1>1. blob # <<Magic, Version - 1>>
  BY OldIsUnreadable
<1>2. PICK m : Sound(m, on) /\ m.risk > Threshold /\ blob = Encode(m)
  BY <1>1 DEF Carried
<1>3. /\ Decode(blob) = m /\ m # Unreadable /\ Header(blob).total = m.total
      /\ Header(blob).boots = m.boots /\ Header(blob).learned = m.learned
      /\ m.total \in Nat /\ m.boots \in Nat /\ m.learned \in Nat
  BY <1>2, HeaderRead
<1>4. QED
  BY <1>2, <1>3

LEMMA OfKindIs ==
  ASSUME NEW f, NEW kind
  PROVE  \A c : c \in OfKind(f, kind) <=> c \in f.carriers /\ c.kind = kind
BY DEF OfKind

LEMMA NewestIs ==
  ASSUME NEW f, f.lamport \in Nat, Placed(f), NEW kind, OfKind(f, kind) # {}, NEW n,
         n = Newest(OfKind(f, kind))
  PROVE  n \in OfKind(f, kind) /\ \A o \in OfKind(f, kind) : n.at >= o.at
<1>1. PICK nodes : nodes = OfKind(f, kind)
  OBVIOUS
<1>2. \A c \in nodes : c.at \in Nat /\ c.at <= f.lamport
  BY <1>1, OfKindIs DEF Placed
<1>3. PICK S : S = {c.at + 1 : c \in nodes}
  OBVIOUS
<1>4. S \in SUBSET 1..(f.lamport + 1) /\ S # {}
  BY <1>1, <1>2, <1>3
<1>5. PICK k \in S : \A j \in S : j <= k
  <2>1. f.lamport + 1 \in Nat
    OBVIOUS
  <2>2. QED
    BY <1>4, <2>1, NatsHaveGreatest
<1>6. PICK c \in nodes : k = c.at + 1
  BY <1>3, <1>5
<1>7. \A o \in nodes : c.at >= o.at
  <2>1. SUFFICES ASSUME NEW o \in nodes PROVE c.at >= o.at
    OBVIOUS
  <2>2. o.at + 1 <= c.at + 1
    BY <1>3, <1>5, <1>6
  <2>3. QED
    BY <1>2, <1>6, <2>2
<1>8. n \in nodes /\ \A o \in nodes : n.at >= o.at
  BY <1>1, <1>6, <1>7 DEF Newest
<1>9. QED
  BY <1>1, <1>8

LEMMA ModelCarrier ==
  ASSUME NEW f, NEW on, CarriersSound(f, on), NEW c \in OfKind(f, "model")
  PROVE  Carried(c.blob, on) /\ c \in f.carriers /\ c.at \in Nat /\ c.at <= f.lamport
BY OfKindIs DEF CarriersSound, CarrierSound, Placed

LEMMA NothingCarried ==
  ASSUME NEW on, NEW n \in Nat, NEW f, f = [lamport |-> n, carriers |-> {}]
  PROVE  CarriersSound(f, on) /\ OfKind(f, "model") = {}
<1>1. OfKind(f, "model") = {}
  BY DEF OfKind
<1>2. f.lamport \in Nat /\ f.carriers = {} /\ f = [lamport |-> f.lamport, carriers |-> f.carriers]
  OBVIOUS
<1>3. QED
  BY <1>1, <1>2 DEF CarriersSound, Placed, Ordered

LEMMA TickKeeps ==
  ASSUME NEW on, NEW f, CarriersSound(f, on), NEW n \in Nat, NEW g, g = Tick(f, n)
  PROVE  CarriersSound(g, on) /\ OfKind(g, "model") = OfKind(f, "model")
<1>1. PICK l, cs : f = [lamport |-> l, carriers |-> cs] /\ l = f.lamport /\ cs = f.carriers
  BY DEF CarriersSound
<1>2. l \in Nat
  BY <1>1 DEF CarriersSound
<1>3. g = [lamport |-> l + n, carriers |-> cs]
  BY <1>1 DEF Tick
<1>4. OfKind(g, "model") = OfKind(f, "model")
  BY <1>1, <1>3 DEF OfKind
<1>5. Ordered(g)
  <2>1. Ordered(f)
    BY DEF CarriersSound
  <2>2. QED
    BY <1>4, <2>1 DEF Ordered
<1>6. Placed(g)
  BY <1>1, <1>2, <1>3 DEF Placed, CarriersSound
<1>7. \A c \in g.carriers : CarrierSound(c, on)
  BY <1>1, <1>3 DEF CarriersSound
<1>8. g.lamport \in Nat /\ g = [lamport |-> g.lamport, carriers |-> g.carriers]
  BY <1>2, <1>3
<1>9. QED
  BY <1>3, <1>4, <1>5, <1>6, <1>7, <1>8 DEF CarriersSound

\* A carrier that is not there yet is the newest.
LEMMA CarrierCreated ==
  ASSUME NEW on, NEW f, CarriersSound(f, on), NEW kind, NEW blob, NEW g, g = Create(f, kind, blob)
  PROVE  /\ \E c \in OfKind(g, kind) : c.blob = blob
         /\ \/ g = f
            \/ \E n : /\ n = [kind |-> kind, at |-> f.lamport + 1, blob |-> blob]
                      /\ g = [lamport |-> f.lamport + 1, carriers |-> f.carriers \cup {n}]
<1>1. CASE \E n \in f.carriers : n.kind = kind /\ n.blob = blob
  <2>1. g = f
    BY <1>1 DEF Create
  <2>2. QED
    BY <1>1, <2>1, OfKindIs
<1>2. CASE ~ \E n \in f.carriers : n.kind = kind /\ n.blob = blob
  <2>1. PICK n : n = [kind |-> kind, at |-> f.lamport + 1, blob |-> blob]
    OBVIOUS
  <2>2. g = [lamport |-> f.lamport + 1, carriers |-> f.carriers \cup {n}]
    BY <1>2, <2>1 DEF Create
  <2>3. n \in g.carriers /\ n.kind = kind /\ n.blob = blob
    BY <2>1, <2>2
  <2>4. QED
    BY <2>1, <2>2, <2>3, OfKindIs
<1>3. QED
  BY <1>1, <1>2

LEMMA ModelCreated ==
  ASSUME ModelParameters, NEW on, NEW f, CarriersSound(f, on), NEW m, Sound(m, on), m.risk > Threshold,
         Covers(m, f), NEW g, g = Create(f, "model", Encode(m))
  PROVE  CarriersSound(g, on) /\ Covers(m, g) /\ \E c \in OfKind(g, "model") : c.blob = Encode(m)
<1>1. PICK blob : blob = Encode(m)
  OBVIOUS
<1>2. /\ Header(blob) # Unreadable /\ Header(blob).total = m.total /\ Header(blob).boots = m.boots
      /\ Header(blob).learned = m.learned /\ m.total \in Nat /\ m.boots \in Nat /\ m.learned \in Nat
  BY <1>1, HeaderRead
<1>3. AtMost(Header(blob), m)
  BY <1>2 DEF AtMost
<1>4. Carried(blob, on)
  BY <1>1 DEF Carried
<1>5. f.lamport \in Nat /\ Placed(f) /\ Ordered(f) /\ \A c \in f.carriers : CarrierSound(c, on)
  BY DEF CarriersSound
<1>6. /\ \E c \in OfKind(g, "model") : c.blob = blob
      /\ \/ g = f
         \/ \E n : /\ n = [kind |-> "model", at |-> f.lamport + 1, blob |-> blob]
                   /\ g = [lamport |-> f.lamport + 1, carriers |-> f.carriers \cup {n}]
  BY <1>1, CarrierCreated
<1>7. CASE g = f
  BY <1>1, <1>6, <1>7
<1>8. ASSUME NEW n, n = [kind |-> "model", at |-> f.lamport + 1, blob |-> blob],
             g = [lamport |-> f.lamport + 1, carriers |-> f.carriers \cup {n}]
      PROVE  CarriersSound(g, on) /\ Covers(m, g)
  <2>1. n.kind = "model" /\ n.at = f.lamport + 1 /\ n.blob = blob
    BY <1>8
  <2>2. /\ g.lamport = f.lamport + 1 /\ g.carriers = f.carriers \cup {n}
        /\ g = [lamport |-> g.lamport, carriers |-> g.carriers]
    BY <1>8
  <2>3. \A c : c \in OfKind(g, "model") <=> c \in OfKind(f, "model") \/ c = n
    BY <2>1, <2>2, OfKindIs
  <2>4. Covers(m, g)
    <3>1. SUFFICES ASSUME NEW c \in OfKind(g, "model"), Readable(c)
                   PROVE  AtMost(Header(c.blob), m)
      BY DEF Covers
    <3>2. CASE c \in OfKind(f, "model")
      BY <3>1, <3>2 DEF Covers
    <3>3. CASE c = n
      BY <1>3, <2>1, <3>3
    <3>4. QED
      BY <2>3, <3>2, <3>3
  <2>5. Placed(g)
    <3>1. \A c \in f.carriers : c.at \in Nat /\ c.at <= f.lamport
      BY <1>5 DEF Placed
    <3>2. \A c \in g.carriers : c.at \in Nat /\ c.at <= g.lamport
      BY <1>5, <2>1, <2>2, <3>1
    <3>3. QED
      BY <3>2 DEF Placed
  <2>6. \A c \in g.carriers : CarrierSound(c, on)
    <3>1. CarrierSound(n, on)
      BY <1>4, <2>1 DEF CarrierSound
    <3>2. QED
      BY <1>5, <2>2, <3>1
  <2>7. Ordered(g)
    <3>1. SUFFICES ASSUME NEW c \in OfKind(g, "model"), NEW d \in OfKind(g, "model"), c.at <= d.at, Readable(c)
                   PROVE  Readable(d) /\ AtMost(Header(c.blob), Header(d.blob))
      BY DEF Ordered
    <3>2. CASE d = n
      <4>1. AtMost(Header(c.blob), m)
        BY <2>4, <3>1 DEF Covers
      <4>2. AtMost(Header(c.blob), Header(blob))
        BY <1>2, <4>1 DEF AtMost
      <4>3. QED
        BY <1>2, <2>1, <3>2, <4>2 DEF Readable
    <3>3. CASE d # n /\ c = n
      <4>1. d \in OfKind(f, "model")
        BY <2>3, <3>3
      <4>2. d.at \in Nat /\ d.at <= f.lamport
        BY <4>1, ModelCarrier
      <4>3. c.at = f.lamport + 1
        BY <2>1, <3>3
      <4>4. QED
        BY <1>5, <3>1, <4>2, <4>3
    <3>4. CASE d # n /\ c # n
      <4>1. c \in OfKind(f, "model") /\ d \in OfKind(f, "model")
        BY <2>3, <3>4
      <4>2. QED
        BY <1>5, <3>1, <4>1 DEF Ordered
    <3>5. QED
      BY <3>2, <3>3, <3>4
  <2>8. g.lamport \in Nat
    BY <1>5, <2>2
  <2>9. QED
    BY <2>2, <2>4, <2>5, <2>6, <2>7, <2>8 DEF CarriersSound
<1>9. QED
  BY <1>1, <1>6, <1>7, <1>8

LEMMA DriverCreated ==
  ASSUME NEW on, NEW f, CarriersSound(f, on), NEW blob, DriverBlob(blob), NEW g, g = Create(f, "storage", blob)
  PROVE  CarriersSound(g, on) /\ OfKind(g, "model") = OfKind(f, "model")
<1>1. f.lamport \in Nat /\ Placed(f) /\ Ordered(f) /\ \A c \in f.carriers : CarrierSound(c, on)
  BY DEF CarriersSound
<1>2. \/ g = f
      \/ \E n : /\ n = [kind |-> "storage", at |-> f.lamport + 1, blob |-> blob]
                /\ g = [lamport |-> f.lamport + 1, carriers |-> f.carriers \cup {n}]
  BY CarrierCreated
<1>3. CASE g = f
  BY <1>3
<1>4. ASSUME NEW n, n = [kind |-> "storage", at |-> f.lamport + 1, blob |-> blob],
             g = [lamport |-> f.lamport + 1, carriers |-> f.carriers \cup {n}]
      PROVE  CarriersSound(g, on) /\ OfKind(g, "model") = OfKind(f, "model")
  <2>1. n.kind = "storage" /\ n.at = f.lamport + 1 /\ n.blob = blob /\ n.kind # "model"
    BY <1>4
  <2>2. /\ g.lamport = f.lamport + 1 /\ g.carriers = f.carriers \cup {n}
        /\ g = [lamport |-> g.lamport, carriers |-> g.carriers]
    BY <1>4
  <2>3. \A c : c \in OfKind(g, "model") <=> c \in OfKind(f, "model")
    BY <2>1, <2>2, OfKindIs
  <2>4. OfKind(g, "model") = OfKind(f, "model")
    BY <2>3
  <2>5. Placed(g)
    <3>1. \A c \in f.carriers : c.at \in Nat /\ c.at <= f.lamport
      BY <1>1 DEF Placed
    <3>2. \A c \in g.carriers : c.at \in Nat /\ c.at <= g.lamport
      BY <1>1, <2>1, <2>2, <3>1
    <3>3. QED
      BY <3>2 DEF Placed
  <2>6. \A c \in g.carriers : CarrierSound(c, on)
    <3>1. CarrierSound(n, on)
      BY <2>1 DEF CarrierSound
    <3>2. QED
      BY <1>1, <2>2, <3>1
  <2>7. Ordered(g)
    BY <1>1, <2>4 DEF Ordered
  <2>8. g.lamport \in Nat
    BY <1>1, <2>2
  <2>9. QED
    BY <2>2, <2>4, <2>5, <2>6, <2>7, <2>8 DEF CarriersSound
<1>5. QED
  BY <1>2, <1>3, <1>4

(***************************************************************************)
(* The surprise that the snapshot saves.                                   *)
(***************************************************************************)
SavedIn(f) ==
  IF ModelsIn(f) = {} THEN 0 ELSE Header(Newest(OfKind(f, "model")).blob).learned

LEMMA ModelsInIs ==
  ASSUME NEW f, NEW c \in OfKind(f, "model"), Readable(c)
  PROVE  ModelsIn(f) # {}
BY DEF ModelsIn, Readable

LEMMA NewestReadable ==
  ASSUME ModelParameters, NEW on, NEW f, CarriersSound(f, on), NEW c \in OfKind(f, "model"), Readable(c),
         NEW n, n = Newest(OfKind(f, "model"))
  PROVE  n \in OfKind(f, "model") /\ Readable(n) /\ AtMost(Header(c.blob), Header(n.blob))
<1>1. f.lamport \in Nat /\ Placed(f) /\ Ordered(f)
  BY DEF CarriersSound
<1>2. n \in OfKind(f, "model") /\ n.at >= c.at
  BY <1>1, NewestIs
<1>3. n.at \in Nat /\ c.at \in Nat
  BY <1>2, ModelCarrier
<1>4. c.at <= n.at
  BY <1>2, <1>3
<1>5. QED
  BY <1>1, <1>2, <1>4 DEF Ordered

LEMMA SavedCovers ==
  ASSUME ModelParameters, NEW on, NEW f, CarriersSound(f, on)
  PROVE  /\ SavedIn(f) \in Nat
         /\ \A c \in OfKind(f, "model") : Readable(c) => Header(c.blob).learned <= SavedIn(f)
<1>1. SavedIn(f) \in Nat
  <2>1. CASE ModelsIn(f) = {}
    BY <2>1 DEF SavedIn
  <2>2. CASE ModelsIn(f) # {}
    <3>1. PICK c \in OfKind(f, "model") : Readable(c)
      BY <2>2 DEF ModelsIn, Readable
    <3>2. PICK n : n = Newest(OfKind(f, "model"))
      OBVIOUS
    <3>3. n \in OfKind(f, "model") /\ Readable(n)
      BY <3>1, <3>2, NewestReadable
    <3>4. Carried(n.blob, on) /\ Header(n.blob) # Unreadable
      BY <3>3, ModelCarrier DEF Readable
    <3>5. Header(n.blob).learned \in Nat
      BY <3>4, CarrierRead
    <3>6. QED
      BY <2>2, <3>2, <3>5 DEF SavedIn
  <2>3. QED
    BY <2>1, <2>2
<1>2. ASSUME NEW c \in OfKind(f, "model"), Readable(c)
      PROVE  Header(c.blob).learned <= SavedIn(f)
  <2>1. PICK n : n = Newest(OfKind(f, "model"))
    OBVIOUS
  <2>2. AtMost(Header(c.blob), Header(n.blob))
    BY <1>2, <2>1, NewestReadable
  <2>3. ModelsIn(f) # {}
    BY <1>2, ModelsInIs
  <2>4. QED
    BY <2>1, <2>2, <2>3 DEF SavedIn, AtMost
<1>3. QED
  BY <1>1, <1>2

-----------------------------------------------------------------------------
(***************************************************************************)
(* The images of earlier versions, and the model of a session.             *)
(***************************************************************************)
LEMMA ImagesSound ==
  ASSUME NEW on, NEW f \in OldImages
  PROVE  CarriersSound(f, on)
<1>1. PICK driver, stranger, old : driver = EncodeDiscrete([dims |-> <<5, 5, 5>>, seen |-> 1])
                                   /\ stranger = EncodeDiscrete([dims |-> <<3, 5, 5>>, seen |-> 1])
                                   /\ old = <<Magic, Version - 1>>
  OBVIOUS
<1>2. DriverBlob(driver) /\ DriverBlob(stranger)
  <2>1. [dims |-> <<5, 5, 5>>, seen |-> 1] \in Discretes(<<5, 5, 5>>)
        /\ [dims |-> <<3, 5, 5>>, seen |-> 1] \in Discretes(<<3, 5, 5>>)
    BY DEF Discretes
  <2>2. QED
    BY <1>1, <2>1, DimsTyped DEF DriverBlob
<1>3. Header(old) = Unreadable /\ Carried(old, on)
  BY <1>1, OldIsUnreadable DEF Carried
<1>4. ASSUME NEW blob, DriverBlob(blob), f = [lamport |-> 2, carriers |-> {[kind |-> "storage", at |-> 2, blob |-> blob]}]
      PROVE  CarriersSound(f, on)
  <2>1. PICK c : c = [kind |-> "storage", at |-> 2, blob |-> blob]
    OBVIOUS
  <2>2. f = [lamport |-> 2, carriers |-> {c}] /\ f.lamport = 2 /\ f.carriers = {c}
    BY <1>4, <2>1
  <2>3. c.kind = "storage" /\ c.at = 2 /\ c.blob = blob /\ c.kind # "model"
    BY <2>1
  <2>4. CarrierSound(c, on)
    BY <1>4, <2>3 DEF CarrierSound
  <2>5. Placed(f)
    BY <2>2, <2>3 DEF Placed
  <2>6. Ordered(f)
    BY <2>2, <2>3, OfKindIs DEF Ordered
  <2>7. QED
    BY <2>2, <2>4, <2>5, <2>6 DEF CarriersSound
<1>5. ASSUME f = [lamport |-> 3, carriers |-> {[kind |-> "model", at |-> 2, blob |-> old],
                                              [kind |-> "storage", at |-> 3, blob |-> driver]}]
      PROVE  CarriersSound(f, on)
  <2>1. PICK c, d : c = [kind |-> "model", at |-> 2, blob |-> old] /\ d = [kind |-> "storage", at |-> 3, blob |-> driver]
    OBVIOUS
  <2>2. f = [lamport |-> 3, carriers |-> {c, d}] /\ f.lamport = 3 /\ f.carriers = {c, d}
    BY <1>5, <2>1
  <2>3. /\ c.kind = "model" /\ c.at = 2 /\ c.blob = old /\ c.kind # "storage"
        /\ d.kind = "storage" /\ d.at = 3 /\ d.blob = driver /\ d.kind # "model"
    BY <2>1
  <2>4. CarrierSound(c, on) /\ CarrierSound(d, on)
    BY <1>2, <1>3, <2>3 DEF CarrierSound
  <2>5. Placed(f)
    BY <2>2, <2>3 DEF Placed
  <2>6. Ordered(f)
    <3>1. \A x \in OfKind(f, "model") : x = c
      BY <2>2, <2>3, OfKindIs
    <3>2. ~ Readable(c)
      BY <1>3, <2>3 DEF Readable
    <3>3. QED
      BY <3>1, <3>2 DEF Ordered
  <2>7. QED
    BY <2>2, <2>4, <2>5, <2>6 DEF CarriersSound
<1>6. CASE f = NoSnapshot
  BY <1>6, NothingCarried DEF NoSnapshot
<1>7. QED
  <2>1. \/ f = NoSnapshot
        \/ f = [lamport |-> 2, carriers |-> {[kind |-> "storage", at |-> 2, blob |-> driver]}]
        \/ f = [lamport |-> 2, carriers |-> {[kind |-> "storage", at |-> 2, blob |-> stranger]}]
        \/ f = [lamport |-> 3, carriers |-> {[kind |-> "model", at |-> 2, blob |-> old],
                                             [kind |-> "storage", at |-> 3, blob |-> driver]}]
    BY <1>1 DEF OldImages
  <2>2. QED
    BY <1>2, <1>4, <1>5, <1>6, <2>1

\* Whatever a driver carrier holds, the device of the session is a storage agent.
LEMMA DeviceTyped ==
  ASSUME NEW d, d = Device
  PROVE  /\ <<d>> \in DeviceLists
         /\ \A blob : DriverBlob(blob) => <<RestoreFromBytes(d, blob)>> \in DeviceLists
<1>1. d = [label |-> "vblk0", model |-> [dims |-> <<5, 5, 5>>, seen |-> 0]]
  BY DEF Device, StorageAgent, Discrete
<1>2. d \in StorageAgents
  BY <1>1 DEF StorageAgents, Discretes
<1>3. ASSUME NEW blob, DriverBlob(blob)
      PROVE  RestoreFromBytes(d, blob) \in StorageAgents
  <2>1. PICK dims \in Dims : \E e \in Discretes(dims) : blob = EncodeDiscrete(e)
    BY <1>3 DEF DriverBlob
  <2>2. PICK e \in Discretes(dims) : blob = EncodeDiscrete(e)
    BY <2>1
  <2>3. DecodeDiscrete(blob) = e
    BY <2>2, DiscreteCoded
  <2>4. d.model.dims = <<5, 5, 5>>
    BY <1>1
  <2>5. CASE e.dims = <<5, 5, 5>>
    <3>1. e \in Discretes(<<5, 5, 5>>)
      BY <2>2, <2>5 DEF Discretes
    <3>2. [d EXCEPT !.model = e] = [label |-> "vblk0", model |-> e]
      BY <1>1
    <3>3. [d EXCEPT !.model = e] \in StorageAgents
      BY <3>1, <3>2 DEF StorageAgents
    <3>4. QED
      BY <2>3, <2>4, <2>5, <3>3 DEF RestoreFromBytes
  <2>6. CASE e.dims # <<5, 5, 5>>
    BY <1>2, <2>3, <2>4, <2>6 DEF RestoreFromBytes
  <2>7. QED
    BY <2>5, <2>6
<1>4. QED
  BY <1>2, <1>3 DEF DeviceLists

\* A model that a session begins with.
Fresh(m, on) == \E ds \in DeviceLists : (on => ds # <<>>) /\ m = [Nucleation EXCEPT !.devices = ds]

LEMMA NoDevices == Nucleation.devices = <<>> /\ Whole(Nucleation) /\ \A ds : [Nucleation EXCEPT !.devices = ds].devices = ds
<1>1. PICK m : m = Nucleation
  OBVIOUS
<1>2. Whole(m) /\ m.devices = <<>>
  BY <1>1 DEF Nucleation, Whole
<1>3. ASSUME NEW ds PROVE [m EXCEPT !.devices = ds].devices = ds
  BY <1>2, DevicesSet
<1>4. QED
  BY <1>1, <1>2, <1>3

LEMMA NewIsFresh ==
  ASSUME NEW w, w = WithDevice(Nucleation)
  PROVE  Fresh(w, enabled)
<1>1. PICK n, d : n = Nucleation /\ d = Device
  OBVIOUS
<1>2. n.devices = <<>> /\ <<d>> \in DeviceLists /\ <<d>> # <<>> /\ <<>> \in DeviceLists
  BY <1>1, NoDevices, DeviceTyped DEF DeviceLists
<1>3. CASE enabled
  <2>1. w = [n EXCEPT !.devices = <<d>>]
    BY <1>1, <1>2, <1>3 DEF WithDevice
  <2>2. QED
    BY <1>1, <1>2, <2>1 DEF Fresh
<1>4. CASE ~enabled
  <2>1. w = n
    BY <1>1, <1>4 DEF WithDevice
  <2>2. n = [n EXCEPT !.devices = <<>>]
    <3>1. Whole(n)
      BY <1>1, NoDevices
    <3>2. QED
      BY <1>2, <3>1 DEF Whole
  <2>3. QED
    BY <1>1, <1>2, <1>4, <2>1, <2>2 DEF Fresh
<1>5. QED
  BY <1>3, <1>4

LEMMA RestoredDeviceFresh ==
  ASSUME NEW blob, DriverBlob(blob), enabled, NEW v,
         v = [NoteBoot(WithDevice(Nucleation)) EXCEPT !.devices = <<RestoreFromBytes(Device, blob)>>]
  PROVE  \E w : Fresh(w, enabled) /\ v = NoteBoot(w)
<1>1. PICK n, d, e : n = Nucleation /\ d = <<Device>> /\ e = <<RestoreFromBytes(Device, blob)>>
  OBVIOUS
<1>2. n.devices = <<>> /\ Whole(n) /\ e \in DeviceLists /\ e # <<>>
  BY <1>1, NoDevices, DeviceTyped
<1>3. PICK w : w = [n EXCEPT !.devices = d]
  OBVIOUS
<1>4. WithDevice(Nucleation) = w
  BY <1>1, <1>2, <1>3 DEF WithDevice
<1>5. PICK x : x = [n EXCEPT !.devices = e]
  OBVIOUS
<1>6. PICK b : b = n.boots + 1
  OBVIOUS
<1>7. NoteBoot(x) = [x EXCEPT !.boots = b]
  <2>1. x.boots = n.boots
    BY ONLY <1>2, <1>5, DevicesSet
  <2>2. QED
    BY <1>6, <2>1 DEF NoteBoot
<1>8. NoteBoot(w) = [w EXCEPT !.boots = b]
  <2>1. w.boots = n.boots
    BY ONLY <1>2, <1>3, DevicesSet
  <2>2. QED
    BY <1>6, <2>1 DEF NoteBoot
<1>9. v = [[w EXCEPT !.boots = b] EXCEPT !.devices = e]
  BY <1>1, <1>4, <1>8
<1>10. v = NoteBoot(x)
  BY ONLY <1>2, <1>3, <1>5, <1>7, <1>9 DEF Whole
<1>11. Fresh(x, enabled)
  BY <1>1, <1>2, <1>5 DEF Fresh
<1>12. QED
  BY <1>10, <1>11

LEMMA FreshSound ==
  ASSUME ModelParameters, NEW on \in BOOLEAN, NEW w, Fresh(w, on)
  PROVE  Sound(w, on) /\ w.learned = 0
<1>1. PICK ds \in DeviceLists : (on => ds # <<>>) /\ w = [Nucleation EXCEPT !.devices = ds]
  BY DEF Fresh
<1>2. QED
  BY <1>1, NucleationSound

\* A session goes on from what its fabric carries, or from nothing.
LEMMA NucleatedKept ==
  ASSUME ModelParameters, enabled \in BOOLEAN, NEW f, CarriersSound(f, enabled)
  PROVE  \E m : /\ Sound(m, enabled) /\ Nucleated(f) = NoteBoot(m) /\ Covers(m, f)
                /\ m.learned = 0 \/ m.risk > Threshold
<1>1. PICK models, drivers : models = OfKind(f, "model") /\ drivers = OfKind(f, "storage")
  OBVIOUS
<1>2. PICK n : n = Newest(models)
  OBVIOUS
<1>3. f.lamport \in Nat /\ Placed(f)
  BY DEF CarriersSound
<1>4. PICK restored : restored = IF models = {} THEN Unreadable ELSE Decode(n.blob)
  OBVIOUS
<1>5. PICK new : new = NoteBoot(WithDevice(Nucleation))
  OBVIOUS
<1>6. Nucleated(f) = IF restored # Unreadable THEN NoteBoot(WithDevice(restored))
                     ELSE IF enabled /\ models = {} /\ drivers # {}
                     THEN [new EXCEPT !.devices = <<RestoreFromBytes(Device, Newest(drivers).blob)>>]
                     ELSE new
  BY <1>1, <1>2, <1>4, <1>5 DEF Nucleated
<1>7. CASE models # {} /\ Readable(n)
  <2>1. n \in OfKind(f, "model")
    BY <1>1, <1>2, <1>3, <1>7, NewestIs
  <2>2. Carried(n.blob, enabled) /\ Header(n.blob) # Unreadable
    BY <1>7, <2>1, ModelCarrier DEF Readable
  <2>3. PICK m : /\ Sound(m, enabled) /\ m.risk > Threshold /\ Decode(n.blob) = m /\ m # Unreadable
                 /\ Header(n.blob).total = m.total /\ Header(n.blob).boots = m.boots
                 /\ Header(n.blob).learned = m.learned
    BY <2>2, CarrierRead
  <2>4. Covers(m, f)
    <3>1. SUFFICES ASSUME NEW c \in OfKind(f, "model"), Readable(c) PROVE AtMost(Header(c.blob), m)
      BY DEF Covers
    <3>2. AtMost(Header(c.blob), Header(n.blob))
      BY <1>1, <1>2, <3>1, NewestReadable
    <3>3. QED
      BY <2>3, <3>2 DEF AtMost
  <2>5. WithDevice(m) = m
    <3>1. enabled => m.devices # <<>>
      BY <2>3 DEF Sound, Accounts, StepsFit
    <3>2. QED
      BY <3>1 DEF WithDevice
  <2>6. restored = m
    BY <1>4, <1>7, <2>3
  <2>7. Nucleated(f) = NoteBoot(m)
    BY <1>6, <2>3, <2>5, <2>6
  <2>8. QED
    BY <2>3, <2>4, <2>7
<1>8. CASE models = {} \/ ~Readable(n)
  <2>1. restored = Unreadable
    BY <1>4, <1>8 DEF Readable, Decode
  <2>2. \A c \in OfKind(f, "model") : ~Readable(c)
    BY <1>1, <1>2, <1>8, NewestReadable
  <2>3. \A m : Covers(m, f)
    BY <2>2 DEF Covers
  <2>4. \E w : Fresh(w, enabled) /\ Nucleated(f) = NoteBoot(w)
    <3>1. CASE enabled /\ models = {} /\ drivers # {}
      <4>1. PICK c : c = Newest(drivers)
        OBVIOUS
      <4>2. c \in OfKind(f, "storage")
        BY <1>1, <1>3, <3>1, <4>1, NewestIs
      <4>3. DriverBlob(c.blob)
        BY <4>2, OfKindIs DEF CarriersSound, CarrierSound
      <4>4. Nucleated(f) = [NoteBoot(WithDevice(Nucleation)) EXCEPT !.devices = <<RestoreFromBytes(Device, c.blob)>>]
        BY <1>5, <1>6, <2>1, <3>1, <4>1
      <4>5. QED
        BY <3>1, <4>3, <4>4, RestoredDeviceFresh
    <3>2. CASE ~ (enabled /\ models = {} /\ drivers # {})
      <4>1. Nucleated(f) = NoteBoot(WithDevice(Nucleation))
        BY <1>5, <1>6, <2>1, <3>2
      <4>2. QED
        BY <4>1, NewIsFresh
    <3>3. QED
      BY <3>1, <3>2
  <2>5. PICK w : Fresh(w, enabled) /\ Nucleated(f) = NoteBoot(w)
    BY <2>4
  <2>6. Sound(w, enabled) /\ w.learned = 0
    BY <2>5, FreshSound
  <2>7. QED
    BY <2>3, <2>5, <2>6
<1>9. QED
  BY <1>7, <1>8

-----------------------------------------------------------------------------
(***************************************************************************)
(* The inductive invariant of the kernel's life.                           *)
(***************************************************************************)
Loops == {"observe", "agent", "meta", "render", "persist", "write", "park"}

\* The model of a session is sound, and its fabric knows no more than it does.
SessionSound == pc \in Loops => Sound(model, enabled) /\ Covers(model, fabric)

\* Between the carriers and the outcome of a persist, the fabric holds the model.
WritePending ==
  pc = "write" =>
    /\ enabled /\ model.risk > Threshold
    /\ \E c \in OfKind(fabric, "model") : c.blob = Encode(model)

RiskCovered ==
  enabled /\ pc \in Loops =>
    model.risk > Threshold \/ model.learned <= SavedIn(disk) + model.risk

LoopInv ==
  /\ enabled \in BOOLEAN /\ pc \in Loops \cup {"off", "bootPersist", "nucleate"}
  /\ CarriersSound(disk, enabled) /\ CarriersSound(fabric, enabled)
  /\ SessionSound /\ WritePending /\ RiskCovered

\* A step of the loop that persists nothing.
LEMMA GoesOn ==
  ASSUME ModelParameters, LoopInv, pc \in Loops, enabled' = enabled, disk' = disk,
         pc' \in Loops \ {"write"}, CarriersSound(fabric', enabled),
         OfKind(fabric', "model") = OfKind(fabric, "model"),
         Sound(model', enabled), NEW s \in Nat, NEW n \in Nat,
         model'.boots = model.boots, model'.total = model.total + n,
         model'.learned = model.learned + s, model'.risk >= model.risk + s
  PROVE  LoopInv'
<1>1. PICK m, u : m = model /\ u = model'
  OBVIOUS
<1>2. PICK f, g : f = fabric /\ g = fabric'
  OBVIOUS
<1>3. Sound(m, enabled) /\ Covers(m, f) /\ Sound(u, enabled)
  BY <1>1, <1>2 DEF LoopInv, SessionSound
<1>4. Numbers(m) /\ Numbers(u)
  BY <1>3, NumbersTyped DEF Sound
<1>5. /\ m.boots \in Nat /\ m.total \in Nat /\ m.learned \in Nat /\ m.risk \in Nat
      /\ u.boots \in Nat /\ u.total \in Nat /\ u.learned \in Nat /\ u.risk \in Nat
  BY <1>4 DEF Numbers
<1>6. u.boots = m.boots /\ u.total = m.total + n /\ u.learned = m.learned + s /\ u.risk >= m.risk + s
  BY <1>1
<1>7. Covers(u, g)
  <2>1. SUFFICES ASSUME NEW c \in OfKind(g, "model"), Readable(c) PROVE AtMost(Header(c.blob), u)
    BY DEF Covers
  <2>2. c \in OfKind(f, "model")
    BY <1>2, <2>1
  <2>3. AtMost(Header(c.blob), m)
    BY <1>3, <2>1, <2>2 DEF Covers
  <2>4. Header(c.blob).total \in Nat /\ Header(c.blob).boots \in Nat /\ Header(c.blob).learned \in Nat
    <3>1. CarriersSound(f, enabled)
      BY <1>2 DEF LoopInv
    <3>2. Carried(c.blob, enabled)
      BY <2>2, <3>1, ModelCarrier
    <3>3. Header(c.blob) # Unreadable
      BY <2>1 DEF Readable
    <3>4. QED
      BY <3>2, <3>3, CarrierRead
  <2>5. QED
    BY ONLY <1>5, <1>6, <2>3, <2>4, s \in Nat, n \in Nat DEF AtMost
<1>8. enabled => u.risk > Threshold \/ u.learned <= SavedIn(disk) + u.risk
  <2>1. SUFFICES ASSUME enabled PROVE u.risk > Threshold \/ u.learned <= SavedIn(disk) + u.risk
    OBVIOUS
  <2>2. m.risk > Threshold \/ m.learned <= SavedIn(disk) + m.risk
    BY <1>1, <2>1 DEF LoopInv, RiskCovered
  <2>3. SavedIn(disk) \in Nat
    BY SavedCovers DEF LoopInv
  <2>4. Threshold \in Nat
    BY DEF ModelParameters
  <2>5. QED
    BY ONLY <1>5, <1>6, <2>2, <2>3, <2>4, s \in Nat
<1>9. SessionSound'
  BY <1>1, <1>2, <1>3, <1>7 DEF SessionSound
<1>10. WritePending'
  BY DEF WritePending
<1>11. RiskCovered'
  BY <1>1, <1>8 DEF RiskCovered
<1>12. QED
  BY <1>9, <1>10, <1>11 DEF LoopInv

LEMMA Sessions == ASSUME LoopInv, pc \in Loops
  PROVE /\ Sound(model, enabled) /\ enabled \in BOOLEAN /\ CarriersSound(fabric, enabled)
        /\ fabric.lamport \in Nat /\ Numbers(model)
<1>1. Sound(model, enabled) /\ enabled \in BOOLEAN /\ CarriersSound(fabric, enabled)
  BY DEF LoopInv, SessionSound
<1>2. QED
  BY <1>1, NumbersTyped DEF Sound, CarriersSound

\* A step that leaves the model and what the fabric carries.
LEMMA Waits ==
  ASSUME ModelParameters, LoopInv, pc \in Loops, enabled' = enabled, disk' = disk,
         pc' \in Loops \ {"write"}, fabric' = fabric, model' = model
  PROVE  LoopInv'
<1>1. Sound(model, enabled) /\ CarriersSound(fabric, enabled) /\ Numbers(model)
  BY Sessions
<1>2. model.total \in Nat /\ model.learned \in Nat /\ model.risk \in Nat
  BY <1>1 DEF Numbers
<1>3. PICK z \in Nat : z = 0
  OBVIOUS
<1>4. /\ model'.boots = model.boots /\ model'.total = model.total + z
      /\ model'.learned = model.learned + z /\ model'.risk >= model.risk + z
  BY <1>2, <1>3
<1>5. QED
  BY <1>1, <1>3, <1>4, GoesOn

LEMMA RenderKeeps == ASSUME ModelParameters, LoopInv, Render PROVE LoopInv'
<1>1. pc \in Loops /\ pc' \in Loops \ {"write"} /\ enabled' = enabled /\ disk' = disk /\ fabric' = fabric
  BY DEF Render, Goto, Loops
<1>2. CASE ~dirty
  <2>1. model' = model
    BY <1>2 DEF Render
  <2>2. QED
    BY <1>1, <2>1, Waits
<1>3. CASE dirty
  <2>1. /\ Sound(model, enabled) /\ enabled \in BOOLEAN /\ CarriersSound(fabric, enabled)
        /\ Numbers(model)
    BY <1>1, Sessions
  <2>2. PICK u : u = model'
    OBVIOUS
  <2>3. u = AccountSubstrate(model, "rendered")
    BY <1>3, <2>2 DEF Render
  <2>4. /\ Sound(u, enabled) /\ u.boots = model.boots /\ u.total = model.total
        /\ u.learned = model.learned /\ u.risk = model.risk
    BY ONLY <2>1, <2>3, RenderKept
  <2>5. model.total \in Nat /\ model.learned \in Nat /\ model.risk \in Nat
    BY <2>1 DEF Numbers
  <2>6. PICK z \in Nat : z = 0
    OBVIOUS
  <2>7. /\ u.boots = model.boots /\ u.total = model.total + z
        /\ u.learned = model.learned + z /\ u.risk >= model.risk + z
    BY ONLY <2>4, <2>5, <2>6
  <2>8. QED
    BY <1>1, <2>1, <2>2, <2>4, <2>7, GoesOn
<1>4. QED
  BY <1>2, <1>3

LEMMA SubmitKeeps ==
  ASSUME ModelParameters, LoopParameters, LoopInv, NEW l \in Lines, NEW s \in Surprises.operator,
         NEW n \in AnswerLines(l), Submit(l, s, n)
  PROVE  LoopInv'
<1>1. pc \in Loops /\ pc' \in Loops \ {"write"} /\ enabled' = enabled /\ disk' = disk
  BY DEF Submit, Goto, Loops
<1>2. l \in Vocabulary /\ s \in Nat /\ Bump \in Nat /\ n \in 1..LongestAnswer
  BY DEF LoopParameters, AnswerLines
<1>3. Sound(model, enabled) /\ enabled \in BOOLEAN /\ CarriersSound(fabric, enabled)
  BY <1>1, Sessions
<1>4. CarriersSound(fabric', enabled) /\ OfKind(fabric', "model") = OfKind(fabric, "model")
  <2>1. fabric' = Tick(fabric, 4) /\ 4 \in Nat
    BY DEF Submit
  <2>2. QED
    BY <1>3, <2>1, TickKeeps
<1>5. model' = Intended(model, l, s, n)
  BY DEF Submit, Intended, IntentOf
<1>6. /\ Sound(model', enabled) /\ model'.boots = model.boots
      /\ model'.total = model.total + 1
      /\ model'.learned = model.learned + s /\ model'.risk >= model.risk + s
  BY ONLY ModelParameters, <1>2, <1>3, <1>5, IntentKept
<1>7. QED
  BY <1>1, <1>2, <1>4, <1>6, GoesOn

LEMMA AgentStepKeeps ==
  ASSUME ModelParameters, LoopParameters, LoopInv, NEW a \in Actions, NEW s \in Surprises.devices,
         NEW r \in ResultsOf(a, Results), AgentStep(a, r, s)
  PROVE  LoopInv'
<1>1. /\ pc \in Loops /\ pc' \in Loops \ {"write"} /\ enabled /\ enabled' = enabled
      /\ disk' = disk
  BY DEF AgentStep, Goto, Loops
<1>2. a \in {"identify", "read", "write", "flush", "wait"} /\ s \in Nat
  BY DEF LoopParameters
<1>3. r \in {"ok", "timeout", "error", "noDevice"}
  BY DEF LoopParameters, ResultsOf
<1>4. Sound(model, enabled) /\ enabled \in BOOLEAN /\ CarriersSound(fabric, enabled)
  BY <1>1, Sessions
<1>5. model.devices # <<>>
  BY <1>1, <1>4 DEF Sound, Accounts, StepsFit
<1>6. CarriersSound(fabric', enabled) /\ OfKind(fabric', "model") = OfKind(fabric, "model")
  <2>1. fabric' = Tick(fabric, 1) /\ 1 \in Nat
    BY DEF AgentStep
  <2>2. QED
    BY <1>4, <2>1, TickKeeps
<1>7. model' = Stepped(model, a, r, s)
  BY DEF AgentStep, Stepped, StepOf
<1>8. /\ Sound(model', enabled) /\ model'.boots = model.boots
      /\ model'.total = model.total + 1
      /\ model'.learned = model.learned + s /\ model'.risk = model.risk + s
  BY ONLY ModelParameters, <1>2, <1>3, <1>4, <1>5, <1>7, StepKept
<1>9. model'.risk >= model.risk + s
  <2>1. model.risk \in Nat
    BY <1>1, Sessions DEF Numbers
  <2>2. QED
    BY ONLY <1>2, <1>8, <2>1
<1>10. QED
  BY <1>1, <1>2, <1>6, <1>8, <1>9, GoesOn

LEMMA MetaKeeps ==
  ASSUME ModelParameters, LoopInv, Meta
  PROVE  LoopInv'
<1>1. pc \in Loops /\ pc' \in Loops \ {"write"} /\ enabled' = enabled /\ disk' = disk
  BY DEF Meta, Goto, Loops
<1>2. CASE fabric' = fabric /\ model' = model
  BY <1>1, <1>2, Waits
<1>3. CASE ~ (fabric' = fabric /\ model' = model)
  <2>1. /\ Sound(model, enabled) /\ enabled \in BOOLEAN /\ CarriersSound(fabric, enabled)
        /\ fabric.lamport \in Nat /\ Numbers(model)
    BY <1>1, Sessions
  <2>2. fabric' = Tick(fabric, 1) /\ model' = Assessed(model, fabric.lamport)
    BY <1>3 DEF Meta, SubmitEvent, Assessed
  <2>3. CarriersSound(fabric', enabled) /\ OfKind(fabric', "model") = OfKind(fabric, "model")
    BY <2>1, <2>2, TickKeeps
  <2>4. /\ Sound(model', enabled) /\ model'.boots = model.boots
        /\ model'.total = model.total
        /\ model'.learned = model.learned /\ model'.risk = model.risk
    BY ONLY <2>1, <2>2, AssessmentKept
  <2>5. PICK z \in Nat : z = 0
    OBVIOUS
  <2>6. model.total \in Nat /\ model.learned \in Nat /\ model.risk \in Nat
    BY <2>1 DEF Numbers
  <2>7. /\ model'.total = model.total + z
        /\ model'.learned = model.learned + z /\ model'.risk >= model.risk + z
    BY ONLY <2>4, <2>5, <2>6
  <2>8. QED
    BY <1>1, <2>3, <2>4, <2>5, <2>7, GoesOn
<1>4. QED
  BY <1>2, <1>3

LEMMA ParkKeeps ==
  ASSUME ModelParameters, LoopInv, Park
  PROVE  LoopInv'
<1>1. /\ pc \in Loops /\ pc' \in Loops \ {"write"} /\ enabled' = enabled /\ disk' = disk
      /\ fabric' = fabric
  BY DEF Park, Goto, Loops
<1>2. /\ Sound(model, enabled) /\ enabled \in BOOLEAN /\ CarriersSound(fabric, enabled)
      /\ fabric.lamport \in Nat /\ Numbers(model)
  BY <1>1, Sessions
<1>3. model' = [model EXCEPT !.agents.agents[1].lastTick = fabric.lamport]
  BY DEF Park
<1>4. /\ Sound(model', enabled) /\ model'.boots = model.boots
      /\ model'.total = model.total
      /\ model'.learned = model.learned /\ model'.risk = model.risk
  BY ONLY <1>2, <1>3, ParkKept
<1>5. PICK z \in Nat : z = 0
  OBVIOUS
<1>6. model.total \in Nat /\ model.learned \in Nat /\ model.risk \in Nat
  BY <1>2 DEF Numbers
<1>7. /\ model'.total = model.total + z
      /\ model'.learned = model.learned + z /\ model'.risk >= model.risk + z
  BY ONLY <1>4, <1>5, <1>6
<1>8. QED
  BY <1>1, <1>2, <1>4, <1>5, <1>7, GoesOn

-----------------------------------------------------------------------------
\* Outside of the loop only the carriers matter.
LEMMA Outside ==
  ASSUME enabled \in BOOLEAN, enabled' = enabled, pc' \in {"off", "bootPersist", "nucleate"},
         CarriersSound(fabric', enabled), CarriersSound(disk', enabled)
  PROVE  LoopInv'
<1>1. pc' \notin Loops
  BY DEF Loops
<1>2. SessionSound' /\ WritePending' /\ RiskCovered'
  BY <1>1 DEF SessionSound, WritePending, RiskCovered, Loops
<1>3. QED
  BY <1>2 DEF LoopInv

LEMMA NoneCarried == CarriersSound(NoSnapshot, enabled)
BY NothingCarried DEF NoSnapshot

LEMMA InitInv == ASSUME Init PROVE LoopInv
<1>1. enabled \in BOOLEAN /\ disk \in OldImages /\ fabric = NoSnapshot /\ pc = "off"
  BY DEF Init
<1>2. CarriersSound(disk, enabled)
  BY <1>1, ImagesSound
<1>3. CarriersSound(fabric, enabled)
  BY <1>1, NoneCarried
<1>4. SessionSound /\ WritePending /\ RiskCovered
  BY <1>1 DEF SessionSound, WritePending, RiskCovered, Loops
<1>5. QED
  BY <1>1, <1>2, <1>3, <1>4 DEF LoopInv

LEMMA RestoreKeeps == ASSUME LoopInv, Restore PROVE LoopInv'
<1>1. /\ enabled' = enabled /\ disk' = disk /\ fabric' = disk /\ pc' = "bootPersist"
      /\ enabled \in BOOLEAN /\ CarriersSound(disk, enabled)
  BY DEF Restore, Goto, LoopInv
<1>2. QED
  BY <1>1, Outside

LEMMA FreshGenesisKeeps == ASSUME LoopInv, FreshGenesis PROVE LoopInv'
<1>1. /\ enabled' = enabled /\ disk' = disk /\ pc' \in {"bootPersist", "nucleate"}
      /\ fabric' = Tick(NoSnapshot, 1)
      /\ enabled \in BOOLEAN /\ CarriersSound(disk, enabled)
  BY DEF FreshGenesis, Goto, LoopInv
<1>2. CarriersSound(fabric', enabled)
  BY <1>1, NoneCarried, TickKeeps
<1>3. QED
  BY <1>1, <1>2, Outside

LEMMA BootPersistKeeps == ASSUME LoopInv, BootPersist PROVE LoopInv'
<1>1. /\ enabled' = enabled /\ fabric' = fabric /\ pc' = "nucleate"
      /\ disk' \in {fabric, disk, NoSnapshot}
      /\ enabled \in BOOLEAN /\ CarriersSound(disk, enabled) /\ CarriersSound(fabric, enabled)
  BY DEF BootPersist, Goto, LoopInv, Damaged
<1>2. CarriersSound(disk', enabled)
  BY <1>1, NoneCarried
<1>3. QED
  BY <1>1, <1>2, Outside

LEMMA NucleateKeeps == ASSUME ModelParameters, LoopInv, Nucleate PROVE LoopInv'
<1>1. /\ enabled' = enabled /\ disk' = disk /\ pc' = "observe"
      /\ fabric' = Tick(fabric, 1)
      /\ enabled \in BOOLEAN /\ CarriersSound(disk, enabled) /\ CarriersSound(fabric, enabled)
  BY DEF Nucleate, Goto, LoopInv
<1>2. PICK m : /\ Sound(m, enabled) /\ Nucleated(fabric) = NoteBoot(m) /\ Covers(m, fabric)
               /\ m.learned = 0 \/ m.risk > Threshold
  BY ONLY ModelParameters, <1>1, NucleatedKept
<1>3. PICK b : b = NoteBoot(m)
  OBVIOUS
<1>4. model' = Heard(IF enabled THEN [b EXCEPT !.devices[1] = Step(@)] ELSE b, BootLog)
  BY <1>2, <1>3 DEF Nucleate
<1>5. model' = Booted(m, enabled, BootLog)
  BY <1>3, <1>4 DEF Booted
<1>6. PICK events : events = BootLog
  OBVIOUS
<1>7. Len(events) = IF enabled THEN 3 ELSE 2
  BY <1>6 DEF BootLog
<1>8. PICK u : u = model'
  OBVIOUS
<1>9. /\ Sound(u, enabled) /\ u.boots = m.boots + 1 /\ u.total = m.total
      /\ u.learned = m.learned /\ u.risk = m.risk
  <2>1. u = Booted(m, enabled, events)
    BY <1>5, <1>6, <1>8
  <2>2. QED
    BY ONLY <1>1, <1>2, <1>7, <2>1, BootKept
<1>10. Numbers(m)
  BY <1>2, NumbersTyped DEF Sound
<1>11. m.boots \in Nat /\ m.total \in Nat /\ m.learned \in Nat /\ m.risk \in Nat
  BY <1>10 DEF Numbers
<1>12. PICK g : g = fabric'
  OBVIOUS
<1>13. CarriersSound(g, enabled) /\ OfKind(g, "model") = OfKind(fabric, "model")
  BY <1>1, <1>12, TickKeeps
<1>14. Covers(u, g)
  <2>1. SUFFICES ASSUME NEW c \in OfKind(g, "model"), Readable(c) PROVE AtMost(Header(c.blob), u)
    BY DEF Covers
  <2>2. c \in OfKind(fabric, "model") /\ Carried(c.blob, enabled)
    BY <1>13, <2>1, ModelCarrier
  <2>3. AtMost(Header(c.blob), m)
    BY <1>2, <2>1, <2>2 DEF Covers
  <2>4. Header(c.blob).total \in Nat /\ Header(c.blob).boots \in Nat /\ Header(c.blob).learned \in Nat
    BY <2>1, <2>2, CarrierRead DEF Readable
  <2>5. QED
    BY ONLY <1>9, <1>11, <2>3, <2>4 DEF AtMost
<1>15. SessionSound'
  BY <1>1, <1>8, <1>9, <1>12, <1>14 DEF SessionSound
<1>16. WritePending'
  BY <1>1 DEF WritePending
<1>17. RiskCovered'
  <2>1. SavedIn(disk) \in Nat
    BY <1>1, SavedCovers
  <2>2. u.risk > Threshold \/ u.learned <= SavedIn(disk) + u.risk
    BY ONLY <1>2, <1>9, <1>11, <2>1
  <2>3. QED
    BY <1>1, <1>8, <2>2 DEF RiskCovered
<1>18. QED
  BY <1>1, <1>12, <1>13, <1>15, <1>16, <1>17 DEF LoopInv, Loops

LEMMA PersistKeeps == ASSUME ModelParameters, LoopInv, Persist PROVE LoopInv'
<1>1. pc \in Loops /\ enabled' = enabled /\ disk' = disk /\ model' = model
  BY DEF Persist, Loops
<1>2. CASE ~ (enabled /\ ShouldPersist(model))
  <2>1. fabric' = fabric /\ pc' \in Loops \ {"write"}
    BY <1>2 DEF Persist, Goto, Loops
  <2>2. QED
    BY <1>1, <2>1, Waits
<1>3. CASE enabled /\ ShouldPersist(model)
  <2>1. PICK m, f : m = model /\ f = fabric
    OBVIOUS
  <2>2. Sound(m, enabled) /\ enabled \in BOOLEAN /\ CarriersSound(f, enabled) /\ Numbers(m) /\ Covers(m, f)
    BY <1>1, <2>1, Sessions DEF LoopInv, SessionSound
  <2>3. m.risk > Threshold
    <3>1. m.persistence.threshold = Threshold
      BY ONLY <2>2 DEF Numbers
    <3>2. QED
      BY <1>3, <2>1, <3>1 DEF ShouldPersist
  <2>4. DriverBlob(EncodeDiscrete(m.devices[1].model))
    <3>1. m.devices # <<>>
      BY <1>3, <2>2 DEF Sound, Accounts, StepsFit
    <3>2. m.devices \in DeviceLists
      BY <2>2, Typed DEF Sound
    <3>3. m.devices[1].model \in Discretes(<<5, 5, 5>>)
      BY <3>1, <3>2 DEF DeviceLists, StorageAgents
    <3>4. QED
      BY <3>3, DimsTyped DEF DriverBlob
  <2>5. PICK h : h = Create(f, "model", Encode(m))
    OBVIOUS
  <2>6. CarriersSound(h, enabled) /\ Covers(m, h) /\ \E c \in OfKind(h, "model") : c.blob = Encode(m)
    BY ONLY ModelParameters, <2>2, <2>3, <2>5, ModelCreated
  <2>7. PICK g : g = fabric'
    OBVIOUS
  <2>8. g = Create(h, "storage", EncodeDiscrete(m.devices[1].model))
    BY <1>3, <2>1, <2>5, <2>7 DEF Persist
  <2>9. CarriersSound(g, enabled) /\ OfKind(g, "model") = OfKind(h, "model")
    BY ONLY <2>4, <2>6, <2>8, DriverCreated
  <2>10. Covers(m, g) /\ \E c \in OfKind(g, "model") : c.blob = Encode(m)
    BY ONLY <2>6, <2>9 DEF Covers
  <2>11. pc' = "write"
    BY <1>3 DEF Persist, Goto
  <2>12. SessionSound'
    BY <1>1, <2>1, <2>2, <2>7, <2>10 DEF SessionSound
  <2>13. WritePending'
    BY <1>1, <1>3, <2>1, <2>3, <2>7, <2>10 DEF WritePending
  <2>14. RiskCovered'
    BY <1>1, <2>1, <2>3 DEF RiskCovered
  <2>15. QED
    BY <1>1, <2>7, <2>9, <2>11, <2>12, <2>13, <2>14 DEF LoopInv, Loops
<1>4. QED
  BY <1>2, <1>3

LEMMA WriteKeeps == ASSUME ModelParameters, LoopInv, Write PROVE LoopInv'
<1>1. /\ pc = "write" /\ pc \in Loops /\ enabled' = enabled /\ fabric' = fabric
      /\ pc' = "park"
  BY DEF Write, Goto, Loops
<1>2. PICK m, u, f : m = model /\ u = model' /\ f = fabric
  OBVIOUS
<1>3. /\ Sound(m, enabled) /\ enabled \in BOOLEAN /\ CarriersSound(f, enabled) /\ Numbers(m) /\ Covers(m, f)
      /\ CarriersSound(disk, enabled)
  BY <1>1, <1>2, Sessions DEF LoopInv, SessionSound
<1>4. PICK c \in OfKind(f, "model") : c.blob = Encode(m)
  BY <1>1, <1>2 DEF LoopInv, WritePending
<1>5. m.risk > Threshold
  BY <1>1, <1>2 DEF LoopInv, WritePending
<1>6. \E ok \in BOOLEAN : /\ u = Persisted(m, ok)
                          /\ (ok /\ disk' = f) \/ (~ok /\ disk' \in {disk, NoSnapshot})
  <2>1. CASE disk' = fabric /\ SubmitEvent(Saved(Observed(model, TRUE)), "persistOk")
    <3>1. u = Persisted(m, TRUE)
      BY <1>2, <2>1 DEF SubmitEvent, Persisted
    <3>2. QED
      BY <1>2, <2>1, <3>1
  <2>2. CASE disk' \in Damaged /\ SubmitEvent(KeptOnFailure(Observed(model, FALSE)), "failure")
    <3>1. u = Persisted(m, FALSE)
      BY <1>2, <2>2 DEF SubmitEvent, Persisted, KeptOnFailure
    <3>2. QED
      BY <2>2, <3>1 DEF Damaged
  <2>3. QED
    BY <2>1, <2>2 DEF Write
<1>7. PICK ok \in BOOLEAN : /\ u = Persisted(m, ok)
                            /\ (ok /\ disk' = f) \/ (~ok /\ disk' \in {disk, NoSnapshot})
  BY <1>6
<1>8. /\ Sound(u, enabled) /\ u.boots = m.boots /\ u.total = m.total
      /\ u.learned = m.learned /\ u.risk = IF ok THEN 0 ELSE m.risk
  BY ONLY <1>3, <1>7, PersistKept
<1>9. CarriersSound(disk', enabled)
  BY <1>3, <1>7, NoneCarried
<1>10. Covers(u, f)
  BY ONLY <1>3, <1>8 DEF Covers, AtMost
<1>11. u.risk > Threshold \/ u.learned <= SavedIn(disk') + u.risk
  <2>1. CASE ok
    <3>1. /\ Header(c.blob) # Unreadable /\ Header(c.blob).learned = m.learned /\ m.learned \in Nat
      BY <1>3, <1>4, HeaderRead
    <3>2. m.learned <= SavedIn(f) /\ SavedIn(f) \in Nat
      BY <1>3, <1>4, <3>1, SavedCovers DEF Readable
    <3>3. disk' = f /\ u.risk = 0 /\ u.learned = m.learned
      BY <1>7, <1>8, <2>1
    <3>4. QED
      BY <3>1, <3>2, <3>3
  <2>2. CASE ~ok
    BY <1>5, <1>8, <2>2
  <2>3. QED
    BY <2>1, <2>2
<1>12. SessionSound'
  BY <1>1, <1>2, <1>8, <1>10 DEF SessionSound
<1>13. WritePending'
  BY <1>1 DEF WritePending
<1>14. RiskCovered'
  BY <1>1, <1>2, <1>11 DEF RiskCovered
<1>15. QED
  BY <1>1, <1>2, <1>3, <1>9, <1>12, <1>13, <1>14 DEF LoopInv, Loops

LEMMA PowerKeeps == ASSUME LoopInv, PowerFails PROVE LoopInv'
<1>1. /\ enabled' = enabled /\ pc' = "off" /\ fabric' = NoSnapshot
      /\ disk' \in {fabric, disk, NoSnapshot}
      /\ enabled \in BOOLEAN /\ CarriersSound(disk, enabled) /\ CarriersSound(fabric, enabled)
  BY DEF PowerFails, Goto, LoopInv, Damaged
<1>2. CarriersSound(disk', enabled) /\ CarriersSound(fabric', enabled)
  BY <1>1, NoneCarried
<1>3. QED
  BY <1>1, <1>2, Outside

LEMMA LoopKept ==
  ASSUME ModelParameters, LoopParameters, LoopInv, [Next]_vars
  PROVE  LoopInv'
<1>1. CASE UNCHANGED vars
  BY <1>1 DEF vars, LoopInv, SessionSound, WritePending, RiskCovered
<1>2. CASE Restore
  BY <1>2, RestoreKeeps
<1>3. CASE FreshGenesis
  BY <1>3, FreshGenesisKeeps
<1>4. CASE BootPersist
  BY <1>4, BootPersistKeeps
<1>5. CASE Nucleate
  BY <1>5, NucleateKeeps
<1>6. CASE NoLine \/ NotDue
  <2>1. /\ pc \in Loops /\ enabled' = enabled /\ disk' = disk
        /\ pc' \in Loops \ {"write"} /\ fabric' = fabric /\ model' = model
    BY <1>6 DEF NoLine, NotDue, Goto, Loops
  <2>2. QED
    BY <2>1, Waits
<1>7. ASSUME NEW l \in Lines, NEW s \in Surprises.operator, NEW n \in AnswerLines(l),
             Submit(l, s, n)
      PROVE  LoopInv'
  BY <1>7, SubmitKeeps
<1>8. ASSUME NEW a \in Actions, NEW s \in Surprises.devices, NEW r \in ResultsOf(a, Results), AgentStep(a, r, s)
      PROVE  LoopInv'
  BY <1>8, AgentStepKeeps
<1>9. CASE Meta
  BY <1>9, MetaKeeps
<1>10. CASE Persist
  BY <1>10, PersistKeeps
<1>11. CASE Write
  BY <1>11, WriteKeeps
<1>12. CASE Park
  BY <1>12, ParkKeeps
<1>13. CASE PowerFails
  BY <1>13, PowerKeeps
<1>14. CASE Render
  BY <1>14, RenderKeeps
<1>15. QED
  BY <1>1, <1>2, <1>3, <1>4, <1>5, <1>6, <1>7, <1>8, <1>9, <1>10, <1>11, <1>12, <1>13, <1>14
     DEF Next, Kernel

LEMMA LoopSound == ASSUME ModelParameters, LoopParameters PROVE Spec => []LoopInv
<1>1. Init => LoopInv
  BY InitInv
<1>2. LoopInv /\ [Next]_vars => LoopInv'
  BY LoopKept
<1>3. QED
  BY <1>1, <1>2, PTL DEF Spec

LEMMA KeptInv == ASSUME ModelParameters, LoopInv PROVE LearningKept
<1>1. ASSUME enabled, Looping
      PROVE  model.risk > Threshold \/ model.learned <= SavedSurprise + model.risk
  <2>1. pc \in Loops
    BY <1>1 DEF Looping, Loops
  <2>2. SavedSurprise = SavedIn(disk)
    BY DEF SavedSurprise, SavedIn
  <2>3. QED
    BY <1>1, <2>1, <2>2 DEF LoopInv, RiskCovered
<1>2. ASSUME Looping, NEW h \in ModelsIn(fabric)
      PROVE  h.total <= model.total /\ h.boots <= model.boots
  <2>1. PICK c \in OfKind(fabric, "model") : h = Header(c.blob) /\ h # Unreadable
    BY <1>2 DEF ModelsIn
  <2>2. Covers(model, fabric)
    BY <1>2 DEF LoopInv, SessionSound, Looping, Loops
  <2>3. QED
    BY <2>1, <2>2 DEF Covers, Readable, AtMost
<1>3. QED
  BY <1>1, <1>2 DEF LearningKept, AtRiskCovered, NoneKnowsMore

LEMMA AccountsInv == ASSUME LoopInv PROVE CausalAccounts
<1>1. SUFFICES ASSUME Looping
               PROVE  GraphAgrees /\ CountersAgree /\ PersistsAgree /\ HistoryAgrees /\ EventsAgree
  BY DEF CausalAccounts
<1>2. Accounts(model, enabled)
  BY <1>1 DEF LoopInv, SessionSound, Looping, Loops, Sound
<1>3. GraphAgrees
  <2>1. Total(Seen(model.graph.edges)) = model.total
        /\ Total(Seen(model.graph.nodes)) = 2 * model.total
    BY <1>2 DEF Accounts, GraphFits
  <2>2. Observations = Total(Seen(model.graph.edges)) /\ Interned = Total(Seen(model.graph.nodes))
    BY DEF Observations, Interned, Each, Seen
  <2>3. QED
    BY <2>1, <2>2 DEF GraphAgrees
<1>4. CountersAgree
  BY <1>2 DEF CountersAgree, Accounts, CountersFit, StepsFit
<1>5. PersistsAgree
  BY <1>2 DEF PersistsAgree, Accounts, PersistsFit
<1>6. HistoryAgrees
  BY <1>2 DEF HistoryAgrees, Accounts, HistoryFits
<1>7. EventsAgree
  <2>1. PICK z : z = IF enabled THEN 3 * model.boots ELSE 2 * model.boots
    OBVIOUS
  <2>2. PICK k \in Answered(model.operator.intents) :
          model.operator.model.seen = z + 2 * model.operator.intents + k + model.counts.updated
                                      + model.meta.assessments + model.persistence.model.seen
    BY <1>2, <2>1 DEF Accounts, EventsFit
  <2>3. Len(BootLog) * model.boots = z
    BY <2>1 DEF BootLog
  <2>4. Numbers(model)
    BY <1>1, NumbersTyped DEF LoopInv, SessionSound, Looping, Loops, Sound
  <2>5. /\ z \in Nat /\ model.operator.intents \in Nat /\ model.counts.updated \in Nat
        /\ model.meta.assessments \in Nat /\ model.persistence.model.seen \in Nat /\ k \in Int
    <3>1. model.boots \in Nat
      BY <2>4 DEF Numbers
    <3>2. z \in Nat
      BY ONLY <2>1, <3>1
    <3>3. k \in Int
      BY ONLY <2>2, AnsweredLines
    <3>4. QED
      BY ONLY <2>4, <3>2, <3>3 DEF Numbers
  <2>6. model.operator.model.seen
          - (Len(BootLog) * model.boots + 2 * model.operator.intents + model.counts.updated
             + model.meta.assessments + model.persistence.model.seen) = k
    <3>1. PICK seen, i, p, a, q :
            /\ seen = model.operator.model.seen /\ i = model.operator.intents
            /\ p = model.counts.updated /\ a = model.meta.assessments
            /\ q = model.persistence.model.seen
      OBVIOUS
    <3>2. seen = z + 2 * i + k + p + a + q
      BY ONLY <2>2, <3>1
    <3>3. z \in Nat /\ i \in Nat /\ p \in Nat /\ a \in Nat /\ q \in Nat /\ k \in Int
      BY ONLY <2>5, <3>1
    <3>4. seen - (z + 2 * i + p + a + q) = k
      BY ONLY <3>2, <3>3
    <3>5. QED
      BY ONLY <2>3, <3>1, <3>4
  <2>7. QED
    BY <2>2, <2>6 DEF EventsAgree, Answered
<1>8. QED
  BY <1>3, <1>4, <1>5, <1>6, <1>7

\* What was learned is in the living model, and the gate knows what of it is at
\* risk, over failed persists, damaged snapshots and power failures: for every
\* threshold, every surprise of an observation, and any number of sessions.
THEOREM LearningIsKept == Spec => []LearningKept
<1>1. LoopInv => LearningKept
  BY ModelAssumption, KeptInv
<1>2. Spec => []LoopInv
  BY ModelAssumption, LoopAssumption, LoopSound
<1>3. QED
  BY <1>1, <1>2, PTL

\* The causal graph, the counters of the regions, the windows and the log of the
\* operator agree, through every encoding of the model and every restore of it.
THEOREM AccountsAreCausal == Spec => []CausalAccounts
<1>1. LoopInv => CausalAccounts
  BY AccountsInv
<1>2. Spec => []LoopInv
  BY ModelAssumption, LoopAssumption, LoopSound
<1>3. QED
  BY <1>1, <1>2, PTL
=============================================================================
