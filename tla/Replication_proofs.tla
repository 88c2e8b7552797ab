-------------------------- MODULE Replication_proofs --------------------------
(***************************************************************************)
(* Theorems of Replication, for any replicas, nodes and bounds.            *)
(***************************************************************************)
EXTENDS Replication, SequenceTheorems, TLAPS

-----------------------------------------------------------------------------
(***************************************************************************)
(* Types.  A request is answered with the copy found when it is read, so   *)
(* that answers are typed needs that a node, once there, stays there.      *)
(***************************************************************************)
AskedOfHolders ==
  \A s \in Replicas : \A i \in DOMAIN inbox[s] :
    inbox[s][i].kind = "need" => Has(s, inbox[s][i].node)

Typed == TypeOK /\ AskedOfHolders

\* Neither a node nor an entry can be taken for its absence.
LEMMA AbsentIsNone == Absent \notin Copies /\ Absent \notin Entries
<1>1. DOMAIN Absent = {"version"}
  BY DEF Absent
<1>2. \A c \in Copies : "text" \in DOMAIN c
  BY DEF Copies
<1>3. \A e \in Entries : "clock" \in DOMAIN e
  BY DEF Entries
<1>4. QED
  BY <1>1, <1>2, <1>3

LEMMA MessageFields ==
  ASSUME NEW m \in Messages
  PROVE  /\ m.node \in Nodes
         /\ m.kind = "need" => m.from \in Replicas
         /\ m.kind = "node" => m.copy \in Copies /\ m.clock \in Clocks
BY DEF Messages

LEMMA MessagesOfInbox ==
  ASSUME TypeOK, NEW s \in Replicas, NEW i \in DOMAIN inbox[s]
  PROVE  inbox[s][i] \in Messages
<1>1. inbox[s] \in Seq(Messages)
  BY DEF TypeOK
<1>2. QED
  BY <1>1, LenProperties, ElementOfSeq

\* The message that a replica reads, and what it leaves in its inbox.
LEMMA HeadMessage ==
  ASSUME TypeOK, NEW r \in Replicas, NEW kind, Front(r, kind)
  PROVE  /\ Head(inbox[r]) \in Messages /\ Head(inbox[r]).kind = kind
         /\ 1 \in DOMAIN inbox[r] /\ Head(inbox[r]) = inbox[r][1]
         /\ Tail(inbox[r]) \in Seq(Messages)
         /\ Rest(r) \in [Replicas -> Seq(Messages)]
         /\ \A s \in Replicas : \A i \in DOMAIN Rest(r)[s] :
              \E j \in DOMAIN inbox[s] : Rest(r)[s][i] = inbox[s][j]
<1>1. inbox[r] \in Seq(Messages) /\ inbox[r] # <<>> /\ Head(inbox[r]).kind = kind
  BY DEF TypeOK, Front
<1>2. /\ Len(inbox[r]) \in Nat \ {0} /\ DOMAIN inbox[r] = 1..Len(inbox[r])
      /\ Head(inbox[r]) = inbox[r][1] /\ Tail(inbox[r]) \in Seq(Messages)
      /\ DOMAIN Tail(inbox[r]) = 1..(Len(inbox[r]) - 1)
      /\ \A i \in 1..(Len(inbox[r]) - 1) : Tail(inbox[r])[i] = inbox[r][i + 1]
  BY <1>1, HeadTailProperties, LenProperties, EmptySeq
<1>3. Head(inbox[r]) \in Messages
  BY <1>1, <1>2, ElementOfSeq
<1>4. Rest(r) = [inbox EXCEPT ![r] = Tail(inbox[r])]
  BY DEF Rest
<1>5. \A s \in Replicas : s # r => Rest(r)[s] = inbox[s]
  BY <1>4 DEF TypeOK
<1>6. Rest(r)[r] = Tail(inbox[r])
  BY <1>4 DEF TypeOK
<1>7. \A i \in DOMAIN Tail(inbox[r]) : \E j \in DOMAIN inbox[r] : Tail(inbox[r])[i] = inbox[r][j]
  <2>1. \A i \in 1..(Len(inbox[r]) - 1) : i + 1 \in 1..Len(inbox[r])
    BY <1>2
  <2>2. QED
    BY <1>2, <2>1
<1>8. \A s \in Replicas : \A i \in DOMAIN Rest(r)[s] :
        \E j \in DOMAIN inbox[s] : Rest(r)[s][i] = inbox[s][j]
  <2>1. ASSUME NEW s \in Replicas, NEW i \in DOMAIN Rest(r)[s]
        PROVE  \E j \in DOMAIN inbox[s] : Rest(r)[s][i] = inbox[s][j]
    <3>1. CASE s = r
      BY <1>6, <1>7, <2>1, <3>1
    <3>2. CASE s # r
      <4>1. Rest(r)[s] = inbox[s]
        BY <1>5, <3>2
      <4>2. QED
        BY <2>1, <4>1
    <3>3. QED
      BY <3>1, <3>2
  <2>2. QED
    BY <2>1
<1>9. Rest(r) \in [Replicas -> Seq(Messages)]
  <2>1. inbox \in [Replicas -> Seq(Messages)] /\ Tail(inbox[r]) \in Seq(Messages)
    BY <1>2 DEF TypeOK
  <2>2. QED
    BY <1>4, <2>1
<1>10. QED
  BY <1>1, <1>2, <1>3, <1>8, <1>9

\* Messages after a send are those before it and the one that was sent.
LEMMA SendElements ==
  ASSUME NEW box \in [Replicas -> Seq(Messages)], NEW to \in Replicas, NEW msg \in Messages,
         Send(to, box, msg)
  PROVE  /\ inbox' \in [Replicas -> Seq(Messages)]
         /\ \A s \in Replicas : \A i \in DOMAIN inbox'[s] :
              \/ i \in DOMAIN box[s] /\ inbox'[s][i] = box[s][i]
              \/ s = to /\ inbox'[s][i] = msg
<1>1. box[to] \in Seq(Messages)
  OBVIOUS
<1>2. /\ Append(box[to], msg) \in Seq(Messages) /\ Len(box[to]) \in Nat
      /\ DOMAIN box[to] = 1..Len(box[to])
      /\ DOMAIN Append(box[to], msg) = 1..(Len(box[to]) + 1)
      /\ \A i \in 1..Len(box[to]) : Append(box[to], msg)[i] = box[to][i]
      /\ Append(box[to], msg)[Len(box[to]) + 1] = msg
  BY <1>1, AppendProperties, LenProperties
<1>3. inbox' = [box EXCEPT ![to] = Append(box[to], msg)]
  BY DEF Send
<1>4. inbox' \in [Replicas -> Seq(Messages)]
  BY <1>2, <1>3
<1>5. \A s \in Replicas : s # to => inbox'[s] = box[s]
  BY <1>3
<1>6. inbox'[to] = Append(box[to], msg)
  BY <1>3
<1>7. \A i \in DOMAIN inbox'[to] :
        \/ i \in DOMAIN box[to] /\ inbox'[to][i] = box[to][i]
        \/ inbox'[to][i] = msg
  BY <1>2, <1>6
<1>8. QED
  BY <1>4, <1>5, <1>7

\* The clock after an event of its replica.
LEMMA TickClock ==
  ASSUME NEW r \in Replicas, NEW c \in Clocks
  PROVE  /\ Tick(c, r) \in Clocks /\ Tick(c, r)[r] = c[r] + 1
         /\ \A s \in Replicas : s # r => Tick(c, r)[s] = c[s]
BY DEF Tick, Clocks

LEMMA MergeClock ==
  ASSUME NEW c \in Clocks, NEW d \in Clocks
  PROVE  /\ Merge(c, d) \in Clocks
         /\ \A s \in Replicas : /\ Merge(c, d)[s] \in {c[s], d[s]}
                                /\ c[s] <= Merge(c, d)[s] /\ d[s] <= Merge(c, d)[s]
BY DEF Merge, Clocks

(***************************************************************************)
(* What each operation does, on replica r and node n.                      *)
(***************************************************************************)
Installs(r, n, x, c) == Store(r, n, x) /\ Record(r, n, x.version, c)

Writes(r, n, x) ==
  /\ Installs(r, n, x, Tick(clock[r], r))
  /\ clock' = [clock EXCEPT ![r] = Tick(clock[r], r)]
  /\ UNCHANGED <<log, inbox>>

LEMMA Installed ==
  ASSUME TypeOK, NEW r \in Replicas, NEW n \in Nodes, NEW x \in Copies, NEW c \in Clocks,
         Installs(r, n, x, c)
  PROVE  /\ copy' \in [Replicas -> [Nodes -> Copies \cup {Absent}]]
         /\ known' \in [Replicas -> [Nodes -> Entries \cup {Absent}]]
         /\ copy'[r][n] = x /\ known'[r][n] = [version |-> x.version, clock |-> c]
         /\ Has(r, n)' /\ known'[r][n] # Absent
         /\ \A s \in Replicas, m \in Nodes : ~ (s = r /\ m = n) =>
              copy'[s][m] = copy[s][m] /\ known'[s][m] = known[s][m] /\ (Has(s, m)' <=> Has(s, m))
<1> DEFINE e == [version |-> x.version, clock |-> c]
<1>1. e \in Entries
  BY DEF Copies, Entries
<1>2. copy' = [copy EXCEPT ![r][n] = x] /\ known' = [known EXCEPT ![r][n] = e]
  BY DEF Installs, Store, Record
<1> HIDE DEF e
<1>3. /\ copy' \in [Replicas -> [Nodes -> Copies \cup {Absent}]]
      /\ known' \in [Replicas -> [Nodes -> Entries \cup {Absent}]]
  BY <1>1, <1>2 DEF TypeOK
<1>4. /\ copy'[r][n] = x /\ known'[r][n] = e
      /\ \A s \in Replicas, m \in Nodes : ~ (s = r /\ m = n) =>
           copy'[s][m] = copy[s][m] /\ known'[s][m] = known[s][m]
  BY <1>2 DEF TypeOK
<1>5. x # Absent /\ e # Absent
  BY <1>1, AbsentIsNone
<1>6. QED
  BY <1>3, <1>4, <1>5 DEF Has, e

LEMMA LocalWrite ==
  ASSUME TypeOK, NEW r \in Replicas, NEW n \in Nodes, AddNode(r, n) \/ MutateNode(r, n)
  PROVE  \E x \in Copies :
           /\ Writes(r, n, x)
           /\ Has(r, n) => x.version = copy[r][n].version + 1
           /\ writes' \in [Replicas -> Nat]
<1>1. Tick(clock[r], r) \in Clocks /\ Text(r) \in Replicas \X Nat
  BY TickClock DEF TypeOK, Text
<1>2. ASSUME NEW x \in Copies, Write(r, n, x)
      PROVE  Writes(r, n, x) /\ writes' \in [Replicas -> Nat]
  <2>1. clock' = [clock EXCEPT ![r] = Tick(clock[r], r)]
    BY <1>2 DEF Write
  <2>2. clock'[r] = Tick(clock[r], r)
    BY <1>1, <2>1 DEF TypeOK
  <2>3. writes' \in [Replicas -> Nat]
    BY <1>2 DEF Write, TypeOK
  <2>4. QED
    BY <1>2, <2>1, <2>2, <2>3 DEF Write, Writes, Installs, Record
<1>3. CASE AddNode(r, n)
  <2>1. ~ Has(r, n)
    BY <1>3 DEF AddNode
  <2>2. [version |-> 0, text |-> Text(r), hard |-> FALSE] \in Copies
    BY <1>1 DEF Copies
  <2>3. QED
    BY <1>2, <1>3, <2>1, <2>2 DEF AddNode
<1>4. CASE MutateNode(r, n)
  <2>1. PICK violated \in {FALSE, MayViolate} :
          Write(r, n, [version |-> copy[r][n].version + 1, text |-> Text(r), hard |-> violated])
    BY <1>4 DEF MutateNode
  <2>2. copy[r][n] \in Copies
    BY <1>4 DEF MutateNode, Has, TypeOK
  <2>3. copy[r][n].version + 1 \in Nat
    BY <2>2 DEF Copies
  <2>4. violated \in BOOLEAN
    BY ReplicationAssumption, Zenon
  <2>5. [version |-> copy[r][n].version + 1, text |-> Text(r), hard |-> violated] \in Copies
    BY <1>1, <2>3, <2>4 DEF Copies
  <2>6. QED
    BY <1>2, <2>1, <2>5
<1>5. QED
  BY <1>3, <1>4

\* A node stays where it is, and is stored with an entry.
HoldersKeep ==
  \A r \in Replicas, n \in Nodes :
    /\ Has(r, n) => Has(r, n)'
    /\ Has(r, n)' <=> known'[r][n] # Absent

LEMMA ElsewhereKept ==
  ASSUME TypeOK, NEW r \in Replicas, NEW n \in Nodes, NEW x \in Copies, NEW c \in Clocks,
         Installs(r, n, x, c), NEW s \in Replicas, NEW m \in Nodes, ~ (s = r /\ m = n)
  PROVE  copy'[s][m] = copy[s][m] /\ known'[s][m] = known[s][m] /\ (Has(s, m)' <=> Has(s, m))
<1>1. \A t \in Replicas, k \in Nodes : ~ (t = r /\ k = n) =>
        copy'[t][k] = copy[t][k] /\ known'[t][k] = known[t][k] /\ (Has(t, k)' <=> Has(t, k))
  BY ZenonT(60), Installed
<1>2. QED
  BY <1>1, Zenon

LEMMA InstallKeeps ==
  ASSUME TypeOK, NEW r \in Replicas, NEW n \in Nodes, NEW x \in Copies, NEW c \in Clocks,
         Installs(r, n, x, c)
  PROVE  HoldersKeep
<1>1. /\ Has(r, n)' /\ known'[r][n] # Absent
      /\ \A s \in Replicas, m \in Nodes : ~ (s = r /\ m = n) =>
           copy'[s][m] = copy[s][m] /\ known'[s][m] = known[s][m] /\ (Has(s, m)' <=> Has(s, m))
  BY ZenonT(60), Installed
<1>2. \A s \in Replicas, m \in Nodes : Has(s, m) <=> known[s][m] # Absent
  BY DEF TypeOK
<1>3. ASSUME NEW s \in Replicas, NEW m \in Nodes
      PROVE  (Has(s, m) => Has(s, m)') /\ (Has(s, m)' <=> known'[s][m] # Absent)
  <2>1. CASE s = r /\ m = n
    BY <1>1, <2>1
  <2>2. CASE ~ (s = r /\ m = n)
    BY <1>1, <1>2, <2>2
  <2>3. QED
    BY <2>1, <2>2
<1>4. QED
  BY <1>3 DEF HoldersKeep

\* The clock after a transfer was taken is later than it, and than the one before.
LEMMA TakeShape ==
  ASSUME TypeOK, NEW r \in Replicas, Take(r)
  PROVE  /\ inbox' = Rest(r) /\ UNCHANGED writes
         /\ clock' = [clock EXCEPT ![r] = Join(r, Head(inbox[r]).clock)]
         /\ Join(r, Head(inbox[r]).clock) \in Clocks
         /\ \A s \in Replicas :
              /\ clock[r][s] <= Join(r, Head(inbox[r]).clock)[s]
              /\ Head(inbox[r]).clock[s] <= Join(r, Head(inbox[r]).clock)[s]
              /\ s # r => Join(r, Head(inbox[r]).clock)[s]
                            \in {clock[r][s], Head(inbox[r]).clock[s]}
         /\ clock[r][r] < Join(r, Head(inbox[r]).clock)[r]
<1>1. Head(inbox[r]).clock \in Clocks /\ clock[r] \in Clocks
  BY HeadMessage, MessageFields DEF Take, TypeOK
<1> DEFINE d == Head(inbox[r]).clock
           m == Merge(clock[r], d)
<1>2. /\ m \in Clocks
      /\ \A s \in Replicas : /\ m[s] \in {clock[r][s], d[s]}
                             /\ clock[r][s] <= m[s] /\ d[s] <= m[s]
  BY <1>1, MergeClock
<1>3. /\ Tick(m, r) \in Clocks /\ Tick(m, r)[r] = m[r] + 1
      /\ \A s \in Replicas : s # r => Tick(m, r)[s] = m[s]
  BY <1>2, TickClock
<1>4. Join(r, d) = Tick(m, r)
  BY DEF Join
<1>5. \A s \in Replicas : m[s] \in Nat /\ d[s] \in Nat /\ clock[r][s] \in Nat
  BY <1>1, <1>2 DEF Clocks
<1> HIDE DEF m, d
<1>6. /\ \A s \in Replicas : /\ clock[r][s] <= Join(r, d)[s] /\ d[s] <= Join(r, d)[s]
                             /\ s # r => Join(r, d)[s] \in {clock[r][s], d[s]}
      /\ clock[r][r] < Join(r, d)[r]
  BY <1>2, <1>3, <1>4, <1>5
<1>7. QED
  BY <1>3, <1>4, <1>6 DEF Take, d

\* The outcomes of receive_node.
Branches(r, n, x) ==
  /\ Store(r, n, x)
  /\ log' = [log EXCEPT ![r] = Append(@, [node |-> n, strategy |-> "BranchAndSurface"])]
  /\ UNCHANGED known

Resolves(r, n, x, c) ==
  /\ \E strategy \in {"CrdtMerge", "LastWriterWins"} :
       log' = [log EXCEPT ![r] = Append(@, [node |-> n, strategy |-> strategy])]
  /\ Installs(r, n, x, c)

LEMMA Transfer ==
  ASSUME Typed, NEW r \in Replicas, Accept(r) \/ AlreadyHave(r) \/ Conflict(r)
  PROVE  LET msg == Head(inbox[r])
             n == msg.node
         IN /\ Take(r) /\ msg \in Messages /\ msg.kind = "node"
            /\ \/ /\ Installs(r, n, msg.copy, msg.clock) /\ UNCHANGED log
                  /\ Has(r, n) => HappenedBefore(LocalClock(r, n), msg.clock)
               \/ UNCHANGED <<copy, known, log>>
               \/ Has(r, n) /\ Branches(r, n, msg.copy)
               \/ /\ Has(r, n)
                  /\ Resolves(r, n, Winner(copy[r][n], msg.copy), Join(r, msg.clock))
<1> DEFINE msg == Head(inbox[r])
           n == msg.node
<1>1. Take(r)
  BY DEF Accept, AlreadyHave, Conflict
<1>2. TypeOK /\ msg \in Messages /\ msg.kind = "node"
  BY <1>1, HeadMessage DEF Take, Typed
<1>3. CASE Accept(r)
  BY <1>1, <1>2, <1>3 DEF Accept, Installs
<1>4. CASE AlreadyHave(r)
  BY <1>1, <1>2, <1>4 DEF AlreadyHave
<1>5. CASE Conflict(r)
  <2> DEFINE strategy == Strategy(copy[r][n], msg.copy)
             winner == Winner(copy[r][n], msg.copy)
  <2>1. strategy \in {"BranchAndSurface", "CrdtMerge", "LastWriterWins"}
    BY DEF Strategy
  <2>2. clock'[r] = Join(r, msg.clock)
    BY <1>1, <1>2, TakeShape DEF TypeOK
  <2>3. /\ Has(r, n)
        /\ log' = [log EXCEPT ![r] = Append(@, [node |-> n, strategy |-> strategy])]
        /\ IF strategy = "BranchAndSurface"
           THEN Store(r, n, msg.copy) /\ UNCHANGED known
           ELSE Store(r, n, winner) /\ Record(r, n, winner.version, clock'[r])
    BY <1>5 DEF Conflict
  <2> HIDE DEF strategy
  <2>4. CASE strategy = "BranchAndSurface"
    BY SMTT(60), <1>1, <1>2, <2>3, <2>4 DEF Branches
  <2>5. CASE strategy # "BranchAndSurface"
    BY <1>1, <1>2, <2>1, <2>2, <2>3, <2>5 DEF Resolves, Installs
  <2>6. QED
    BY <2>4, <2>5
<1>6. QED
  BY <1>3, <1>4, <1>5

LEMMA WinnerShape ==
  ASSUME NEW local \in Copies, NEW remote \in Copies
  PROVE  /\ Winner(local, remote) \in Copies
         /\ Winner(local, remote).version >= local.version
         /\ Winner(local, remote).version \in Nat /\ local.version \in Nat
BY DEF Winner, Copies

\* Requests and answers.
LEMMA AskShape ==
  ASSUME Typed, NEW r \in Replicas, NEW s \in Replicas, NEW n \in Nodes, Request(r, s, n)
  PROVE  LET msg == [kind |-> "need", from |-> r, node |-> n]
         IN /\ msg \in Messages /\ Send(s, inbox, msg) /\ Has(s, n)
            /\ UNCHANGED <<copy, clock, known, log, writes>>
<1>1. [kind |-> "need", from |-> r, node |-> n] \in Messages
  BY DEF Messages
<1>2. Has(s, n)
  BY DEF Request, Needs, Typed, TypeOK
<1>3. QED
  BY <1>1, <1>2 DEF Request

LEMMA AnswerShape ==
  ASSUME Typed, NEW r \in Replicas, PackageNode(r)
  PROVE  \E to \in Replicas, n \in Nodes :
           LET msg == [kind |-> "node", node |-> n, copy |-> copy[r][n], clock |-> clock[r]]
           IN /\ msg \in Messages /\ Send(to, Rest(r), msg) /\ Has(r, n)
              /\ UNCHANGED <<copy, clock, known, log, writes>>
<1>1. /\ Head(inbox[r]) \in Messages /\ Head(inbox[r]).kind = "need"
      /\ 1 \in DOMAIN inbox[r] /\ Head(inbox[r]) = inbox[r][1]
  BY HeadMessage DEF PackageNode, Typed
<1>2. PICK to \in Replicas, n \in Nodes : to = Head(inbox[r]).from /\ n = Head(inbox[r]).node
  BY <1>1, MessageFields
<1>3. Has(r, n)
  BY <1>1, <1>2 DEF Typed, AskedOfHolders
<1>4. copy[r][n] \in Copies /\ clock[r] \in Clocks
  BY <1>3 DEF Has, Typed, TypeOK
<1>5. [kind |-> "node", node |-> n, copy |-> copy[r][n], clock |-> clock[r]] \in Messages
  BY <1>4 DEF Messages
<1>6. QED
  BY <1>2, <1>3, <1>5 DEF PackageNode

\* A step of the log: it is extended at its end.
LEMMA LogStep ==
  ASSUME TypeOK, NEW r \in Replicas, NEW e \in Resolutions,
         log' = [log EXCEPT ![r] = Append(@, e)]
  PROVE  /\ log' \in [Replicas -> Seq(Resolutions)]
         /\ \A s \in Replicas : s # r => log'[s] = log[s]
         /\ DOMAIN log[r] \subseteq DOMAIN log'[r]
         /\ \A i \in DOMAIN log[r] : log'[r][i] = log[r][i]
         /\ \E i \in DOMAIN log'[r] \ DOMAIN log[r] : log'[r][i] = e
<1>1. log \in [Replicas -> Seq(Resolutions)] /\ log[r] \in Seq(Resolutions)
  BY DEF TypeOK
<1>2. /\ Append(log[r], e) \in Seq(Resolutions) /\ Len(log[r]) \in Nat
      /\ DOMAIN log[r] = 1..Len(log[r])
      /\ DOMAIN Append(log[r], e) = 1..(Len(log[r]) + 1)
      /\ \A i \in 1..Len(log[r]) : Append(log[r], e)[i] = log[r][i]
      /\ Append(log[r], e)[Len(log[r]) + 1] = e
  BY <1>1, AppendProperties, LenProperties
<1>3. /\ log' \in [Replicas -> Seq(Resolutions)] /\ log'[r] = Append(log[r], e)
      /\ \A s \in Replicas : s # r => log'[s] = log[s]
  BY <1>1, <1>2
<1>4. Len(log[r]) + 1 \in DOMAIN log'[r] \ DOMAIN log[r]
  BY <1>2, <1>3
<1>5. QED
  BY <1>2, <1>3, <1>4

LEMMA Stored ==
  ASSUME TypeOK, NEW r \in Replicas, NEW n \in Nodes, NEW x \in Copies, Store(r, n, x)
  PROVE  /\ copy' \in [Replicas -> [Nodes -> Copies \cup {Absent}]]
         /\ copy'[r][n] = x /\ Has(r, n)'
         /\ \A s \in Replicas, m \in Nodes : ~ (s = r /\ m = n) =>
              copy'[s][m] = copy[s][m] /\ (Has(s, m)' <=> Has(s, m))
<1>1. /\ copy' \in [Replicas -> [Nodes -> Copies \cup {Absent}]]
      /\ copy'[r][n] = x
      /\ \A s \in Replicas, m \in Nodes : ~ (s = r /\ m = n) => copy'[s][m] = copy[s][m]
  BY DEF Store, TypeOK
<1>2. QED
  BY <1>1, AbsentIsNone DEF Has

LEMMA TransferTyped ==
  ASSUME Typed, NEW r \in Replicas, Accept(r) \/ AlreadyHave(r) \/ Conflict(r)
  PROVE  TypeOK' /\ HoldersKeep
<1> DEFINE msg == Head(inbox[r])
           n == msg.node
<1>0. TypeOK
  BY DEF Typed
<1>1. /\ Take(r) /\ msg \in Messages /\ msg.kind = "node"
      /\ \/ Installs(r, n, msg.copy, msg.clock) /\ UNCHANGED log
         \/ UNCHANGED <<copy, known, log>>
         \/ Has(r, n) /\ Branches(r, n, msg.copy)
         \/ Has(r, n) /\ Resolves(r, n, Winner(copy[r][n], msg.copy), Join(r, msg.clock))
  BY Transfer
<1>2. n \in Nodes /\ msg.copy \in Copies /\ msg.clock \in Clocks
  BY <1>1, MessageFields
<1>3. Join(r, msg.clock) \in Clocks /\ clock' = [clock EXCEPT ![r] = Join(r, msg.clock)]
      /\ inbox' = Rest(r) /\ UNCHANGED writes
  BY <1>0, <1>1, TakeShape
<1> HIDE DEF msg
<1>4. clock' \in [Replicas -> Clocks] /\ writes' \in [Replicas -> Nat]
  BY <1>0, <1>3 DEF TypeOK
<1>5. inbox' \in [Replicas -> Seq(Messages)]
  BY <1>0, <1>1, <1>3, HeadMessage DEF Take
<1>6. \A s \in Replicas, m \in Nodes : Has(s, m) <=> known[s][m] # Absent
  BY <1>0 DEF TypeOK
<1>7. ASSUME NEW x \in Copies, NEW c \in Clocks, Installs(r, n, x, c)
      PROVE  /\ copy' \in [Replicas -> [Nodes -> Copies \cup {Absent}]]
             /\ known' \in [Replicas -> [Nodes -> Entries \cup {Absent}]]
             /\ HoldersKeep
  BY <1>0, <1>2, <1>7, Installed, InstallKeeps
<1>8. CASE Installs(r, n, msg.copy, msg.clock) /\ UNCHANGED log
  BY <1>0, <1>2, <1>4, <1>5, <1>7, <1>8 DEF TypeOK, HoldersKeep
<1>9. CASE UNCHANGED <<copy, known, log>>
  BY <1>0, <1>4, <1>5, <1>6, <1>9 DEF TypeOK, HoldersKeep, Has
<1>10. CASE Has(r, n) /\ Branches(r, n, msg.copy)
  <2>1. [node |-> n, strategy |-> "BranchAndSurface"] \in Resolutions
    BY <1>2 DEF Resolutions
  <2>2. log' \in [Replicas -> Seq(Resolutions)]
    BY <1>0, <1>10, <2>1, LogStep DEF Branches
  <2>3. copy' \in [Replicas -> [Nodes -> Copies \cup {Absent}]] /\ HoldersKeep
    BY <1>0, <1>2, <1>6, <1>10, Stored DEF Branches, HoldersKeep
  <2>4. QED
    BY <1>0, <1>4, <1>5, <1>10, <2>2, <2>3 DEF Branches, TypeOK, HoldersKeep
<1>11. CASE Has(r, n) /\ Resolves(r, n, Winner(copy[r][n], msg.copy), Join(r, msg.clock))
  <2>1. copy[r][n] \in Copies
    BY <1>0, <1>2, <1>11 DEF TypeOK, Has
  <2>2. Winner(copy[r][n], msg.copy) \in Copies
    BY <1>2, <2>1, WinnerShape
  <2>3. PICK strategy \in {"CrdtMerge", "LastWriterWins"} :
          log' = [log EXCEPT ![r] = Append(@, [node |-> n, strategy |-> strategy])]
    BY <1>11 DEF Resolves
  <2>4. [node |-> n, strategy |-> strategy] \in Resolutions
    BY <1>2 DEF Resolutions
  <2>5. log' \in [Replicas -> Seq(Resolutions)]
    BY <1>0, <2>3, <2>4, LogStep
  <2>6. QED
    BY <1>3, <1>4, <1>5, <1>7, <1>11, <2>2, <2>5 DEF Resolves, TypeOK, HoldersKeep
<1>12. QED
  BY <1>1, <1>8, <1>9, <1>10, <1>11

LEMMA TypedStep ==
  ASSUME Typed, [Next]_vars
  PROVE  Typed' /\ HoldersKeep
<1>0. TypeOK /\ \A s \in Replicas, m \in Nodes : Has(s, m) <=> known[s][m] # Absent
  BY DEF Typed, TypeOK
<1>1. ASSUME NEW r \in Replicas, NEW n \in Nodes, AddNode(r, n) \/ MutateNode(r, n)
      PROVE  Typed' /\ HoldersKeep
  <2>1. PICK x \in Copies : Writes(r, n, x) /\ writes' \in [Replicas -> Nat]
    BY <1>0, <1>1, LocalWrite
  <2>2. Tick(clock[r], r) \in Clocks /\ Installs(r, n, x, Tick(clock[r], r))
    BY <1>0, <2>1, TickClock DEF Writes, TypeOK
  <2>3. /\ copy' \in [Replicas -> [Nodes -> Copies \cup {Absent}]]
        /\ known' \in [Replicas -> [Nodes -> Entries \cup {Absent}]]
        /\ HoldersKeep
    BY <1>0, <2>2, Installed, InstallKeeps
  <2>4. clock' \in [Replicas -> Clocks] /\ UNCHANGED <<log, inbox>>
    BY <1>0, <2>1, <2>2 DEF Writes, TypeOK
  <2>5. TypeOK'
    BY <1>0, <2>1, <2>3, <2>4 DEF TypeOK, HoldersKeep
  <2>6. \A s \in Replicas : \A i \in DOMAIN inbox[s] : inbox[s][i].node \in Nodes
    BY <1>0, MessagesOfInbox, MessageFields
  <2>7. AskedOfHolders'
    BY <2>3, <2>4, <2>6 DEF Typed, AskedOfHolders, HoldersKeep
  <2>8. QED
    BY <2>3, <2>5, <2>7 DEF Typed
<1>2. ASSUME NEW r \in Replicas, NEW s \in Replicas, NEW n \in Nodes, Request(r, s, n)
      PROVE  Typed' /\ HoldersKeep
  <2> DEFINE msg == [kind |-> "need", from |-> r, node |-> n]
  <2>1. /\ msg \in Messages /\ Send(s, inbox, msg) /\ Has(s, n)
        /\ UNCHANGED <<copy, clock, known, log, writes>>
    BY <1>2, AskShape
  <2>2. msg.node = n
    OBVIOUS
  <2> HIDE DEF msg
  <2>3. /\ inbox' \in [Replicas -> Seq(Messages)]
        /\ \A u \in Replicas : \A i \in DOMAIN inbox'[u] :
             \/ i \in DOMAIN inbox[u] /\ inbox'[u][i] = inbox[u][i]
             \/ u = s /\ inbox'[u][i] = msg
    <3>1. inbox \in [Replicas -> Seq(Messages)]
      BY <1>0 DEF TypeOK
    <3>2. QED
      BY <2>1, <3>1, SendElements
  <2>4. TypeOK' /\ HoldersKeep
    BY <1>0, <2>1, <2>3 DEF TypeOK, HoldersKeep, Has
  <2>5. AskedOfHolders'
    BY <2>1, <2>2, <2>3 DEF Typed, AskedOfHolders, Has
  <2>6. QED
    BY <2>4, <2>5 DEF Typed
<1>3. ASSUME NEW r \in Replicas, PackageNode(r)
      PROVE  Typed' /\ HoldersKeep
  <2>1. PICK to \in Replicas, n \in Nodes :
           LET msg == [kind |-> "node", node |-> n, copy |-> copy[r][n], clock |-> clock[r]]
           IN /\ msg \in Messages /\ Send(to, Rest(r), msg) /\ Has(r, n)
              /\ UNCHANGED <<copy, clock, known, log, writes>>
    BY <1>3, AnswerShape
  <2> DEFINE msg == [kind |-> "node", node |-> n, copy |-> copy[r][n], clock |-> clock[r]]
  <2>2. msg.kind = "node" /\ msg \in Messages /\ Send(to, Rest(r), msg)
        /\ UNCHANGED <<copy, clock, known, log, writes>>
    BY <2>1
  <2> HIDE DEF msg
  <2>3. /\ Rest(r) \in [Replicas -> Seq(Messages)]
        /\ \A s \in Replicas : \A i \in DOMAIN Rest(r)[s] :
             \E j \in DOMAIN inbox[s] : Rest(r)[s][i] = inbox[s][j]
    BY <1>0, <1>3, HeadMessage DEF PackageNode
  <2>4. /\ inbox' \in [Replicas -> Seq(Messages)]
        /\ \A u \in Replicas : \A i \in DOMAIN inbox'[u] :
             \/ i \in DOMAIN Rest(r)[u] /\ inbox'[u][i] = Rest(r)[u][i]
             \/ u = to /\ inbox'[u][i] = msg
    BY <2>2, <2>3, SendElements
  <2>5. TypeOK' /\ HoldersKeep
    BY <1>0, <2>2, <2>4 DEF TypeOK, HoldersKeep, Has
  <2>6. \A u \in Replicas : \A i \in DOMAIN inbox'[u] :
          (\E j \in DOMAIN inbox[u] : inbox'[u][i] = inbox[u][j]) \/ inbox'[u][i] = msg
    <3>1. ASSUME NEW u \in Replicas, NEW i \in DOMAIN Rest(r)[u], inbox'[u][i] = Rest(r)[u][i]
          PROVE  \E j \in DOMAIN inbox[u] : inbox'[u][i] = inbox[u][j]
      BY <2>3, <3>1
    <3>2. QED
      BY <2>4, <3>1
  <2>7. AskedOfHolders'
    BY <2>2, <2>6 DEF Typed, AskedOfHolders, Has
  <2>8. QED
    BY <2>5, <2>7 DEF Typed
<1>4. ASSUME NEW r \in Replicas, Accept(r) \/ AlreadyHave(r) \/ Conflict(r)
      PROVE  Typed' /\ HoldersKeep
  <2>1. TypeOK' /\ HoldersKeep
    BY <1>4, TransferTyped
  <2>2. Take(r)
    BY <1>4 DEF Accept, AlreadyHave, Conflict
  <2>3. /\ inbox' = Rest(r)
        /\ \A s \in Replicas : \A i \in DOMAIN Rest(r)[s] :
             \E j \in DOMAIN inbox[s] : Rest(r)[s][i] = inbox[s][j]
    BY <1>0, <2>2, HeadMessage, TakeShape DEF Take
  <2>4. \A s \in Replicas : \A i \in DOMAIN inbox[s] : inbox[s][i].node \in Nodes
    BY <1>0, MessagesOfInbox, MessageFields
  <2>5. AskedOfHolders'
    BY <2>1, <2>3, <2>4 DEF Typed, AskedOfHolders, HoldersKeep
  <2>6. QED
    BY <2>1, <2>5 DEF Typed
<1>5. CASE UNCHANGED vars
  BY <1>0, <1>5 DEF vars, Typed, TypeOK, AskedOfHolders, HoldersKeep, Has
<1>6. QED
  BY <1>1, <1>2, <1>3, <1>4, <1>5 DEF Next, Gossip

LEMMA TypedInit == Init => Typed
<1> SUFFICES ASSUME Init
             PROVE  Typed
  OBVIOUS
<1>1. /\ copy \in [Replicas -> [Nodes -> Copies \cup {Absent}]]
      /\ known \in [Replicas -> [Nodes -> Entries \cup {Absent}]]
      /\ \A r \in Replicas, n \in Nodes : copy[r][n] = Absent /\ known[r][n] = Absent
  BY DEF Init
<1>2. clock \in [Replicas -> Clocks] /\ writes \in [Replicas -> Nat]
  BY DEF Init, Clocks
<1>3. log \in [Replicas -> Seq(Resolutions)] /\ inbox \in [Replicas -> Seq(Messages)]
  BY EmptySeq DEF Init
<1>4. AskedOfHolders
  BY DEF Init, AskedOfHolders
<1>5. QED
  BY <1>1, <1>2, <1>3, <1>4 DEF Typed, TypeOK, Has

LEMMA AlwaysTyped == Spec => []Typed
<1>1. Typed /\ [Next]_vars => Typed'
  BY TypedStep
<1>2. QED
  BY <1>1, TypedInit, PTL DEF Spec

(***************************************************************************)
(* Types (DistributedFabric, GossipState): a transfer always carries a     *)
(* node, and a node is in the fabric exactly when gossip knows it.         *)
(***************************************************************************)
THEOREM TypeCorrect == Spec => []TypeOK
<1>1. Typed => TypeOK
  BY DEF Typed
<1>2. QED
  BY <1>1, AlwaysTyped, PTL

-----------------------------------------------------------------------------
(***************************************************************************)
(* A step is quiet, or an event of one replica.  A quiet step leaves the   *)
(* replicas alone: it sends a request, or a replica's clock with a copy.   *)
(* An event of r moves the clock of r on, to what r or a message to it     *)
(* knew, and changes at most one node of r.                                *)
(***************************************************************************)
Old(u, i) == \E j \in DOMAIN inbox[u] : inbox'[u][i] = inbox[u][j]

Quiet ==
  /\ UNCHANGED <<copy, clock, known, log>>
  /\ \A u \in Replicas : \A i \in DOMAIN inbox'[u] :
       \/ Old(u, i)
       \/ inbox'[u][i].kind # "node"
       \/ \E q \in Replicas : LET msg == inbox'[u][i]
                              IN /\ Has(q, msg.node) /\ msg.node \in Nodes
                                 /\ msg.copy = copy[q][msg.node] /\ msg.clock = clock[q]

Event(r) ==
  /\ clock' = [clock EXCEPT ![r] = clock'[r]]
  /\ Leq(clock[r], clock'[r]) /\ clock[r][r] < clock'[r][r]
  /\ \A s \in Replicas \ {r} :
       \/ clock'[r][s] = clock[r][s]
       \/ \E i \in DOMAIN inbox[r] :
            inbox[r][i].kind = "node" /\ clock'[r][s] = inbox[r][i].clock[s]
  /\ \A u \in Replicas : \A i \in DOMAIN inbox'[u] : Old(u, i)

NoBranch(r) ==
  \/ UNCHANGED log
  \/ \E e \in Resolutions :
       log' = [log EXCEPT ![r] = Append(@, e)] /\ e.strategy # "BranchAndSurface"

Recorded(r, n) ==
  /\ NoBranch(r)
  /\ \E x \in Copies : /\ Installs(r, n, x, clock'[r])
                       /\ Has(r, n) => x.version >= copy[r][n].version

Accepted(r, n) ==
  /\ UNCHANGED log
  /\ \E i \in DOMAIN inbox[r] :
       LET msg == inbox[r][i]
       IN /\ msg.kind = "node" /\ msg.node = n /\ msg.copy \in Copies /\ msg.clock \in Clocks
          /\ Leq(msg.clock, clock'[r])
          /\ Installs(r, n, msg.copy, msg.clock)
          /\ Has(r, n) => HappenedBefore(known[r][n].clock, msg.clock)

Branching(r, n) == Has(r, n) /\ \E x \in Copies : Branches(r, n, x)

Change(r, n) ==
  Recorded(r, n) \/ Accepted(r, n) \/ Branching(r, n) \/ UNCHANGED <<copy, known, log>>

LEMMA StepShape ==
  ASSUME Typed, [Next]_vars
  PROVE  Quiet \/ \E r \in Replicas, n \in Nodes : Event(r) /\ Change(r, n)
<1>0. TypeOK
  BY DEF Typed
<1>1. ASSUME NEW r \in Replicas, NEW n \in Nodes, AddNode(r, n) \/ MutateNode(r, n)
      PROVE  Event(r) /\ Change(r, n)
  <2>1. PICK x \in Copies : Writes(r, n, x) /\ (Has(r, n) => x.version = copy[r][n].version + 1)
    BY <1>0, <1>1, LocalWrite
  <2>2. clock[r] \in Clocks /\ clock' = [clock EXCEPT ![r] = Tick(clock[r], r)]
        /\ clock'[r] = Tick(clock[r], r)
    BY <1>0, <2>1 DEF Writes, TypeOK
  <2>3. /\ clock'[r][r] = clock[r][r] + 1 /\ clock[r] \in [Replicas -> Nat]
        /\ \A s \in Replicas : s # r => clock'[r][s] = clock[r][s]
    BY <2>2, TickClock DEF Clocks
  <2>4. Leq(clock[r], clock'[r]) /\ clock[r][r] < clock'[r][r]
    BY <2>3 DEF Leq
  <2>5. inbox' = inbox /\ log' = log /\ Installs(r, n, x, clock'[r])
    BY <2>1, <2>2 DEF Writes
  <2>6. Event(r)
    BY <2>2, <2>3, <2>4, <2>5 DEF Event, Old
  <2>7. Has(r, n) => x.version >= copy[r][n].version
    <3>1. Has(r, n) => copy[r][n] \in Copies
      BY <1>0 DEF Has, TypeOK
    <3>2. QED
      BY <2>1, <3>1 DEF Copies
  <2>8. Recorded(r, n)
    BY <2>5, <2>7 DEF Recorded, NoBranch
  <2>9. QED
    BY <2>6, <2>8 DEF Change
<1>2. ASSUME NEW r \in Replicas, NEW s \in Replicas, NEW n \in Nodes, Request(r, s, n)
      PROVE  Quiet
  <2> DEFINE msg == [kind |-> "need", from |-> r, node |-> n]
  <2>1. /\ msg \in Messages /\ Send(s, inbox, msg)
        /\ UNCHANGED <<copy, clock, known, log>> /\ msg.kind # "node"
    BY <1>2, AskShape
  <2> HIDE DEF msg
  <2>2. inbox \in [Replicas -> Seq(Messages)]
    BY <1>0 DEF TypeOK
  <2>3. \A u \in Replicas : \A i \in DOMAIN inbox'[u] :
             \/ i \in DOMAIN inbox[u] /\ inbox'[u][i] = inbox[u][i]
             \/ u = s /\ inbox'[u][i] = msg
    BY <2>1, <2>2, SendElements
  <2>4. QED
    BY <2>1, <2>3 DEF Quiet, Old
<1>3. ASSUME NEW r \in Replicas, PackageNode(r)
      PROVE  Quiet
  <2>1. PICK to \in Replicas, n \in Nodes :
           LET msg == [kind |-> "node", node |-> n, copy |-> copy[r][n], clock |-> clock[r]]
           IN /\ msg \in Messages /\ Send(to, Rest(r), msg) /\ Has(r, n)
              /\ UNCHANGED <<copy, clock, known, log, writes>>
    BY <1>3, AnswerShape
  <2> DEFINE msg == [kind |-> "node", node |-> n, copy |-> copy[r][n], clock |-> clock[r]]
  <2>2. /\ msg \in Messages /\ Send(to, Rest(r), msg) /\ Has(r, msg.node) /\ msg.node \in Nodes
        /\ msg.copy = copy[r][msg.node] /\ msg.clock = clock[r]
        /\ UNCHANGED <<copy, clock, known, log>>
    BY <2>1
  <2> HIDE DEF msg
  <2>3. /\ Rest(r) \in [Replicas -> Seq(Messages)]
        /\ \A s \in Replicas : \A i \in DOMAIN Rest(r)[s] :
             \E j \in DOMAIN inbox[s] : Rest(r)[s][i] = inbox[s][j]
    BY <1>0, <1>3, HeadMessage DEF PackageNode
  <2>4. \A u \in Replicas : \A i \in DOMAIN inbox'[u] :
             \/ i \in DOMAIN Rest(r)[u] /\ inbox'[u][i] = Rest(r)[u][i]
             \/ u = to /\ inbox'[u][i] = msg
    BY <2>2, <2>3, SendElements
  <2>5. ASSUME NEW u \in Replicas, NEW i \in DOMAIN inbox'[u]
        PROVE  Old(u, i) \/ inbox'[u][i] = msg
    <3>1. CASE i \in DOMAIN Rest(r)[u] /\ inbox'[u][i] = Rest(r)[u][i]
      BY <2>3, <3>1 DEF Old
    <3>2. QED
      BY <2>4, <3>1
  <2>6. QED
    BY <2>2, <2>5 DEF Quiet
<1>4. ASSUME NEW r \in Replicas, Accept(r) \/ AlreadyHave(r) \/ Conflict(r)
      PROVE  \E n \in Nodes : Event(r) /\ Change(r, n)
  <2> DEFINE msg == Head(inbox[r])
             n == msg.node
             J == Join(r, msg.clock)
  <2>1. /\ Take(r) /\ msg \in Messages /\ msg.kind = "node"
        /\ \/ /\ Installs(r, n, msg.copy, msg.clock) /\ UNCHANGED log
              /\ Has(r, n) => HappenedBefore(LocalClock(r, n), msg.clock)
           \/ UNCHANGED <<copy, known, log>>
           \/ Has(r, n) /\ Branches(r, n, msg.copy)
           \/ Has(r, n) /\ Resolves(r, n, Winner(copy[r][n], msg.copy), J)
    BY <1>4, Transfer
  <2>2. n \in Nodes /\ msg.copy \in Copies /\ msg.clock \in Clocks
    BY <2>1, MessageFields
  <2>3. /\ 1 \in DOMAIN inbox[r] /\ msg = inbox[r][1]
        /\ \A s \in Replicas : \A i \in DOMAIN Rest(r)[s] :
             \E j \in DOMAIN inbox[s] : Rest(r)[s][i] = inbox[s][j]
    BY SMTT(30), <1>0, <2>1, HeadMessage DEF Take
  <2>4. /\ inbox' = Rest(r) /\ clock' = [clock EXCEPT ![r] = J] /\ J \in Clocks
        /\ \A s \in Replicas : /\ clock[r][s] <= J[s] /\ msg.clock[s] <= J[s]
                               /\ s # r => J[s] \in {clock[r][s], msg.clock[s]}
        /\ clock[r][r] < J[r]
    BY <1>0, <2>1, TakeShape
  <2>5. clock'[r] = J
    BY <1>0, <2>4 DEF TypeOK
  <2> HIDE DEF J, msg
  <2>6. Event(r)
    BY <2>1, <2>3, <2>4, <2>5 DEF Event, Leq, Old
  <2>7. Change(r, n)
    <3>1. CASE /\ Installs(r, n, msg.copy, msg.clock) /\ UNCHANGED log
               /\ Has(r, n) => HappenedBefore(LocalClock(r, n), msg.clock)
      <4>1. Has(r, n) => LocalClock(r, n) = known[r][n].clock
        BY <1>0, <2>2 DEF TypeOK, LocalClock
      <4>2. Leq(msg.clock, clock'[r])
        BY <2>4, <2>5 DEF Leq
      <4>3. Accepted(r, n)
        BY <2>1, <2>2, <2>3, <3>1, <4>1, <4>2 DEF Accepted
      <4>4. QED
        BY <4>3 DEF Change
    <3>2. CASE UNCHANGED <<copy, known, log>>
      BY <3>2 DEF Change
    <3>3. CASE Has(r, n) /\ Branches(r, n, msg.copy)
      BY <2>2, <3>3 DEF Change, Branching
    <3>4. CASE Has(r, n) /\ Resolves(r, n, Winner(copy[r][n], msg.copy), J)
      <4>1. copy[r][n] \in Copies
        BY <1>0, <2>2, <3>4 DEF TypeOK, Has
      <4>2. /\ Winner(copy[r][n], msg.copy) \in Copies
            /\ Winner(copy[r][n], msg.copy).version >= copy[r][n].version
        BY <2>2, <4>1, WinnerShape
      <4>3. PICK strategy \in {"CrdtMerge", "LastWriterWins"} :
              log' = [log EXCEPT ![r] = Append(@, [node |-> n, strategy |-> strategy])]
        BY <3>4 DEF Resolves
      <4>4. [node |-> n, strategy |-> strategy] \in Resolutions
        BY <2>2 DEF Resolutions
      <4>5. NoBranch(r)
        BY <4>3, <4>4 DEF NoBranch
      <4>6. Recorded(r, n)
        BY <2>5, <3>4, <4>2, <4>5 DEF Resolves, Recorded
      <4>7. QED
        BY <4>6 DEF Change
    <3>5. QED
      BY <2>1, <3>1, <3>2, <3>3, <3>4
  <2>8. QED
    BY <2>2, <2>6, <2>7
<1>5. CASE UNCHANGED vars
  BY <1>5 DEF vars, Quiet, Old
<1>6. QED
  BY <1>1, <1>2, <1>3, <1>4, <1>5 DEF Next, Gossip

-----------------------------------------------------------------------------
\* The clocks in flight and the clocks recorded are clocks.
LEMMA ClocksTyped ==
  ASSUME Typed
  PROVE  /\ \A r, s \in Replicas : clock[r][s] \in Nat
         /\ \A u \in Replicas : \A i \in DOMAIN inbox[u] :
              inbox[u][i].kind = "node" => \A s \in Replicas : inbox[u][i].clock[s] \in Nat
         /\ \A r \in Replicas, n \in Nodes :
              Has(r, n) => \A s \in Replicas : known[r][n].clock[s] \in Nat
<1>0. TypeOK
  BY DEF Typed
<1>1. \A r, s \in Replicas : clock[r][s] \in Nat
  BY <1>0 DEF TypeOK, Clocks
<1>2. ASSUME NEW u \in Replicas, NEW i \in DOMAIN inbox[u], inbox[u][i].kind = "node"
      PROVE  inbox[u][i].clock \in Clocks
  BY <1>0, <1>2, MessagesOfInbox, MessageFields
<1>3. ASSUME NEW r \in Replicas, NEW n \in Nodes, Has(r, n)
      PROVE  known[r][n].clock \in Clocks
  <2>1. known[r][n] \in Entries
    BY <1>0, <1>3 DEF TypeOK
  <2>2. QED
    BY <2>1 DEF Entries
<1>4. QED
  BY <1>1, <1>2, <1>3 DEF Clocks

\* The recorded clocks after an event.
LEMMA KnownStep ==
  ASSUME Typed, Typed', NEW r \in Replicas, NEW n \in Nodes, Event(r), Change(r, n)
  PROVE  \A s \in Replicas, m \in Nodes : Has(s, m)' =>
           \/ Has(s, m) /\ known'[s][m] = known[s][m]
           \/ s = r /\ Leq(known'[s][m].clock, clock'[s])
<1>0. TypeOK /\ clock'[r] \in Clocks
  BY DEF Typed, TypeOK
<1>1. ASSUME NEW x \in Copies, NEW c \in Clocks, Installs(r, n, x, c), Leq(c, clock'[r]),
             NEW s \in Replicas, NEW m \in Nodes, Has(s, m)'
      PROVE  \/ Has(s, m) /\ known'[s][m] = known[s][m]
             \/ s = r /\ Leq(known'[s][m].clock, clock'[s])
  <2>1. CASE s = r /\ m = n
    <3>1. known'[r][n] = [version |-> x.version, clock |-> c]
      BY <1>0, <1>1, Installed
    <3>2. QED
      BY <1>1, <2>1, <3>1
  <2>2. CASE ~ (s = r /\ m = n)
    <3>1. known'[s][m] = known[s][m] /\ (Has(s, m)' <=> Has(s, m))
      BY <1>0, <1>1, <2>2, ElsewhereKept
    <3>2. QED
      BY <1>1, <3>1
  <2>3. QED
    BY <2>1, <2>2
<1>2. CASE Recorded(r, n)
  <2>1. Leq(clock'[r], clock'[r])
    BY <1>0 DEF Leq, Clocks
  <2>2. QED
    BY <1>0, <1>1, <1>2, <2>1 DEF Recorded
<1>3. CASE Accepted(r, n)
  BY <1>1, <1>3 DEF Accepted
<1>4. CASE Branching(r, n)
  <2>1. PICK x \in Copies : Store(r, n, x) /\ UNCHANGED known
    BY <1>4 DEF Branching, Branches
  <2>2. ASSUME NEW s \in Replicas, NEW m \in Nodes, Has(s, m)'
        PROVE  Has(s, m)
    <3>1. CASE s = r /\ m = n
      BY <1>4, <3>1 DEF Branching
    <3>2. CASE ~ (s = r /\ m = n)
      BY <1>0, <2>1, <2>2, <3>2, Stored
    <3>3. QED
      BY <3>1, <3>2
  <2>3. QED
    BY <2>1, <2>2
<1>5. CASE UNCHANGED <<copy, known, log>>
  BY <1>5 DEF Has
<1>6. QED
  BY <1>2, <1>3, <1>4, <1>5 DEF Change

LEMMA ClocksStep ==
  ASSUME Typed, Typed', ClocksTruthful, [Next]_vars
  PROVE  ClocksTruthful'
<1>0. TypeOK /\ TypeOK'
  BY DEF Typed
<1>1. CASE Quiet
  <2>1. UNCHANGED <<copy, clock, known>>
    BY <1>1 DEF Quiet
  <2>2. ASSUME NEW r \in Replicas, NEW u \in Replicas, NEW i \in DOMAIN inbox'[u],
               inbox'[u][i].kind = "node"
        PROVE  inbox'[u][i].clock[r] <= clock[r][r]
    <3>1. CASE Old(u, i)
      BY <2>2, <3>1 DEF Old, ClocksTruthful
    <3>2. ASSUME NEW q \in Replicas, inbox'[u][i].clock = clock[q]
          PROVE  inbox'[u][i].clock[r] <= clock[r][r]
      BY <3>2 DEF ClocksTruthful
    <3>3. QED
      BY <1>1, <2>2, <3>1, <3>2 DEF Quiet
  <2>3. QED
    BY <2>1, <2>2 DEF ClocksTruthful, Has
<1>2. ASSUME NEW r \in Replicas, NEW n \in Nodes, Event(r), Change(r, n)
      PROVE  ClocksTruthful'
  <2>1. /\ \A s \in Replicas : s # r => clock'[s] = clock[s]
        /\ \A s \in Replicas : clock[r][s] <= clock'[r][s]
        /\ \A u \in Replicas : \A i \in DOMAIN inbox'[u] : Old(u, i)
    <3>1. clock' = [clock EXCEPT ![r] = clock'[r]]
      BY <1>2 DEF Event
    <3>2. \A s \in Replicas : s # r => clock'[s] = clock[s]
      BY <1>0, <3>1 DEF TypeOK
    <3>3. QED
      BY <1>2, <3>2 DEF Event, Leq
  <2>2. \A s \in Replicas : s # r => clock'[r][s] <= clock[s][s]
    BY <1>2 DEF Event, ClocksTruthful
  <2>3. /\ \A s, q \in Replicas : clock[s][q] \in Nat /\ clock'[s][q] \in Nat
        /\ \A u \in Replicas : \A i \in DOMAIN inbox[u] :
             inbox[u][i].kind = "node" => \A s \in Replicas : inbox[u][i].clock[s] \in Nat
    BY <1>0, ClocksTyped DEF TypeOK, Clocks
  <2>4. \A q \in Replicas : clock[q][q] <= clock'[q][q]
    BY <2>1, <2>3
  <2>5. \A q, s \in Replicas : clock'[s][q] <= clock'[q][q]
    <3>1. ASSUME NEW q \in Replicas, NEW s \in Replicas, s # r
          PROVE  clock'[s][q] <= clock'[q][q]
      <4>1. clock'[s][q] = clock[s][q] /\ clock[s][q] <= clock[q][q]
        BY <2>1, <3>1 DEF ClocksTruthful
      <4>2. QED
        BY <2>3, <2>4, <4>1
    <3>2. ASSUME NEW q \in Replicas
          PROVE  clock'[r][q] <= clock'[q][q]
      BY <2>1, <2>2, <2>3
    <3>3. QED
      BY <3>1, <3>2
  <2>6. ASSUME NEW q \in Replicas, NEW u \in Replicas, NEW i \in DOMAIN inbox'[u],
               inbox'[u][i].kind = "node"
        PROVE  inbox'[u][i].clock[q] <= clock'[q][q]
    <3>1. PICK j \in DOMAIN inbox[u] : inbox'[u][i] = inbox[u][j]
      BY <2>1 DEF Old
    <3>2. inbox[u][j].clock[q] <= clock[q][q] /\ inbox[u][j].clock[q] \in Nat
      BY <2>3, <2>6, <3>1 DEF ClocksTruthful
    <3>3. QED
      BY <2>3, <2>4, <3>1, <3>2
  <2>7. ASSUME NEW s \in Replicas, NEW m \in Nodes, Has(s, m)'
        PROVE  Leq(known'[s][m].clock, clock'[s])
    <3>1. CASE Has(s, m) /\ known'[s][m] = known[s][m]
      <4>1. Leq(known[s][m].clock, clock[s])
        BY <3>1 DEF ClocksTruthful
      <4>2. \A q \in Replicas : clock[s][q] <= clock'[s][q] /\ known[s][m].clock[q] \in Nat
        BY <2>1, <2>3, <3>1, ClocksTyped
      <4>3. QED
        BY <2>3, <3>1, <4>1, <4>2 DEF Leq
    <3>2. CASE s = r /\ Leq(known'[s][m].clock, clock'[s])
      BY <3>2
    <3>3. QED
      BY <1>2, <2>7, <3>1, <3>2, KnownStep
  <2>8. QED
    BY <2>5, <2>6, <2>7 DEF ClocksTruthful
<1>3. QED
  BY <1>1, <1>2, StepShape

\* Once a branch of a node was surfaced, it was surfaced for ever.
LEMMA BranchedKept ==
  ASSUME Typed, NEW r \in Replicas, NEW n \in Nodes, Change(r, n)
  PROVE  \A s \in Replicas, m \in Nodes : Branched(s, m) => Branched(s, m)'
<1>0. TypeOK
  BY DEF Typed
<1>1. CASE UNCHANGED log
  BY <1>1 DEF Branched
<1>2. ASSUME NEW e \in Resolutions, log' = [log EXCEPT ![r] = Append(@, e)]
      PROVE  \A s \in Replicas, m \in Nodes : Branched(s, m) => Branched(s, m)'
  <2>1. /\ \A s \in Replicas : s # r => log'[s] = log[s]
        /\ DOMAIN log[r] \subseteq DOMAIN log'[r]
        /\ \A i \in DOMAIN log[r] : log'[r][i] = log[r][i]
    BY <1>0, <1>2, LogStep
  <2>2. ASSUME NEW s \in Replicas, NEW m \in Nodes, Branched(s, m)
        PROVE  Branched(s, m)'
    <3>1. CASE s = r
      BY <2>1, <2>2, <3>1 DEF Branched
    <3>2. CASE s # r
      BY <2>1, <2>2, <3>2 DEF Branched
    <3>3. QED
      BY <3>1, <3>2
  <2>3. QED
    BY <2>2
<1>3. [node |-> n, strategy |-> "BranchAndSurface"] \in Resolutions
  BY DEF Resolutions
<1>4. QED
  BY <1>1, <1>2, <1>3
  DEF Change, Recorded, Accepted, NoBranch, Branching, Branches

LEMMA BranchIsLogged ==
  ASSUME Typed, NEW r \in Replicas, NEW n \in Nodes, Branching(r, n)
  PROVE  /\ Branched(r, n)'
         /\ \E i \in DOMAIN log'[r] \ DOMAIN log[r] : log'[r][i].strategy = "BranchAndSurface"
<1> DEFINE e == [node |-> n, strategy |-> "BranchAndSurface"]
<1>1. e \in Resolutions /\ log' = [log EXCEPT ![r] = Append(@, e)]
  BY DEF Resolutions, Branching, Branches
<1>2. PICK i \in DOMAIN log'[r] \ DOMAIN log[r] : log'[r][i] = e
  BY <1>1, LogStep DEF Typed
<1>3. QED
  BY <1>2 DEF Branched

LEMMA DigestStep ==
  ASSUME Typed, Typed', DigestTruthful, [Next]_vars
  PROVE  DigestTruthful'
<1>0. TypeOK /\ TypeOK'
  BY DEF Typed
<1>1. CASE Quiet
  BY <1>1 DEF Quiet, DigestTruthful, Has, Branched
<1>2. ASSUME NEW r \in Replicas, NEW n \in Nodes, Change(r, n)
      PROVE  DigestTruthful'
  <2>1. ASSUME NEW x \in Copies, NEW c \in Clocks, Installs(r, n, x, c),
               NEW s \in Replicas, NEW m \in Nodes, Has(s, m)', ~ Branched(s, m)'
        PROVE  known'[s][m].version = copy'[s][m].version
    <3>1. CASE s = r /\ m = n
      <4>1. copy'[r][n] = x /\ known'[r][n] = [version |-> x.version, clock |-> c]
        BY <1>0, <2>1, Installed
      <4>2. QED
        BY <3>1, <4>1
    <3>2. CASE ~ (s = r /\ m = n)
      <4>1. copy'[s][m] = copy[s][m] /\ known'[s][m] = known[s][m] /\ Has(s, m)
        BY <1>0, <2>1, <3>2, ElsewhereKept
      <4>2. ~ Branched(s, m)
        BY <1>2, <2>1, BranchedKept
      <4>3. QED
        BY <4>1, <4>2 DEF DigestTruthful
    <3>3. QED
      BY <3>1, <3>2
  <2>2. CASE Recorded(r, n)
    <3>1. clock'[r] \in Clocks
      BY <1>0 DEF TypeOK
    <3>2. QED
      BY <2>1, <2>2, <3>1 DEF Recorded, DigestTruthful
  <2>3. CASE Accepted(r, n)
    BY <2>1, <2>3 DEF Accepted, DigestTruthful
  <2>4. CASE Branching(r, n)
    <3>1. PICK x \in Copies : Store(r, n, x) /\ UNCHANGED known
      BY <2>4 DEF Branching, Branches
    <3>2. Branched(r, n)'
      BY <2>4, BranchIsLogged
    <3>3. ASSUME NEW s \in Replicas, NEW m \in Nodes, Has(s, m)', ~ Branched(s, m)'
          PROVE  known'[s][m].version = copy'[s][m].version
      <4>1. ~ (s = r /\ m = n) /\ ~ Branched(s, m)
        BY <1>2, <3>2, <3>3, BranchedKept
      <4>2. copy'[s][m] = copy[s][m] /\ Has(s, m)
        BY <1>0, <3>1, <3>3, <4>1, Stored
      <4>3. QED
        BY <3>1, <4>1, <4>2 DEF DigestTruthful
    <3>4. QED
      BY <3>3 DEF DigestTruthful
  <2>5. CASE UNCHANGED <<copy, known, log>>
    BY <2>5 DEF DigestTruthful, Has, Branched
  <2>6. QED
    BY <1>2, <2>2, <2>3, <2>4, <2>5 DEF Change
<1>3. QED
  BY <1>1, <1>2, StepShape

LEMMA TruthfulInit == Init => VersionsTruthful
BY DEF Init, VersionsTruthful, ClocksTruthful, DigestTruthful, Has, Clocks

LEMMA AlwaysTruthful == Spec => [](Typed /\ ClocksTruthful /\ DigestTruthful)
<1>1. Init => ClocksTruthful /\ DigestTruthful
  BY TruthfulInit DEF VersionsTruthful
<1>2. Typed /\ Typed' /\ ClocksTruthful /\ [Next]_vars => ClocksTruthful'
  BY ClocksStep
<1>3. Typed /\ Typed' /\ DigestTruthful /\ [Next]_vars => DigestTruthful'
  BY DigestStep
<1>4. QED
  BY <1>1, <1>2, <1>3, AlwaysTyped, PTL DEF Spec

(***************************************************************************)
(* What a replica says is true (receive_node, digest): no clock, recorded, *)
(* held or in flight, counts an event that its replica has not made, and   *)
(* a digest advertises the version that a request is answered with.        *)
(***************************************************************************)
THEOREM TruthTold == Spec => []VersionsTruthful
<1>1. ClocksTruthful /\ DigestTruthful => VersionsTruthful
  BY DEF VersionsTruthful
<1>2. QED
  BY <1>1, AlwaysTruthful, PTL

-----------------------------------------------------------------------------
(***************************************************************************)
(* A clock is stamped on a copy where a replica holds both, where a        *)
(* replica recorded it for the copy, and in an answer.  The invariant that *)
(* makes recorded clocks identify copies is that all stamps do: an event   *)
(* gives its replica a clock that no stamp can have, since no stamp counts *)
(* an event that was not made.                                             *)
(***************************************************************************)
Stamped(n, c, x) ==
  \/ \E r \in Replicas : Has(r, n) /\ c = clock[r] /\ x = copy[r][n]
  \/ \E r \in Replicas :
       Has(r, n) /\ ~ Branched(r, n) /\ c = known[r][n].clock /\ x = copy[r][n]
  \/ \E u \in Replicas : \E i \in DOMAIN inbox[u] :
       LET msg == inbox[u][i]
       IN msg.kind = "node" /\ msg.node = n /\ c = msg.clock /\ x = msg.copy

StampsAgree ==
  \A n \in Nodes, c \in Clocks, x, y \in Copies : Stamped(n, c, x) /\ Stamped(n, c, y) => x = y

LEMMA StampsAreOld ==
  ASSUME Typed, ClocksTruthful, NEW n \in Nodes, NEW c, NEW x, Stamped(n, c, x), NEW q \in Replicas
  PROVE  c[q] <= clock[q][q]
<1>1. ASSUME NEW r \in Replicas, Has(r, n), c = known[r][n].clock
      PROVE  c[q] <= clock[q][q]
  <2>1. c[q] <= clock[r][q] /\ clock[r][q] <= clock[q][q]
    BY <1>1 DEF ClocksTruthful, Leq
  <2>2. c[q] \in Nat /\ clock[r][q] \in Nat /\ clock[q][q] \in Nat
    BY <1>1, ClocksTyped
  <2>3. QED
    BY <2>1, <2>2
<1>2. QED
  BY <1>1 DEF Stamped, ClocksTruthful

LEMMA StampsOfQuiet ==
  ASSUME Quiet, NEW n \in Nodes, NEW c, NEW x, Stamped(n, c, x)'
  PROVE  Stamped(n, c, x)
<1>1. UNCHANGED <<copy, clock, known, log>>
  BY DEF Quiet
<1>2. ASSUME NEW u \in Replicas, NEW i \in DOMAIN inbox'[u], inbox'[u][i].kind = "node",
             inbox'[u][i].node = n, c = inbox'[u][i].clock, x = inbox'[u][i].copy
      PROVE  Stamped(n, c, x)
  <2>1. CASE Old(u, i)
    BY <1>2, <2>1 DEF Old, Stamped
  <2>2. CASE ~ Old(u, i)
    BY <1>2, <2>2 DEF Quiet, Stamped
  <2>3. QED
    BY <2>1, <2>2
<1>3. QED
  BY <1>1, <1>2 DEF Stamped, Has, Branched

LEMMA StampsOfEvent ==
  ASSUME Typed, Typed', NEW r \in Replicas, NEW n \in Nodes, Event(r), Change(r, n),
         NEW m \in Nodes, NEW c, NEW x, Stamped(m, c, x)'
  PROVE  Stamped(m, c, x) \/ (c = clock'[r] /\ x = copy'[r][m])
<1>0. TypeOK /\ TypeOK'
  BY DEF Typed
<1>1. \A q \in Replicas : q # r => clock'[q] = clock[q]
  BY <1>0 DEF Event, TypeOK
<1>2. \A q \in Replicas, k \in Nodes : ~ (q = r /\ k = n) =>
        copy'[q][k] = copy[q][k] /\ known'[q][k] = known[q][k] /\ (Has(q, k)' <=> Has(q, k))
  <2>1. ASSUME NEW q \in Replicas, NEW k \in Nodes, ~ (q = r /\ k = n)
        PROVE  copy'[q][k] = copy[q][k] /\ known'[q][k] = known[q][k] /\ (Has(q, k)' <=> Has(q, k))
    <3>1. CASE Recorded(r, n)
      <4>1. clock'[r] \in Clocks
        BY <1>0 DEF TypeOK
      <4>2. QED
        BY <1>0, <2>1, <3>1, <4>1, ElsewhereKept DEF Recorded
    <3>2. CASE Accepted(r, n)
      BY <1>0, <2>1, <3>2, ElsewhereKept DEF Accepted
    <3>3. CASE Branching(r, n)
      BY <1>0, <2>1, <3>3, Stored DEF Branching, Branches
    <3>4. CASE UNCHANGED <<copy, known, log>>
      BY <3>4 DEF Has
    <3>5. QED
      BY <3>1, <3>2, <3>3, <3>4 DEF Change
  <2>2. QED
    BY <2>1
<1>3. ASSUME NEW q \in Replicas, Has(q, m)', c = clock'[q], x = copy'[q][m]
      PROVE  Stamped(m, c, x) \/ (c = clock'[r] /\ x = copy'[r][m])
  <2>1. CASE q = r
    BY <1>3, <2>1
  <2>2. CASE q # r
    BY <1>1, <1>2, <1>3, <2>2 DEF Stamped
  <2>3. QED
    BY <2>1, <2>2
<1>4. ASSUME NEW q \in Replicas, Has(q, m)', ~ Branched(q, m)',
             c = known'[q][m].clock, x = copy'[q][m]
      PROVE  Stamped(m, c, x) \/ (c = clock'[r] /\ x = copy'[r][m])
  <2>1. ~ Branched(q, m)
    BY <1>4, BranchedKept
  <2>2. CASE ~ (q = r /\ m = n)
    BY <1>2, <1>4, <2>1, <2>2 DEF Stamped
  <2>3. CASE q = r /\ m = n
    <3>1. CASE Recorded(r, n)
      <4>1. PICK y \in Copies : Installs(r, n, y, clock'[r])
        BY <3>1 DEF Recorded
      <4>2. clock'[r] \in Clocks
        BY <1>0 DEF TypeOK
      <4>3. known'[r][n] = [version |-> y.version, clock |-> clock'[r]]
        BY <1>0, <4>1, <4>2, Installed
      <4>4. QED
        BY <1>4, <2>3, <4>3
    <3>2. CASE Accepted(r, n)
      <4>1. PICK i \in DOMAIN inbox[r] :
              LET msg == inbox[r][i]
              IN /\ msg.kind = "node" /\ msg.node = n /\ msg.copy \in Copies /\ msg.clock \in Clocks
                 /\ Installs(r, n, msg.copy, msg.clock)
        BY <3>2 DEF Accepted
      <4> DEFINE d == inbox[r][i].clock
                 y == inbox[r][i].copy
      <4>2. y \in Copies /\ d \in Clocks /\ Installs(r, n, y, d)
        BY <4>1
      <4>3. copy'[r][n] = y /\ known'[r][n] = [version |-> y.version, clock |-> d]
        <5> HIDE DEF d, y
        <5> QED
          BY <1>0, <4>2, Installed
      <4>4. c = d /\ x = y
        BY <1>4, <2>3, <4>3
      <4>5. QED
        BY <2>3, <4>1, <4>4 DEF Stamped
    <3>3. CASE Branching(r, n)
      BY <1>4, <2>3, <3>3, BranchIsLogged
    <3>4. CASE UNCHANGED <<copy, known, log>>
      BY <1>4, <2>1, <3>4 DEF Stamped, Has
    <3>5. QED
      BY <3>1, <3>2, <3>3, <3>4 DEF Change
  <2>4. QED
    BY <2>2, <2>3
<1>5. ASSUME NEW u \in Replicas, NEW i \in DOMAIN inbox'[u], inbox'[u][i].kind = "node",
             inbox'[u][i].node = m, c = inbox'[u][i].clock, x = inbox'[u][i].copy
      PROVE  Stamped(m, c, x)
  <2>1. Old(u, i)
    BY DEF Event
  <2>2. QED
    BY <1>5, <2>1 DEF Old, Stamped
<1>6. QED
  BY <1>3, <1>4, <1>5 DEF Stamped

LEMMA StampsStep ==
  ASSUME Typed, Typed', ClocksTruthful, StampsAgree, [Next]_vars
  PROVE  StampsAgree'
<1>1. CASE Quiet
  BY <1>1, StampsOfQuiet DEF StampsAgree
<1>2. ASSUME NEW r \in Replicas, NEW n \in Nodes, Event(r), Change(r, n)
      PROVE  StampsAgree'
  <2>1. SUFFICES ASSUME NEW m \in Nodes, NEW c \in Clocks, NEW x \in Copies, NEW y \in Copies,
                        Stamped(m, c, x)', Stamped(m, c, y)'
                 PROVE  x = y
    BY DEF StampsAgree
  <2>2. /\ Stamped(m, c, x) \/ (c = clock'[r] /\ x = copy'[r][m])
        /\ Stamped(m, c, y) \/ (c = clock'[r] /\ y = copy'[r][m])
    BY <1>2, <2>1, StampsOfEvent
  <2>3. c = clock'[r] => ~ Stamped(m, c, x) /\ ~ Stamped(m, c, y)
    <3>1. ASSUME NEW z, Stamped(m, c, z), c = clock'[r]
          PROVE  FALSE
      <4>1. clock'[r][r] <= clock[r][r] /\ clock[r][r] < clock'[r][r]
        BY <1>2, <3>1, StampsAreOld DEF Event
      <4>2. clock'[r][r] \in Nat /\ clock[r][r] \in Nat
        BY DEF Typed, TypeOK, Clocks
      <4>3. QED
        BY <4>1, <4>2
    <3>2. QED
      BY <3>1
  <2>4. QED
    BY <2>2, <2>3 DEF StampsAgree
<1>3. QED
  BY <1>1, <1>2, StepShape

(***************************************************************************)
(* A clock identifies a copy (receive_node answers AlreadyHave to a clock  *)
(* that is not later than the recorded one): replicas that recorded the    *)
(* same clock for a node, and surfaced no branch of it, have the same copy *)
(* of it, whichever way the copies came to them.                           *)
(***************************************************************************)
THEOREM ClocksIdentify == Spec => []ClockIdentifiesCopy
<1>1. Init => StampsAgree
  BY DEF Init, StampsAgree, Stamped, Has
<1>2. Typed /\ Typed' /\ ClocksTruthful /\ StampsAgree /\ [Next]_vars => StampsAgree'
  BY StampsStep
<1>3. Typed /\ StampsAgree => ClockIdentifiesCopy
  <2> SUFFICES ASSUME Typed, StampsAgree, NEW r \in Replicas, NEW s \in Replicas, NEW n \in Nodes,
                      Has(r, n), Has(s, n), known[r][n].clock = known[s][n].clock,
                      ~ Branched(r, n), ~ Branched(s, n)
               PROVE  copy[r][n] = copy[s][n]
    BY DEF ClockIdentifiesCopy
  <2>1. copy[r][n] \in Copies /\ copy[s][n] \in Copies /\ known[r][n] \in Entries
    BY DEF Has, Typed, TypeOK
  <2>2. known[r][n].clock \in Clocks
    BY <2>1 DEF Entries
  <2>3. Stamped(n, known[r][n].clock, copy[r][n]) /\ Stamped(n, known[r][n].clock, copy[s][n])
    BY DEF Stamped
  <2>4. QED
    BY <2>1, <2>2, <2>3 DEF StampsAgree
<1>4. QED
  BY <1>1, <1>2, <1>3, AlwaysTruthful, PTL DEF Spec

-----------------------------------------------------------------------------
(***************************************************************************)
(* Resolving a conflict never loses the newer version (receive_node,       *)
(* resolve_conflict): a version goes back only to a transfer whose clock   *)
(* is later, or to a surfaced branch.                                      *)
(***************************************************************************)
THEOREM RegressExplained == Spec => RegressIsExplained
<1> DEFINE Explained ==
      \A r \in Replicas, n \in Nodes :
        Has(r, n) /\ copy'[r][n].version < copy[r][n].version =>
          \/ HappenedBefore(known[r][n].clock, known'[r][n].clock) /\ log'[r] = log[r]
          \/ \E i \in DOMAIN log'[r] \ DOMAIN log[r] :
               log'[r][i].strategy = "BranchAndSurface"
<1>1. Typed /\ Typed' /\ [Next]_vars => Explained
  <2> SUFFICES ASSUME Typed, Typed', [Next]_vars, NEW s \in Replicas, NEW m \in Nodes,
                      Has(s, m), copy'[s][m].version < copy[s][m].version
               PROVE  \/ HappenedBefore(known[s][m].clock, known'[s][m].clock) /\ log'[s] = log[s]
                      \/ \E i \in DOMAIN log'[s] \ DOMAIN log[s] :
                           log'[s][i].strategy = "BranchAndSurface"
    OBVIOUS
  <2>0. TypeOK /\ TypeOK'
    BY DEF Typed
  <2>1. copy[s][m] \in Copies /\ copy[s][m].version \in Nat
    BY <2>0 DEF Has, TypeOK, Copies
  <2>2. copy'[s][m] # copy[s][m]
    BY <2>1
  <2>3. PICK r \in Replicas, n \in Nodes : Event(r) /\ Change(r, n)
    BY <2>2, StepShape DEF Quiet
  <2>4. CASE Recorded(r, n)
    <3>1. PICK x \in Copies : Installs(r, n, x, clock'[r]) /\ (Has(r, n) => x.version >= copy[r][n].version)
      BY <2>4 DEF Recorded
    <3>2. clock'[r] \in Clocks
      BY <2>0 DEF TypeOK
    <3>3. s = r /\ m = n
      BY <2>0, <2>2, <3>1, <3>2, ElsewhereKept
    <3>4. copy'[r][n] = x
      <4>1. copy' = [copy EXCEPT ![r][n] = x]
        BY <3>1 DEF Installs, Store
      <4>2. QED
        BY <2>0, <4>1 DEF TypeOK
    <3>5. QED
      BY <2>1, <3>1, <3>3, <3>4 DEF Copies
  <2>5. CASE Accepted(r, n)
    <3>1. PICK i \in DOMAIN inbox[r] :
            LET msg == inbox[r][i]
            IN /\ msg.copy \in Copies /\ msg.clock \in Clocks
               /\ Installs(r, n, msg.copy, msg.clock)
               /\ Has(r, n) => HappenedBefore(known[r][n].clock, msg.clock)
      BY <2>5 DEF Accepted
    <3> DEFINE d == inbox[r][i].clock
               x == inbox[r][i].copy
    <3>2. /\ x \in Copies /\ d \in Clocks /\ Installs(r, n, x, d)
          /\ Has(r, n) => HappenedBefore(known[r][n].clock, d)
      BY <3>1
    <3> HIDE DEF d, x
    <3>3. s = r /\ m = n
      BY <2>0, <2>2, <3>2, ElsewhereKept
    <3>4. known'[r][n] = [version |-> x.version, clock |-> d]
      BY <2>0, <3>2, Installed
    <3>5. QED
      BY <2>5, <3>2, <3>3, <3>4 DEF Accepted
  <2>6. CASE Branching(r, n)
    <3>1. PICK x \in Copies : Store(r, n, x)
      BY <2>6 DEF Branching, Branches
    <3>2. s = r /\ m = n
      BY <2>0, <2>2, <3>1, Stored
    <3>3. QED
      BY <2>6, <3>2, BranchIsLogged
  <2>7. QED
    BY <2>2, <2>3, <2>4, <2>5, <2>6 DEF Change
<1>2. QED
  BY <1>1, AlwaysTyped, PTL DEF Spec, RegressIsExplained

=============================================================================
