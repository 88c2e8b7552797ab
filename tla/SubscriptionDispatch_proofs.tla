--------------------- MODULE SubscriptionDispatch_proofs ---------------------
(***************************************************************************)
(* Theorems of SubscriptionDispatch, for any sets of subscriptions, nodes, *)
(* writers and workers.                                                    *)
(***************************************************************************)
EXTENDS SubscriptionDispatch, FiniteSetTheorems, FunctionTheorems, SequenceTheorems, TLAPS

-----------------------------------------------------------------------------
(***************************************************************************)
(* First layer: types, what each step of a thread knows of its locals, and *)
(* the exact depth.  They are one invariant: that the depth is a natural   *)
(* number after a worker settled a task is because it was exact before.    *)
(***************************************************************************)
Dispatching == {"snapshot", "dispatch", "mark", "enqueue"}

LocalsOK ==
  /\ \A t \in Writers : pc[t] \in {"idle"} \cup Dispatching
  /\ \A w \in Workers : /\ pc[w] # "idle"
                        /\ Busy(w) => sub[w] \in Subs /\ node[w] \in Nodes
  /\ \A t \in Threads : /\ pc[t] \in Dispatching <=> event[t] # None
                        /\ pc[t] \in {"mark", "enqueue"} <=> entry[t] # None
                        /\ pc[t] \notin {"dispatch", "mark", "enqueue"} => todo[t] = {}

Typed == TypeOK /\ LocalsOK

\* The channel after a task was appended to it, and after one was taken.
LEMMA SendShape ==
  ASSUME Typed, NEW s \in Subs, NEW n \in Nodes, SendTask(s, n)
  PROVE  /\ channel' \in Seq(Tasks)
         /\ queueDepth' \in [Subs -> Nat]
<1>1. /\ [sub |-> s, node |-> n] \in Tasks /\ channel \in Seq(Tasks)
      /\ queueDepth \in [Subs -> Nat] /\ queueDepth[s] + 1 \in Nat
  BY DEF Typed, TypeOK, Tasks
<1>2. Append(channel, [sub |-> s, node |-> n]) \in Seq(Tasks)
  BY <1>1, AppendProperties
<1>3. QED
  BY <1>1, <1>2 DEF SendTask, Add

LEMMA ReceiveShape ==
  ASSUME Typed, channel # <<>>
  PROVE  /\ Tail(channel) \in Seq(Tasks)
         /\ Head(channel).sub \in Subs /\ Head(channel).node \in Nodes
         /\ Head(channel) \in Tasks
<1>1. channel \in Seq(Tasks)
  BY DEF Typed, TypeOK
<1>2. Head(channel) \in Tasks /\ Tail(channel) \in Seq(Tasks)
  BY <1>1, HeadTailProperties
<1>3. QED
  BY <1>2 DEF Tasks

\* A worker that has not settled its task is counted in the depth.
LEMMA RunningFinite ==
  \A s : /\ IsFiniteSet(Running(s)) /\ Cardinality(Running(s)) \in Nat
         /\ \A w \in Running(s) : Cardinality(Running(s)) >= 1
<1>1. \A s : IsFiniteSet(Running(s))
  BY FS_Subset, DispatchAssumption DEF Running
<1>2. \A s : Cardinality(Running(s)) \in Nat
  BY <1>1, FS_CardinalityType
<1>3. \A s : Cardinality(Running(s)) = 0 => Running(s) = {}
  BY <1>1, FS_EmptySet
<1>4. QED
  BY <1>1, <1>2, <1>3

LEMMA QueuedFinite ==
  ASSUME Typed
  PROVE  \A s : IsFiniteSet(Queued(s)) /\ Cardinality(Queued(s)) \in Nat
<1>1. DOMAIN channel = 1..Len(channel) /\ Len(channel) \in Nat
  BY LenProperties DEF Typed, TypeOK
<1>2. IsFiniteSet(DOMAIN channel)
  BY <1>1, FS_Interval
<1>3. QED
  BY <1>2, FS_Subset, FS_CardinalityType DEF Queued

LEMMA SettledWasCounted ==
  ASSUME Typed, QueueDepthExact, NEW w \in Workers, pc[w] = "settle"
  PROVE  queueDepth[sub[w]] - 1 \in Nat
<1>1. sub[w] \in Subs /\ w \in Running(sub[w])
  BY DEF Typed, LocalsOK, Busy, Running, Unsettled
<1>2. QED
  BY <1>1, RunningFinite, QueuedFinite DEF QueueDepthExact, Typed, TypeOK

\* A worker between two tasks, or between a task and its retry.
LEMMA ProceedShape ==
  ASSUME Typed, NEW w \in Workers, Busy(w),
         NEW step \in {"clear", "backoff", "receive", "drop"}, pc' = [pc EXCEPT ![w] = step],
         sub' \in {sub, [sub EXCEPT ![w] = None]},
         node' \in {node, [node EXCEPT ![w] = None]},
         step \notin {"receive", "drop"} => UNCHANGED <<sub, node>>,
         pc[w] \notin Dispatching, UNCHANGED cursor
  PROVE  /\ LocalsOK'
         /\ pc' \in [Threads -> Steps]
         /\ sub' \in [Workers -> Subs \cup {None}]
         /\ node' \in [Workers -> Nodes \cup {None}]
<1> USE DispatchAssumption DEF Threads, cursor
<1>1. /\ pc \in [Threads -> Steps] /\ sub \in [Workers -> Subs \cup {None}]
      /\ node \in [Workers -> Nodes \cup {None}]
  BY DEF Typed, TypeOK
<1>2. /\ pc'[w] = step /\ w \notin Writers
      /\ \A t \in Threads : t # w => pc'[t] = pc[t]
      /\ \A x \in Workers : x # w => sub'[x] = sub[x] /\ node'[x] = node[x]
  BY <1>1
<1>3. LocalsOK
  BY DEF Typed
<1>4. \A x \in Workers : pc'[x] # "idle" /\ (Busy(x)' => sub'[x] \in Subs /\ node'[x] \in Nodes)
  BY <1>2, <1>3 DEF LocalsOK, Busy
<1>5. \A t \in Writers : pc'[t] \in {"idle"} \cup Dispatching
  BY <1>2, <1>3 DEF LocalsOK
<1>6. LocalsOK'
  BY SMTT(30), <1>2, <1>3, <1>4, <1>5 DEF LocalsOK, Dispatching
<1>7. QED
  BY <1>1, <1>6 DEF Steps

LEMMA ProceedEnds ==
  ASSUME TypeOK, NEW w \in Workers, Proceed(w)
  PROVE  /\ open' \in {open, FALSE} /\ open' \in BOOLEAN
         /\ \/ pc' = [pc EXCEPT ![w] = "backoff"] /\ again[w] /\ UNCHANGED <<sub, node>>
            \/ /\ pc' = [pc EXCEPT ![w] = "receive"] \/ pc' = [pc EXCEPT ![w] = "drop"]
               /\ sub' = [sub EXCEPT ![w] = None] /\ node' = [node EXCEPT ![w] = None]
<1> USE DEF Goto
<1>1. open \in BOOLEAN
  BY DEF TypeOK
<1>2. CASE again[w]
  BY <1>1, <1>2 DEF Proceed
<1>3. CASE ~ again[w]
  <2>1. EndTask(w)
    BY <1>3 DEF Proceed
  <2>2. open' \in {open, FALSE}
    BY <1>1, <2>1 DEF EndTask
  <2>3. QED
    BY <1>1, <2>1, <2>2 DEF EndTask
<1>4. QED
  BY <1>2, <1>3

LEMMA ProceedLocals ==
  ASSUME TypeOK, NEW w \in Workers, Proceed(w)
  PROVE  /\ \/ pc'[w] = "backoff" /\ again[w] /\ UNCHANGED <<sub, node>>
            \/ pc'[w] \in {"receive", "drop"} /\ sub'[w] = None /\ node'[w] = None
         /\ \A u \in Workers : sub'[u] \in {sub[u], None} /\ node'[u] \in {node[u], None}
<1>1. w \in DOMAIN pc /\ w \in DOMAIN sub /\ w \in DOMAIN node
  BY DEF TypeOK, Threads
<1>2. DOMAIN sub = Workers /\ DOMAIN node = Workers
  BY DEF TypeOK
<1>3. QED
  BY <1>1, <1>2, ProceedEnds

LEMMA TypedStep ==
  ASSUME Typed, QueueDepthExact, [Next]_vars
  PROVE  Typed'
<1> USE DispatchAssumption
    DEF Goto, Add, entries, graph, pool, cursor, task, Typed, TypeOK, LocalsOK, Steps,
        Dispatching, Busy, Threads
<1>0. lagged_threshold' = lagged_threshold
  BY DEF Next, Use, Dispatch, Work, Fail, Return, vars
<1>1. ASSUME NEW s \in Subs, Subscribe(s) \/ Unsubscribe(s)
      PROVE  Typed'
  BY <1>0, <1>1 DEF Subscribe, Unsubscribe
<1>2. ASSUME NEW t \in Writers, NEW n \in Nodes, Write(t, n)
      PROVE  Typed'
  BY <1>0, <1>2 DEF Write, Commit
<1>3. ASSUME Shutdown \/ DropBridge \/ ShutdownReturns
      PROVE  Typed'
  BY ZenonT(60), <1>0, <1>3 DEF Shutdown, DropBridge, ShutdownReturns
<1>4. ASSUME NEW t \in Threads, TakeSnapshot(t)
      PROVE  Typed'
  BY <1>0, <1>4 DEF TakeSnapshot
<1>5. ASSUME NEW t \in Threads, NEW s \in Subs, LoadDepth(t, s)
      PROVE  Typed'
  BY <1>0, <1>5 DEF LoadDepth
<1>6. ASSUME NEW t \in Threads, MarkLagged(t)
      PROVE  Typed'
  BY <1>0, <1>6 DEF MarkLagged
<1>7. ASSUME NEW t \in Threads, Enqueue(t)
      PROVE  Typed'
  <2>1. entry[t] \in Subs /\ event[t] \in Nodes
    BY <1>7 DEF Enqueue
  <2>2. channel' \in Seq(Tasks) /\ queueDepth' \in [Subs -> Nat]
    BY <1>7, <2>1, SendShape DEF Enqueue
  <2>3. QED
    BY <1>0, <1>7, <2>2 DEF Enqueue
<1>8. ASSUME NEW t \in Threads, EndDispatch(t)
      PROVE  Typed'
  <2>1. TypeOK'
    BY <1>0, <1>8 DEF EndDispatch
  <2>2. /\ pc[t] = "dispatch" /\ todo[t] = {} /\ UNCHANGED <<todo, entry, sub, node>>
        /\ event'[t] = None /\ pc'[t] = IF t \in Workers THEN "settle" ELSE "idle"
        /\ \A u \in Threads : u # t => pc'[u] = pc[u] /\ event'[u] = event[u]
    BY <1>8 DEF EndDispatch
  <2>3. \A u \in Writers : pc'[u] \in {"idle"} \cup Dispatching
    <3>1. SUFFICES ASSUME NEW u \in Writers
                   PROVE  pc'[u] \in {"idle"} \cup Dispatching
      OBVIOUS
    <3>2. u \in Threads /\ u \notin Workers /\ pc[u] \in {"idle"} \cup Dispatching
      OBVIOUS
    <3>3. QED
      BY ONLY <2>2, <3>2
  <2>4. \A u \in Workers : pc'[u] # "idle" /\ (Busy(u)' => sub'[u] \in Subs /\ node'[u] \in Nodes)
    <3>1. SUFFICES ASSUME NEW u \in Workers
                   PROVE  pc'[u] # "idle" /\ (Busy(u)' => sub'[u] \in Subs /\ node'[u] \in Nodes)
      OBVIOUS
    <3>2. u \in Threads /\ pc[u] # "idle" /\ (Busy(u) => sub[u] \in Subs /\ node[u] \in Nodes)
      OBVIOUS
    <3>3. CASE u = t
      BY <2>2, <3>2, <3>3
    <3>4. CASE u # t
      BY <2>2, <3>2, <3>4
    <3>5. QED
      BY <3>3, <3>4
  <2>5. \A u \in Threads : /\ pc'[u] \in Dispatching <=> event'[u] # None
                           /\ pc'[u] \in {"mark", "enqueue"} <=> entry'[u] # None
                           /\ pc'[u] \notin {"dispatch", "mark", "enqueue"} => todo'[u] = {}
    BY <2>2
  <2>6. LocalsOK'
    BY <2>3, <2>4, <2>5
  <2>7. QED
    BY <2>1, <2>6
<1>9. ASSUME NEW w \in Workers, Receive(w)
      PROVE  Typed'
  BY ZenonT(60), <1>0, <1>9, ReceiveShape DEF Receive
<1>10. ASSUME NEW w \in Workers, ExitWorker(w)
       PROVE  Typed'
  BY <1>0, <1>10 DEF ExitWorker
<1>11. ASSUME NEW w \in Workers, RunCallback(w)
       PROVE  Typed'
  <2>1. TypeOK'
    <3>1. /\ calls' = [calls EXCEPT ![sub[w]][node[w]] = @ + 1]
          /\ sub[w] \in Subs /\ node[w] \in Nodes
      BY <1>11 DEF RunCallback
    <3>2. calls' \in [Subs -> [Nodes -> Nat]]
      BY <3>1
    <3>3. pc' \in [Threads -> Steps] /\ again' \in [Workers -> BOOLEAN]
      BY ZenonT(60), <1>11 DEF RunCallback, MayRetry
    <3>4. /\ UNCHANGED <<entries, graph, channel, bridge, stopping, cursor, sub, node, attempt>>
          /\ open' \in BOOLEAN
      BY <1>11 DEF RunCallback
    <3>5. QED
      BY <1>0, <3>2, <3>3, <3>4
  <2>2. LocalsOK'
    BY ZenonT(60), <1>11 DEF RunCallback
  <2>3. QED
    BY <2>1, <2>2
<1>12. ASSUME NEW w \in Workers, NEW n \in Nodes, ReportPanic(w, n)
       PROVE  Typed'
  BY <1>0, <1>12 DEF ReportPanic, Commit
<1>13. ASSUME NEW w \in Workers, ReportRefused(w)
       PROVE  Typed'
  BY <1>0, <1>13 DEF ReportRefused
<1>14. ASSUME NEW w \in Workers, Settle(w)
       PROVE  Typed'
  <2>1. queueDepth[sub[w]] - 1 \in Nat /\ sub[w] \in Subs
    BY <1>14, SettledWasCounted DEF Settle
  <2>2. queueDepth' \in [Subs -> Nat]
    BY <1>14, <2>1 DEF Settle
  <2>3. QED
    BY <1>0, <1>14, <2>2 DEF Settle
<1>15. ASSUME NEW w \in Workers, CheckDrained(w)
       PROVE  Typed'
  <2>0. /\ TypeOK /\ cursor' = cursor /\ Busy(w) /\ pc[w] \notin Dispatching
        /\ \/ Proceed(w)
           \/ pc' = [pc EXCEPT ![w] = "clear"] /\ UNCHANGED <<sub, node, open>>
    BY <1>15 DEF CheckDrained
  <2>1. PICK step \in {"clear", "backoff", "receive", "drop"} :
          /\ pc' = [pc EXCEPT ![w] = step]
          /\ sub' \in {sub, [sub EXCEPT ![w] = None]}
          /\ node' \in {node, [node EXCEPT ![w] = None]}
          /\ step \notin {"receive", "drop"} => UNCHANGED <<sub, node>>
          /\ open' \in BOOLEAN
    BY <2>0, ProceedEnds
  <2>2. /\ LocalsOK'
        /\ pc' \in [Threads -> Steps]
        /\ sub' \in [Workers -> Subs \cup {None}]
        /\ node' \in [Workers -> Nodes \cup {None}]
    BY <1>15, <2>1, ProceedShape DEF CheckDrained
  <2>3. TypeOK'
    BY <1>0, <1>15, <2>1, <2>2 DEF CheckDrained
  <2>4. QED
    BY <2>2, <2>3
<1>16. ASSUME NEW w \in Workers, ClearLagged(w)
       PROVE  Typed'
  <2>0. /\ TypeOK /\ cursor' = cursor /\ Busy(w) /\ pc[w] \notin Dispatching
        /\ \/ Proceed(w)
           \/ pc' = [pc EXCEPT ![w] = "clear"] /\ UNCHANGED <<sub, node, open>>
    BY <1>16 DEF ClearLagged
  <2>1. PICK step \in {"clear", "backoff", "receive", "drop"} :
          /\ pc' = [pc EXCEPT ![w] = step]
          /\ sub' \in {sub, [sub EXCEPT ![w] = None]}
          /\ node' \in {node, [node EXCEPT ![w] = None]}
          /\ step \notin {"receive", "drop"} => UNCHANGED <<sub, node>>
          /\ open' \in BOOLEAN
    BY <2>0, ProceedEnds
  <2>2. /\ LocalsOK'
        /\ pc' \in [Threads -> Steps]
        /\ sub' \in [Workers -> Subs \cup {None}]
        /\ node' \in [Workers -> Nodes \cup {None}]
    BY <1>16, <2>1, ProceedShape DEF ClearLagged
  <2>3. TypeOK'
    BY <1>0, <1>16, <2>1, <2>2 DEF ClearLagged
  <2>4. QED
    BY <2>2, <2>3
<1>17. ASSUME NEW w \in Workers, Retry(w)
       PROVE  Typed'
  <2>1. TypeOK'
    <3>1. sub[w] \in Subs
      BY <1>17 DEF Retry
    <3>2. queueDepth' \in [Subs -> Nat]
      BY <1>17, <3>1 DEF Retry
    <3>3. QED
      BY <1>0, <1>17, <3>2 DEF Retry
  <2>2. LocalsOK'
    BY <1>17 DEF Retry
  <2>3. QED
    BY <2>1, <2>2
<1>18. ASSUME NEW w \in Workers, StopFails(w) \/ DropFails(w)
       PROVE  Typed'
  <2>1. /\ pc[w] \in {"stop", "drop"} /\ stopping' \in BOOLEAN
        /\ \/ pc[w] = "stop" /\ pc' = [pc EXCEPT ![w] = "report"]
           \/ pc' = [pc EXCEPT ![w] = "exited"]
        /\ UNCHANGED <<entries, graph, channel, open, bridge, cursor, task, calls>>
    BY <1>18 DEF StopFails, DropFails
  <2>2. TypeOK'
    BY <1>0, <2>1
  <2>3. /\ \A u \in Workers : pc'[u] # "idle" /\ (Busy(u)' => Busy(u))
        /\ \A u \in Threads : pc'[u] = pc[u] \/ (u = w /\ pc'[u] \in {"report", "exited"})
    BY <2>1
  <2>4. LocalsOK'
    BY <2>1, <2>3
  <2>5. QED
    BY <2>2, <2>4
<1>19. CASE UNCHANGED vars
  BY <1>19 DEF vars
<1>20. QED
  BY <1>1, <1>2, <1>3, <1>4, <1>5, <1>6, <1>7, <1>8, <1>9, <1>10, <1>11, <1>12, <1>13,
     <1>14, <1>15, <1>16, <1>17, <1>18, <1>19
  DEF Next, Use, Dispatch, Work, Fail, Return

-----------------------------------------------------------------------------
\* How many tasks of a subscription a channel holds, when one is sent and when
\* one is received.
TasksOf(q, s) == {i \in DOMAIN q : q[i].sub = s}

LEMMA CountAppend ==
  ASSUME NEW q \in Seq(Tasks), NEW k \in Tasks, NEW s
  PROVE  TasksOf(Append(q, k), s) =
           IF k.sub = s THEN TasksOf(q, s) \cup {Len(q) + 1} ELSE TasksOf(q, s)
<1>1. /\ DOMAIN q = 1..Len(q) /\ Len(q) \in Nat
      /\ DOMAIN Append(q, k) = 1..(Len(q) + 1)
      /\ \A i \in 1..Len(q) : Append(q, k)[i] = q[i]
      /\ Append(q, k)[Len(q) + 1] = k
  BY AppendProperties, LenProperties
<1>2. DOMAIN Append(q, k) = DOMAIN q \cup {Len(q) + 1} /\ Len(q) + 1 \notin DOMAIN q
  BY <1>1
<1>3. QED
  BY <1>1, <1>2 DEF TasksOf

LEMMA CountTail ==
  ASSUME NEW q \in Seq(Tasks), q # <<>>, NEW s
  PROVE  Cardinality(TasksOf(q, s)) =
           Cardinality(TasksOf(Tail(q), s)) + (IF Head(q).sub = s THEN 1 ELSE 0)
<1> DEFINE rest == TasksOf(q, s) \ {1}
           f == [i \in TasksOf(Tail(q), s) |-> i + 1]
<1>1. /\ Len(q) \in Nat \ {0} /\ DOMAIN q = 1..Len(q) /\ Head(q) = q[1]
      /\ Tail(q) \in Seq(Tasks) /\ Len(Tail(q)) = Len(q) - 1
      /\ DOMAIN Tail(q) = 1..(Len(q) - 1)
      /\ \A i \in 1..(Len(q) - 1) : Tail(q)[i] = q[i + 1]
  BY HeadTailProperties, LenProperties, EmptySeq
<1>2. f \in Bijection(TasksOf(Tail(q), s), rest)
  <2>1. f \in [TasksOf(Tail(q), s) -> rest]
    BY <1>1 DEF TasksOf
  <2>2. \A i, j \in TasksOf(Tail(q), s) : f[i] = f[j] => i = j
    BY <1>1 DEF TasksOf
  <2>3. ASSUME NEW j \in rest
        PROVE  \E i \in TasksOf(Tail(q), s) : f[i] = j
    <3>1. j - 1 \in TasksOf(Tail(q), s) /\ (j - 1) + 1 = j
      BY <1>1 DEF TasksOf
    <3>2. QED
      BY <3>1
  <2> HIDE DEF f, rest
  <2>4. QED
    BY <2>1, <2>2, <2>3, Fun_IsBij
<1>3. IsFiniteSet(TasksOf(q, s)) /\ IsFiniteSet(TasksOf(Tail(q), s))
  <2>1. IsFiniteSet(DOMAIN q) /\ IsFiniteSet(DOMAIN Tail(q))
    BY <1>1, FS_Interval
  <2>2. TasksOf(q, s) \subseteq DOMAIN q /\ TasksOf(Tail(q), s) \subseteq DOMAIN Tail(q)
    BY DEF TasksOf
  <2>3. QED
    BY <2>1, <2>2, FS_Subset
<1>4. Cardinality(rest) = Cardinality(TasksOf(Tail(q), s))
  BY <1>2, <1>3, FS_Bijection DEF ExistsBijection
<1>5. Cardinality(rest) = IF 1 \in TasksOf(q, s) THEN Cardinality(TasksOf(q, s)) - 1
                                                 ELSE Cardinality(TasksOf(q, s))
  BY <1>3, FS_RemoveElement
<1>6. 1 \in TasksOf(q, s) <=> Head(q).sub = s
  BY <1>1 DEF TasksOf
<1>7. Cardinality(TasksOf(q, s)) \in Nat
  BY <1>3, FS_CardinalityType
<1>8. QED
  BY <1>4, <1>5, <1>6, <1>7

LEMMA QueuedIsTasksOf ==
  \A s : Queued(s) = TasksOf(channel, s) /\ Queued(s)' = TasksOf(channel', s)
BY DEF Queued, TasksOf

\* Every step but four leaves the depth, the channel and the running tasks.
LEMMA DepthKept ==
  ASSUME QueueDepthExact, UNCHANGED <<channel, queueDepth>>,
         \A w \in Workers : /\ Unsettled(w)' <=> Unsettled(w)
                            /\ Unsettled(w) => sub'[w] = sub[w]
  PROVE  QueueDepthExact'
<1>1. \A s : Queued(s)' = Queued(s) /\ Running(s)' = Running(s)
  BY DEF Queued, Running
<1>2. QED
  BY <1>1 DEF QueueDepthExact

LEMMA DepthStep ==
  ASSUME Typed, QueueDepthExact, [Next]_vars
  PROVE  QueueDepthExact'
<1> USE DispatchAssumption DEF Goto, entries, graph, pool, cursor, task, Threads
<1>0. TypeOK /\ LocalsOK
  BY DEF Typed
<1>1. ASSUME NEW s \in Subs, Subscribe(s) \/ Unsubscribe(s)
      PROVE  QueueDepthExact'
  BY <1>1, DepthKept DEF Subscribe, Unsubscribe, Unsettled
<1>2. ASSUME NEW t \in Writers, NEW n \in Nodes, Write(t, n)
      PROVE  QueueDepthExact'
  BY <1>0, <1>2, DepthKept DEF Write, Commit, Unsettled, TypeOK
<1>3. ASSUME Shutdown \/ DropBridge \/ ShutdownReturns
      PROVE  QueueDepthExact'
  BY <1>3, DepthKept DEF Shutdown, DropBridge, ShutdownReturns, Unsettled
<1>4. ASSUME NEW t \in Threads,
             \/ TakeSnapshot(t) \/ MarkLagged(t) \/ EndDispatch(t)
             \/ \E s \in Subs : LoadDepth(t, s)
      PROVE  QueueDepthExact'
  BY <1>0, <1>4, DepthKept
  DEF TakeSnapshot, MarkLagged, EndDispatch, LoadDepth, Unsettled, TypeOK
<1>5. ASSUME NEW w \in Workers,
             \/ ExitWorker(w) \/ RunCallback(w) \/ StopFails(w) \/ DropFails(w)
             \/ ReportRefused(w) \/ CheckDrained(w)
             \/ ClearLagged(w) \/ \E n \in Nodes : ReportPanic(w, n)
      PROVE  QueueDepthExact'
  BY <1>0, <1>5, DepthKept
  DEF ExitWorker, RunCallback, StopFails, DropFails, ReportRefused, CheckDrained, ClearLagged,
      Proceed, EndTask, ReportPanic,
      Commit, Unsettled, TypeOK
<1>6. ASSUME NEW t \in Threads, Enqueue(t)
      PROVE  QueueDepthExact'
  <2>1. PICK s \in Subs, n \in Nodes : s = entry[t] /\ n = event[t] /\ SendTask(s, n)
    BY <1>0, <1>6 DEF Enqueue, TypeOK, LocalsOK, Dispatching
  <2>2. \A x : Running(x)' = Running(x)
    BY <1>0, <1>6 DEF Enqueue, Running, Unsettled, TypeOK
  <2>3. CASE open
    <3> DEFINE k == [sub |-> s, node |-> n]
    <3>1. channel' = Append(channel, k) /\ queueDepth' = [queueDepth EXCEPT ![s] = @ + 1]
      BY <2>1, <2>3 DEF SendTask, Add
    <3>2. channel \in Seq(Tasks) /\ k \in Tasks /\ k.sub = s
      BY <1>0 DEF TypeOK, Tasks
    <3>3. \A x : Queued(x)' = IF x = s THEN Queued(x) \cup {Len(channel) + 1} ELSE Queued(x)
      BY <3>1, <3>2, CountAppend, QueuedIsTasksOf
    <3>4. Len(channel) + 1 \notin Queued(s)
      BY <3>2, LenProperties DEF Queued
    <3>5. Cardinality(Queued(s)') = Cardinality(Queued(s)) + 1
      BY <3>3, <3>4, QueuedFinite, FS_AddElement
    <3>6. queueDepth \in [Subs -> Nat]
      BY <1>0 DEF TypeOK
    <3>7. QED
      BY SMTT(30), <2>2, <3>1, <3>3, <3>5, <3>6, QueuedFinite, RunningFinite DEF QueueDepthExact
  <2>4. CASE ~ open
    <3>1. UNCHANGED <<channel, queueDepth>>
      BY <2>1, <2>4 DEF SendTask
    <3>2. QED
      BY <2>2, <3>1 DEF QueueDepthExact, Queued
  <2>5. QED
    BY <2>3, <2>4
<1>7. ASSUME NEW w \in Workers, Receive(w)
      PROVE  QueueDepthExact'
  <2>1. /\ channel \in Seq(Tasks) /\ channel # <<>> /\ channel' = Tail(channel)
        /\ queueDepth' = queueDepth
    BY <1>0, <1>7 DEF Receive, TypeOK
  <2>2. PICK s \in Subs : s = Head(channel).sub
    BY <2>1, ReceiveShape
  <2>3. \A x : Cardinality(Queued(x)) = Cardinality(Queued(x)') + IF s = x THEN 1 ELSE 0
    BY <2>1, <2>2, CountTail, QueuedIsTasksOf
  <2>4. /\ w \notin Running(s) /\ Running(s)' = Running(s) \cup {w}
        /\ \A x : x # s => Running(x)' = Running(x)
    <3>1. /\ pc[w] = "receive" /\ pc'[w] = "run" /\ sub'[w] = s
          /\ \A u \in Workers : u # w => pc'[u] = pc[u] /\ sub'[u] = sub[u]
      BY <1>0, <1>7, <2>2 DEF Receive, TypeOK
    <3>2. QED
      BY <3>1 DEF Running, Unsettled
  <2>5. Cardinality(Running(s)') = Cardinality(Running(s)) + 1
    <3>1. Cardinality(Running(s) \cup {w}) = Cardinality(Running(s)) + 1
      BY <2>4, RunningFinite, FS_AddElement
    <3>2. QED
      BY <2>4, <3>1
  <2>6. \A x : Cardinality(Queued(x)) \in Nat /\ Cardinality(Queued(x)') \in Nat
    <3>1. channel' \in Seq(Tasks)
      BY <2>1, ReceiveShape
    <3>2. IsFiniteSet(DOMAIN channel')
      BY <3>1, LenProperties, FS_Interval
    <3>3. \A x : IsFiniteSet(Queued(x)')
      BY <3>2, FS_Subset DEF Queued
    <3>4. QED
      BY <3>3, QueuedFinite, FS_CardinalityType
  <2>7. SUFFICES ASSUME NEW x \in Subs
                 PROVE  queueDepth'[x] = Cardinality(Queued(x)') + Cardinality(Running(x)')
    BY DEF QueueDepthExact
  <2>8. queueDepth[x] = Cardinality(Queued(x)) + Cardinality(Running(x))
    BY DEF QueueDepthExact
  <2>9. CASE x = s
    BY <2>1, <2>3, <2>5, <2>6, <2>8, <2>9, RunningFinite
  <2>10. CASE x # s
    BY <2>1, <2>3, <2>4, <2>6, <2>8, <2>10, RunningFinite
  <2>11. QED
    BY <2>9, <2>10
<1>8. ASSUME NEW w \in Workers, Settle(w)
      PROVE  QueueDepthExact'
  <2>1. PICK s \in Subs : s = sub[w]
    BY <1>0, <1>8 DEF Settle, LocalsOK, Busy
  <2>2. queueDepth \in [Subs -> Nat] /\ queueDepth' = [queueDepth EXCEPT ![s] = @ - 1]
    BY <1>0, <1>8, <2>1 DEF Settle, Add, TypeOK
  <2>3. /\ w \in Running(s) /\ Running(s)' = Running(s) \ {w}
        /\ \A x : x # s => Running(x)' = Running(x)
    BY <1>0, <1>8, <2>1 DEF Settle, Running, Unsettled, TypeOK
  <2>4. Cardinality(Running(s)') = Cardinality(Running(s)) - 1
    <3>1. Cardinality(Running(s) \ {w}) = Cardinality(Running(s)) - 1
      BY <2>3, RunningFinite, FS_RemoveElement
    <3>2. QED
      BY <2>3, <3>1
  <2>5. \A x : Queued(x)' = Queued(x)
    BY <1>8 DEF Settle, Queued
  <2>6. SUFFICES ASSUME NEW x \in Subs
                 PROVE  queueDepth'[x] = Cardinality(Queued(x)') + Cardinality(Running(x)')
    BY DEF QueueDepthExact
  <2>7. queueDepth[x] = Cardinality(Queued(x)) + Cardinality(Running(x))
    BY DEF QueueDepthExact
  <2>8. CASE x = s
    BY <2>2, <2>4, <2>5, <2>7, <2>8, QueuedFinite, RunningFinite
  <2>9. CASE x # s
    BY <2>2, <2>3, <2>5, <2>7, <2>9
  <2>10. QED
    BY <2>8, <2>9
<1>9. ASSUME NEW w \in Workers, Retry(w)
      PROVE  QueueDepthExact'
  <2>1. PICK s \in Subs : s = sub[w]
    BY <1>0, <1>9 DEF Retry, LocalsOK, Busy
  <2>2. queueDepth \in [Subs -> Nat] /\ queueDepth' = [queueDepth EXCEPT ![s] = @ + 1]
    BY <1>0, <1>9, <2>1 DEF Retry, Add, TypeOK
  <2>3. /\ w \notin Running(s) /\ Running(s)' = Running(s) \cup {w}
        /\ \A x : x # s => Running(x)' = Running(x)
    BY <1>0, <1>9, <2>1 DEF Retry, Running, Unsettled, TypeOK
  <2>4. Cardinality(Running(s)') = Cardinality(Running(s)) + 1
    <3>1. Cardinality(Running(s) \cup {w}) = Cardinality(Running(s)) + 1
      BY <2>3, RunningFinite, FS_AddElement
    <3>2. QED
      BY <2>3, <3>1
  <2>5. \A x : Queued(x)' = Queued(x)
    BY <1>9 DEF Retry, Queued
  <2>6. SUFFICES ASSUME NEW x \in Subs
                 PROVE  queueDepth'[x] = Cardinality(Queued(x)') + Cardinality(Running(x)')
    BY DEF QueueDepthExact
  <2>7. queueDepth[x] = Cardinality(Queued(x)) + Cardinality(Running(x))
    BY DEF QueueDepthExact
  <2>8. CASE x = s
    BY <2>2, <2>4, <2>5, <2>7, <2>8, QueuedFinite, RunningFinite
  <2>9. CASE x # s
    BY <2>2, <2>3, <2>5, <2>7, <2>9
  <2>10. QED
    BY <2>8, <2>9
<1>10. CASE UNCHANGED vars
  BY <1>10, DepthKept DEF vars, Unsettled
<1>11. QED
  BY <1>1, <1>2, <1>3, <1>4, <1>5, <1>6, <1>7, <1>8, <1>9, <1>10
  DEF Next, Use, Dispatch, Work, Fail, Return

\* The first layer holds in every state.
LEMMA FirstLayer == Spec => [](Typed /\ QueueDepthExact)
<1>1. Init => Typed /\ QueueDepthExact
  <2> SUFFICES ASSUME Init
               PROVE  Typed /\ QueueDepthExact
    OBVIOUS
  <2> USE DispatchAssumption DEF Threads
  <2>1. PICK i \in Instances : StartWith(i)
    BY DEF Init
  <2>2. /\ lagged_threshold \in Nat \ {0} /\ removed \subseteq Subs /\ written \subseteq Nodes
        /\ pc \in [Threads -> {"idle", "receive", "absent"}]
        /\ \A t \in Writers : pc[t] = "idle"
        /\ \A w \in Workers : pc[w] \in {"receive", "absent"}
    BY <2>1 DEF StartWith
  <2>3. TypeOK
    <3>1. channel \in Seq(Tasks)
      BY EmptySeq DEF Init
    <3>2. QED
      BY <2>2, <3>1 DEF Init, TypeOK, Steps
  <2>4. LocalsOK
    BY <2>2 DEF Init, LocalsOK, Dispatching, Busy
  <2>5. \A s : Queued(s) = {} /\ Running(s) = {}
    BY <2>2 DEF Init, Queued, Running, Unsettled
  <2>6. QueueDepthExact
    <3>1. \A s : Cardinality(Queued(s)) = 0 /\ Cardinality(Running(s)) = 0
      BY <2>5, FS_EmptySet
    <3>2. QED
      BY <3>1 DEF Init, QueueDepthExact
  <2>7. QED
    BY <2>3, <2>4, <2>6 DEF Typed
<1>2. Typed /\ QueueDepthExact /\ [Next]_vars => Typed' /\ QueueDepthExact'
  BY TypedStep, DepthStep
<1>3. QED
  BY <1>1, <1>2, PTL DEF Spec

\* Every variable keeps its type, and queue_depth is exact: relaxed counters
\* that no lock ties to the channel never wrap below zero, in any interleaving
\* of dispatchers, workers, retries, panics and a shutdown.
THEOREM DepthExact == Spec => [](TypeOK /\ QueueDepthExact)
<1>1. Typed => TypeOK
  BY DEF Typed
<1>2. QED
  BY <1>1, FirstLayer, PTL

-----------------------------------------------------------------------------
(***************************************************************************)
(* Second layer: calls.  A node is dispatched by one thread, which visits  *)
(* each subscription once; so a task is sent once, held by one worker, and *)
(* the worker's own steps count the calls it makes.                        *)
(***************************************************************************)
\* Subscription s was sent node n: queued, held by a worker, or called.
Sent(s, n) ==
  \/ calls[s][n] # 0
  \/ \E i \in DOMAIN channel : channel[i].sub = s /\ channel[i].node = n
  \/ \E w \in Workers : sub[w] = s /\ node[w] = n

ToVisit(t, s) == pc[t] = "snapshot" \/ s \in todo[t] \/ entry[t] = s

SentOnce ==
  /\ \A n \in Nodes \ written :
       n \notin dying /\ blame[n] = {} /\ \A s \in Subs : ~ Sent(s, n)
  /\ \A t \in Threads : event[t] # None => event[t] \in written
  /\ \A t, u \in Threads : event[t] # None /\ event[t] = event[u] => t = u
  /\ \A t \in Threads, s \in Subs : event[t] # None /\ ToVisit(t, s) => ~ Sent(s, event[t])
  /\ \A t \in Threads : entry[t] \notin todo[t]

OneHolder ==
  /\ \A i, j \in DOMAIN channel :
       channel[i].sub = channel[j].sub /\ channel[i].node = channel[j].node => i = j
  /\ \A i \in DOMAIN channel :
       /\ calls[channel[i].sub][channel[i].node] = 0
       /\ \A w \in Workers : ~ (sub[w] = channel[i].sub /\ node[w] = channel[i].node)
  /\ \A w, x \in Workers : sub[w] # None /\ sub[w] = sub[x] /\ node[w] = node[x] => w = x

CallsCounted ==
  /\ \A s \in Subs, n \in Nodes : calls[s][n] <= 2
  /\ \A w \in Workers : Busy(w) =>
       calls[sub[w]][node[w]] = IF pc[w] = "run" THEN attempt[w] - 1 ELSE attempt[w]
  /\ \A w \in Workers : Busy(w) /\ pc[w] # "run" /\ again[w] => attempt[w] = 1
  /\ \A w \in Workers : pc[w] = "backoff" => again[w]

OwnSkipped ==
  \A s \in Subs, n \in Nodes : blame[n] = {s} =>
    /\ ~ Sent(s, n)
    /\ \A t \in Threads : event[t] = n =>
         t \in Workers /\ sub[t] = s /\ s \notin todo[t] /\ entry[t] # s

CallLayer == SentOnce /\ OneHolder /\ CallsCounted /\ OwnSkipped

\* The elements of a channel after a send and after a receive.
LEMMA SendElements ==
  ASSUME Typed, NEW s \in Subs, NEW n \in Nodes,
         channel' = Append(channel, [sub |-> s, node |-> n])
  PROVE  /\ DOMAIN channel' = DOMAIN channel \cup {Len(channel) + 1}
         /\ Len(channel) + 1 \notin DOMAIN channel
         /\ \A i \in DOMAIN channel : channel'[i] = channel[i]
         /\ channel'[Len(channel) + 1].sub = s /\ channel'[Len(channel) + 1].node = n
<1>1. channel \in Seq(Tasks) /\ [sub |-> s, node |-> n] \in Tasks
  BY DEF Typed, TypeOK, Tasks
<1>2. /\ DOMAIN channel = 1..Len(channel) /\ Len(channel) \in Nat
      /\ DOMAIN channel' = 1..(Len(channel) + 1)
      /\ \A i \in 1..Len(channel) : channel'[i] = channel[i]
      /\ channel'[Len(channel) + 1] = [sub |-> s, node |-> n]
  BY <1>1, AppendProperties, LenProperties
<1>3. QED
  BY <1>2

LEMMA ReceiveElements ==
  ASSUME Typed, channel # <<>>, channel' = Tail(channel)
  PROVE  /\ Head(channel) = channel[1] /\ 1 \in DOMAIN channel
         /\ \A i \in DOMAIN channel' :
              i \in Nat /\ i + 1 \in DOMAIN channel /\ i + 1 # 1 /\ channel'[i] = channel[i + 1]
<1>1. channel \in Seq(Tasks)
  BY DEF Typed, TypeOK
<1>2. /\ Len(channel) \in Nat \ {0} /\ DOMAIN channel = 1..Len(channel)
      /\ Head(channel) = channel[1]
      /\ DOMAIN channel' = 1..(Len(channel) - 1)
      /\ \A i \in 1..(Len(channel) - 1) : channel'[i] = channel[i + 1]
  BY <1>1, HeadTailProperties, LenProperties, EmptySeq
<1>3. QED
  BY <1>2

LEMMA ChannelElements ==
  ASSUME Typed
  PROVE  \A i \in DOMAIN channel : channel[i].sub \in Subs /\ channel[i].node \in Nodes
<1>1. channel \in Seq(Tasks)
  BY DEF Typed, TypeOK
<1>2. \A i \in DOMAIN channel : channel[i] \in Tasks
  BY <1>1, LenProperties, ElementOfSeq
<1>3. QED
  BY <1>2 DEF Tasks

\* Steps that send nothing.
LEMMA SentKept ==
  ASSUME Typed, Typed',
         \/ UNCHANGED <<channel, calls>>
            /\ \A w \in Workers : sub'[w] \in {sub[w], None} /\ node'[w] \in {node[w], None}
         \/ \E w \in Workers : Receive(w) \/ RunCallback(w)
  PROVE  \A s \in Subs, n \in Nodes : Sent(s, n)' => Sent(s, n)
<1> USE DispatchAssumption
<1>1. CASE UNCHANGED <<channel, calls>>
            /\ \A w \in Workers : sub'[w] \in {sub[w], None} /\ node'[w] \in {node[w], None}
  BY <1>1 DEF Sent
<1>2. ASSUME NEW w \in Workers, Receive(w)
      PROVE  \A s \in Subs, n \in Nodes : Sent(s, n)' => Sent(s, n)
  <2>1. /\ channel # <<>> /\ channel' = Tail(channel) /\ calls' = calls
        /\ sub' = [sub EXCEPT ![w] = Head(channel).sub]
        /\ node' = [node EXCEPT ![w] = Head(channel).node]
        /\ sub \in [Workers -> Subs \cup {None}] /\ node \in [Workers -> Nodes \cup {None}]
    BY <1>2 DEF Receive, Typed, TypeOK, task
  <2>2. QED
    BY <2>1, ReceiveElements DEF Sent
<1>3. ASSUME NEW w \in Workers, RunCallback(w)
      PROVE  \A s \in Subs, n \in Nodes : Sent(s, n)' => Sent(s, n)
  <2>1. /\ UNCHANGED <<channel, sub, node>>
        /\ calls' = [calls EXCEPT ![sub[w]][node[w]] = @ + 1]
    BY <1>3 DEF RunCallback, pool
  <2>2. ASSUME NEW s \in Subs, NEW n \in Nodes, calls'[s][n] # 0
        PROVE  calls[s][n] # 0 \/ (sub[w] = s /\ node[w] = n)
    BY <2>1, <2>2 DEF Typed, TypeOK
  <2>3. QED
    BY <2>1, <2>2 DEF Sent
<1>4. QED
  BY <1>1, <1>2, <1>3

LEMMA SentByEnqueue ==
  ASSUME Typed, Typed', NEW t \in Threads, Enqueue(t)
  PROVE  \A s \in Subs, n \in Nodes : Sent(s, n)' => Sent(s, n) \/ (s = entry[t] /\ n = event[t])
<1>1. PICK s \in Subs, n \in Nodes : s = entry[t] /\ n = event[t] /\ SendTask(s, n)
  BY DEF Enqueue, Typed, TypeOK, LocalsOK, Dispatching
<1>2. UNCHANGED <<calls, sub, node>>
  BY DEF Enqueue, task
<1>3. CASE open
  BY <1>1, <1>2, <1>3, SendElements DEF SendTask, Sent
<1>4. CASE ~ open
  BY <1>1, <1>2, <1>4 DEF SendTask, Sent
<1>5. QED
  BY <1>3, <1>4

\* A step that sends nothing, commits nothing, and only goes on visiting.
LEMMA SentOnceKept ==
  ASSUME Typed, Typed', SentOnce, UNCHANGED graph,
         \A s \in Subs, n \in Nodes : Sent(s, n)' => Sent(s, n),
         \A t \in Threads : event'[t] \in {None, event[t]},
         \A t \in Threads : entry'[t] \notin todo'[t],
         \A t \in Threads, s \in Subs : event'[t] # None /\ ToVisit(t, s)' => ToVisit(t, s)
  PROVE  SentOnce'
<1>1. \A t \in Threads : event'[t] # None => event'[t] = event[t] /\ event[t] \in Nodes
  BY DEF Typed, TypeOK
<1>2. QED
  BY <1>1 DEF SentOnce, graph

\* A commit: the node is new to everybody, and its thread was dispatching none.
LEMMA SentOnceCommit ==
  ASSUME Typed, Typed', SentOnce, NEW t \in Threads, NEW n \in Nodes, Commit(t, n),
         event[t] = None, UNCHANGED <<todo, entry>>,
         \A s \in Subs, m \in Nodes : Sent(s, m)' => Sent(s, m),
         dying' \subseteq dying \cup {n},
         \A m \in Nodes : m # n => blame'[m] = blame[m]
  PROVE  SentOnce'
<1> USE DispatchAssumption
<1>1. /\ n \notin written /\ written' = written \cup {n}
      /\ event'[t] = n /\ pc'[t] = "snapshot"
      /\ \A u \in Threads : u # t => event'[u] = event[u] /\ pc'[u] = pc[u]
  BY DEF Commit, Goto, Typed, TypeOK
<1>2. \A s \in Subs : ~ Sent(s, n)'
  BY <1>1 DEF SentOnce
<1>3. \A u \in Threads : u # t /\ event[u] # None => event[u] # n /\ event[u] \in Nodes
  BY <1>1 DEF SentOnce, Typed, TypeOK
<1>4. \A m \in Nodes \ written' :
        m \notin dying' /\ blame'[m] = {} /\ \A s \in Subs : ~ Sent(s, m)'
  BY <1>1 DEF SentOnce
<1>5. \A u \in Threads : event'[u] # None => event'[u] \in written'
  BY <1>1 DEF SentOnce
<1>6. \A u, v \in Threads : event'[u] # None /\ event'[u] = event'[v] => u = v
  BY <1>1, <1>3 DEF SentOnce
<1>7. \A u \in Threads, s \in Subs :
        event'[u] # None /\ ToVisit(u, s)' => ~ Sent(s, event[u])'
  BY <1>1, <1>2, <1>3 DEF SentOnce, ToVisit
<1>8. QED
  BY <1>4, <1>5, <1>6, <1>7 DEF SentOnce

LEMMA SentOnceStep ==
  ASSUME Typed, Typed', SentOnce, [Next]_vars
  PROVE  SentOnce'
<1> USE DispatchAssumption DEF Goto, entries, graph, pool, cursor, task, Threads
<1>0. TypeOK /\ LocalsOK
  BY DEF Typed
<1>1. ASSUME NEW s \in Subs, Subscribe(s) \/ Unsubscribe(s)
      PROVE  SentOnce'
  BY <1>1, SentKept, SentOnceKept DEF Subscribe, Unsubscribe, ToVisit, SentOnce
<1>2. ASSUME NEW t \in Writers, NEW n \in Nodes, Write(t, n)
      PROVE  SentOnce'
  <2>1. event[t] = None
    BY <1>0, <1>2 DEF Write, LocalsOK, Dispatching
  <2>2. QED
    BY <1>2, <2>1, SentKept, SentOnceCommit DEF Write
<1>3. ASSUME Shutdown \/ DropBridge \/ ShutdownReturns
      PROVE  SentOnce'
  BY <1>3, SentKept, SentOnceKept DEF Shutdown, DropBridge, ShutdownReturns, ToVisit, SentOnce
<1>4. ASSUME NEW t \in Threads, TakeSnapshot(t)
      PROVE  SentOnce'
  <2>1. \A u \in Threads, s \in Subs : ToVisit(u, s)' => ToVisit(u, s)
    BY <1>0, <1>4 DEF TakeSnapshot, ToVisit, TypeOK
  <2>2. \A u \in Threads : entry'[u] \notin todo'[u]
    <3>1. /\ entry' = entry /\ entry[t] = None /\ todo'[t] \subseteq Subs
          /\ \A u \in Threads : u # t => todo'[u] = todo[u]
      <4>1. pc[t] = "snapshot" /\ entry' = entry
        BY <1>4 DEF TakeSnapshot
      <4>2. entry[t] = None
        BY <1>0, <4>1 DEF LocalsOK
      <4>3. todo'[t] \subseteq Subs
        BY DEF Typed, TypeOK
      <4>4. QED
        BY <1>0, <1>4, <4>1, <4>2, <4>3 DEF TakeSnapshot, TypeOK
    <3>2. QED
      BY <3>1 DEF SentOnce
  <2>3. \A s \in Subs, n \in Nodes : Sent(s, n)' => Sent(s, n)
    BY <1>4, SentKept DEF TakeSnapshot
  <2>4. QED
    BY <1>4, <2>1, <2>2, <2>3, SentOnceKept DEF TakeSnapshot
<1>5. ASSUME NEW t \in Threads, NEW s \in Subs, LoadDepth(t, s)
      PROVE  SentOnce'
  <2>1. \A u \in Threads, x \in Subs : ToVisit(u, x)' => ToVisit(u, x)
    BY <1>0, <1>5 DEF LoadDepth, ToVisit, TypeOK
  <2>2. \A u \in Threads : entry'[u] \notin todo'[u]
    BY <1>0, <1>5 DEF LoadDepth, SentOnce, TypeOK
  <2>3. \A x \in Subs, n \in Nodes : Sent(x, n)' => Sent(x, n)
    BY <1>5, SentKept DEF LoadDepth
  <2>4. QED
    BY <1>5, <2>1, <2>2, <2>3, SentOnceKept DEF LoadDepth
<1>6. ASSUME NEW t \in Threads, MarkLagged(t)
      PROVE  SentOnce'
  <2>1. \A u \in Threads, x \in Subs : ToVisit(u, x)' => ToVisit(u, x)
    BY <1>0, <1>6 DEF MarkLagged, ToVisit, TypeOK
  <2>2. \A u \in Threads : entry'[u] \notin todo'[u]
    BY <1>0, <1>6 DEF MarkLagged, SentOnce, TypeOK
  <2>3. \A x \in Subs, n \in Nodes : Sent(x, n)' => Sent(x, n)
    BY <1>6, SentKept DEF MarkLagged
  <2>4. QED
    BY <1>6, <2>1, <2>2, <2>3, SentOnceKept DEF MarkLagged
<1>7. ASSUME NEW t \in Threads, Enqueue(t)
      PROVE  SentOnce'
  <2>1. PICK s \in Subs, n \in Nodes : s = entry[t] /\ n = event[t]
    BY <1>0, <1>7 DEF Enqueue, TypeOK, LocalsOK, Dispatching
  <2>2. \A x \in Subs, m \in Nodes : Sent(x, m)' => Sent(x, m) \/ (x = s /\ m = n)
    BY <1>7, <2>1, SentByEnqueue
  <2>3. /\ UNCHANGED <<graph, event, todo>> /\ n # None
        /\ entry'[t] = None /\ pc'[t] = "dispatch" /\ s \notin todo[t]
        /\ \A u \in Threads : u # t => entry'[u] = entry[u] /\ pc'[u] = pc[u]
    BY <1>0, <1>7, <2>1 DEF Enqueue, TypeOK, SentOnce
  <2>4. \A m \in Nodes \ written' :
          m \notin dying' /\ blame'[m] = {} /\ \A x \in Subs : ~ Sent(x, m)'
    BY <2>1, <2>2, <2>3 DEF SentOnce
  <2>5. \A u \in Threads : entry'[u] \notin todo'[u]
    BY <1>0, <2>3 DEF SentOnce, TypeOK
  <2>6. ASSUME NEW u \in Threads, NEW x \in Subs, event'[u] # None, ToVisit(u, x)'
        PROVE  ~ Sent(x, event[u])'
    <3>1. event'[u] = event[u] /\ event[u] \in Nodes
      BY <1>0, <2>3, <2>6 DEF TypeOK
    <3>2. CASE u = t
      <4>1. x \in todo[t]
        BY <2>3, <2>6, <3>2 DEF ToVisit
      <4>2. ToVisit(t, x) /\ x # s
        BY <2>3, <4>1 DEF ToVisit
      <4>3. QED
        BY <2>1, <2>2, <2>3, <3>1, <3>2, <4>2 DEF SentOnce
    <3>3. CASE u # t
      <4>1. ToVisit(u, x) /\ event[u] # n
        BY <2>1, <2>3, <2>6, <3>1, <3>3 DEF ToVisit, SentOnce
      <4>2. QED
        BY <2>2, <2>6, <3>1, <4>1 DEF SentOnce
    <3>4. QED
      BY <3>2, <3>3
  <2>7. QED
    BY <2>3, <2>4, <2>5, <2>6 DEF SentOnce
<1>8. ASSUME NEW t \in Threads, EndDispatch(t)
      PROVE  SentOnce'
  <2>1. \A u \in Threads, x \in Subs : event'[u] # None /\ ToVisit(u, x)' => ToVisit(u, x)
    BY <1>0, <1>8 DEF EndDispatch, ToVisit, TypeOK
  <2>2. \A x \in Subs, n \in Nodes : Sent(x, n)' => Sent(x, n)
    BY <1>8, SentKept DEF EndDispatch
  <2>3. \A u \in Threads : event'[u] \in {None, event[u]} /\ entry'[u] \notin todo'[u]
    BY <1>0, <1>8 DEF EndDispatch, SentOnce, TypeOK
  <2>4. QED
    BY <1>8, <2>1, <2>2, <2>3, SentOnceKept DEF EndDispatch
<1>9. ASSUME NEW w \in Workers,
             \/ Receive(w) \/ ExitWorker(w) \/ RunCallback(w) \/ StopFails(w) \/ DropFails(w)
             \/ ReportRefused(w)
             \/ Settle(w) \/ CheckDrained(w) \/ ClearLagged(w) \/ Retry(w)
      PROVE  SentOnce'
  <2>1. UNCHANGED <<graph, cursor>>
    BY <1>9
    DEF Receive, ExitWorker, RunCallback, StopFails, DropFails, ReportRefused, Settle,
        CheckDrained, ClearLagged, Retry
  <2>2. \A u \in Threads, x \in Subs : ToVisit(u, x)' => ToVisit(u, x)
    BY <1>0, <1>9, <2>1
    DEF Receive, ExitWorker, RunCallback, StopFails, DropFails, ReportRefused, Settle,
        CheckDrained, ClearLagged, Retry,
        Proceed, EndTask, ToVisit, TypeOK
  <2>3. \A x \in Subs, n \in Nodes : Sent(x, n)' => Sent(x, n)
    <3>1. CASE Receive(w) \/ RunCallback(w)
      BY <3>1, SentKept
    <3>2. CASE \/ ExitWorker(w) \/ StopFails(w) \/ DropFails(w) \/ ReportRefused(w)
               \/ Settle(w) \/ CheckDrained(w) \/ ClearLagged(w) \/ Retry(w)
      <4>1. UNCHANGED <<channel, calls>>
        BY <3>2 DEF ExitWorker, StopFails, DropFails, ReportRefused, Settle, CheckDrained,
            ClearLagged, Retry
      <4>2. Proceed(w) \/ UNCHANGED <<sub, node>>
        BY <3>2
        DEF ExitWorker, StopFails, DropFails, ReportRefused, Settle, CheckDrained, ClearLagged,
            Retry
      <4>3. \A u \in Workers : sub'[u] \in {sub[u], None} /\ node'[u] \in {node[u], None}
        BY <1>0, <4>2, ProceedLocals
      <4>4. QED
        BY <4>1, <4>3, SentKept
    <3>3. QED
      BY <1>9, <3>1, <3>2
  <2>4. QED
    BY <2>1, <2>2, <2>3, SentOnceKept DEF SentOnce
<1>10. ASSUME NEW w \in Workers, NEW n \in Nodes, ReportPanic(w, n)
       PROVE  SentOnce'
  <2>1. event[w] = None
    BY <1>0, <1>10 DEF ReportPanic, LocalsOK, Dispatching
  <2>2. \A x \in Subs, m \in Nodes : Sent(x, m)' => Sent(x, m)
    BY <1>10, SentKept DEF ReportPanic
  <2>3. \A m \in Nodes : m # n => blame'[m] = blame[m]
    BY <1>0, <1>10 DEF ReportPanic, TypeOK
  <2>4. QED
    BY <1>10, <2>1, <2>2, <2>3, SentOnceCommit DEF ReportPanic
<1>11. CASE UNCHANGED vars
  BY <1>11, SentKept, SentOnceKept DEF vars, ToVisit, SentOnce
<1>12. QED
  BY <1>1, <1>2, <1>3, <1>4, <1>5, <1>6, <1>7, <1>8, <1>9, <1>10, <1>11
  DEF Next, Use, Dispatch, Work, Fail, Return

\* Steps that touch neither the channel nor the calls nor what workers hold.
LEMMA HolderKept ==
  ASSUME OneHolder, UNCHANGED <<channel, calls, sub, node>>
  PROVE  OneHolder'
BY DEF OneHolder

LEMMA CountsKept ==
  ASSUME Typed, CallsCounted, UNCHANGED <<calls, sub, node, attempt, again>>,
         \A w \in Workers : /\ Busy(w)' => Busy(w)
                            /\ pc'[w] = "run" <=> pc[w] = "run"
                            /\ pc'[w] = "backoff" => pc[w] = "backoff"
  PROVE  CallsCounted'
BY DEF CallsCounted

LEMMA HolderStep ==
  ASSUME Typed, Typed', SentOnce, OneHolder, CallsCounted, [Next]_vars
  PROVE  OneHolder' /\ CallsCounted'
<1> USE DispatchAssumption DEF Goto, entries, graph, pool, cursor, task, Threads
<1>0. TypeOK /\ LocalsOK
  BY DEF Typed
<1>1. ASSUME Use
      PROVE  OneHolder' /\ CallsCounted'
  BY <1>0, <1>1, HolderKept, CountsKept
  DEF Use, Subscribe, Unsubscribe, Write, Commit, Shutdown, DropBridge, Busy, TypeOK
<1>2. ASSUME NEW t \in Threads,
             \/ TakeSnapshot(t) \/ MarkLagged(t) \/ EndDispatch(t)
             \/ \E s \in Subs : LoadDepth(t, s)
      PROVE  OneHolder' /\ CallsCounted'
  BY <1>0, <1>2, HolderKept, CountsKept
  DEF TakeSnapshot, MarkLagged, EndDispatch, LoadDepth, Busy, TypeOK
<1>3. ASSUME NEW t \in Threads, Enqueue(t)
      PROVE  OneHolder' /\ CallsCounted'
  <2>1. PICK s \in Subs, n \in Nodes : s = entry[t] /\ n = event[t] /\ SendTask(s, n)
    BY <1>0, <1>3 DEF Enqueue, TypeOK, LocalsOK, Dispatching
  <2>2. ~ Sent(s, n)
    BY <2>1 DEF SentOnce, ToVisit
  <2>3. UNCHANGED <<calls, sub, node, attempt, again>>
    BY <1>3 DEF Enqueue
  <2>4. CallsCounted'
    BY <1>0, <1>3, <2>3, CountsKept DEF Enqueue, Busy, TypeOK
  <2>5. CASE open
    <3>1. channel' = Append(channel, [sub |-> s, node |-> n])
      BY <2>1, <2>5 DEF SendTask
    <3> DEFINE last == Len(channel) + 1
    <3>2. /\ DOMAIN channel' = DOMAIN channel \cup {last} /\ last \notin DOMAIN channel
          /\ \A i \in DOMAIN channel : channel'[i] = channel[i]
          /\ channel'[last].sub = s /\ channel'[last].node = n
      BY <3>1, SendElements
    <3> HIDE DEF last
    <3>3. /\ calls[s][n] = 0
          /\ \A i \in DOMAIN channel : ~ (channel[i].sub = s /\ channel[i].node = n)
          /\ \A w \in Workers : ~ (sub[w] = s /\ node[w] = n)
      BY <2>2 DEF Sent
    <3>4. OneHolder'
      BY <2>3, <3>2, <3>3 DEF OneHolder
    <3>5. QED
      BY <2>4, <3>4
  <2>6. CASE ~ open
    BY <2>1, <2>3, <2>4, <2>6, HolderKept DEF SendTask
  <2>7. QED
    BY <2>5, <2>6
<1>4. ASSUME NEW w \in Workers, Receive(w)
      PROVE  OneHolder' /\ CallsCounted'
  <2>1. /\ channel # <<>> /\ channel' = Tail(channel) /\ UNCHANGED <<calls, again>>
        /\ pc[w] = "receive" /\ pc'[w] = "run" /\ attempt'[w] = 1
        /\ sub'[w] = Head(channel).sub /\ node'[w] = Head(channel).node
        /\ \A x \in Workers : x # w =>
             /\ sub'[x] = sub[x] /\ node'[x] = node[x]
             /\ pc'[x] = pc[x] /\ attempt'[x] = attempt[x]
    BY <1>0, <1>4 DEF Receive, TypeOK
  <2>2. /\ 1 \in DOMAIN channel /\ sub'[w] = channel[1].sub /\ node'[w] = channel[1].node
        /\ \A i \in DOMAIN channel' :
             i \in Nat /\ i + 1 \in DOMAIN channel /\ i + 1 # 1 /\ channel'[i] = channel[i + 1]
    BY <2>1, ReceiveElements
  <2>3. /\ calls[sub'[w]][node'[w]] = 0
        /\ \A x \in Workers : ~ (sub[x] = sub'[w] /\ node[x] = node'[w])
    BY <2>2 DEF OneHolder
  <2>4. \A i, j \in DOMAIN channel' :
          channel'[i].sub = channel'[j].sub /\ channel'[i].node = channel'[j].node => i = j
    BY <2>2 DEF OneHolder
  <2>5. \A i \in DOMAIN channel' :
          /\ calls[channel'[i].sub][channel'[i].node] = 0
          /\ \A x \in Workers : ~ (sub'[x] = channel'[i].sub /\ node'[x] = channel'[i].node)
    BY <2>1, <2>2 DEF OneHolder
  <2>6. \A x, y \in Workers :
          sub'[x] # None /\ sub'[x] = sub'[y] /\ node'[x] = node'[y] => x = y
    BY <2>1, <2>3 DEF OneHolder
  <2>7. CallsCounted'
    <3>1. ASSUME NEW x \in Workers, Busy(x)'
          PROVE  /\ calls[sub'[x]][node'[x]] = IF pc'[x] = "run" THEN attempt'[x] - 1 ELSE attempt'[x]
                 /\ pc'[x] # "run" /\ again[x] => attempt'[x] = 1
      <4>1. CASE x = w
        BY <2>1, <2>3, <4>1
      <4>2. CASE x # w
        BY <2>1, <3>1, <4>2 DEF CallsCounted, Busy
      <4>3. QED
        BY <4>1, <4>2
    <3>2. \A x \in Workers : pc'[x] = "backoff" => again[x]
      BY <2>1 DEF CallsCounted
    <3>3. QED
      BY <2>1, <3>1, <3>2 DEF CallsCounted
  <2>8. QED
    BY <2>1, <2>4, <2>5, <2>6, <2>7 DEF OneHolder
<1>5. ASSUME NEW w \in Workers, RunCallback(w)
      PROVE  OneHolder' /\ CallsCounted'
  <2>1. PICK s \in Subs, n \in Nodes : s = sub[w] /\ n = node[w]
    BY <1>0, <1>5 DEF RunCallback, LocalsOK, Busy
  <2>2. /\ UNCHANGED <<channel, sub, node, attempt>> /\ pc[w] = "run"
        /\ pc'[w] \in {"settle", "report", "stop"} /\ (again'[w] => attempt[w] = 1)
        /\ \A x \in Workers : x # w => pc'[x] = pc[x] /\ again'[x] = again[x]
    BY <1>0, <1>5 DEF RunCallback, MayRetry, TypeOK
  <2>3. calls' = [calls EXCEPT ![s][n] = @ + 1]
    BY <1>5, <2>1 DEF RunCallback
  <2>4. /\ calls'[s][n] = calls[s][n] + 1
        /\ \A x \in Subs, m \in Nodes : x # s \/ m # n => calls'[x][m] = calls[x][m]
    BY <1>0, <2>3 DEF TypeOK
  <2>5. \A i \in DOMAIN channel : channel[i].sub # s \/ channel[i].node # n
    BY <2>1 DEF OneHolder
  <2>6. OneHolder'
    BY <2>2, <2>4, <2>5, ChannelElements DEF OneHolder
  <2>7. calls[s][n] = attempt[w] - 1 /\ attempt[w] \in {1, 2}
    BY <1>0, <2>1, <2>2 DEF CallsCounted, Busy, TypeOK
  <2>8. calls'[s][n] = attempt[w] /\ calls'[s][n] <= 2
    BY <2>4, <2>7
  <2>9. \A x \in Workers : x # w /\ Busy(x) => sub[x] # s \/ node[x] # n
    BY <2>1, <1>0 DEF OneHolder, LocalsOK
  <2>10. \A x \in Workers : Busy(x)' =>
           calls'[sub'[x]][node'[x]] = IF pc'[x] = "run" THEN attempt'[x] - 1 ELSE attempt'[x]
    <3>1. ASSUME NEW x \in Workers, x # w, Busy(x)'
          PROVE  calls'[sub[x]][node[x]] = IF pc[x] = "run" THEN attempt[x] - 1 ELSE attempt[x]
      <4>1. Busy(x) /\ sub[x] \in Subs /\ node[x] \in Nodes
        BY <1>0, <2>2, <3>1 DEF Busy, LocalsOK
      <4>2. QED
        BY <2>4, <2>9, <3>1, <4>1 DEF CallsCounted
    <3>2. QED
      BY <2>1, <2>2, <2>8, <3>1
  <2>11. CallsCounted'
    BY <2>2, <2>4, <2>8, <2>10 DEF CallsCounted, Busy
  <2>12. QED
    BY <2>6, <2>11
<1>6. ASSUME NEW w \in Workers,
             \/ ExitWorker(w) \/ StopFails(w) \/ DropFails(w) \/ ReportRefused(w) \/ Settle(w)
             \/ \E n \in Nodes : ReportPanic(w, n)
      PROVE  OneHolder' /\ CallsCounted'
  BY <1>0, <1>6, HolderKept, CountsKept
  DEF ExitWorker, StopFails, DropFails, ReportRefused, Settle, ReportPanic, Commit, Busy, TypeOK
<1>7. ASSUME NEW w \in Workers, CheckDrained(w) \/ ClearLagged(w)
      PROVE  OneHolder' /\ CallsCounted'
  <2>1. /\ UNCHANGED <<channel, calls, attempt, again>> /\ pc[w] \in {"check", "clear"}
        /\ \A x \in Workers : x # w => pc'[x] = pc[x] /\ sub'[x] = sub[x] /\ node'[x] = node[x]
    BY <1>0, <1>7 DEF CheckDrained, ClearLagged, Proceed, EndTask, TypeOK
  <2>2. \/ pc'[w] = "clear" /\ UNCHANGED <<sub, node>>
        \/ pc'[w] = "backoff" /\ again[w] /\ UNCHANGED <<sub, node>>
        \/ pc'[w] \in {"receive", "drop"} /\ sub'[w] = None /\ node'[w] = None
    <3>1. \/ Proceed(w)
          \/ pc' = [pc EXCEPT ![w] = "clear"] /\ UNCHANGED <<sub, node>>
      BY <1>7 DEF CheckDrained, ClearLagged
    <3>2. CASE Proceed(w)
      BY <1>0, <3>2, ProceedLocals
    <3>3. QED
      BY <1>0, <3>1, <3>2 DEF TypeOK
  <2>3. OneHolder'
    BY <2>1, <2>2, ChannelElements DEF OneHolder
  <2>4. CallsCounted'
    BY <2>1, <2>2 DEF CallsCounted, Busy
  <2>5. QED
    BY <2>3, <2>4
<1>8. ASSUME NEW w \in Workers, Retry(w)
      PROVE  OneHolder' /\ CallsCounted'
  <2>1. /\ UNCHANGED <<channel, calls, sub, node, again>>
        /\ pc[w] = "backoff" /\ pc'[w] = "run" /\ attempt'[w] = 2
        /\ \A x \in Workers : x # w => pc'[x] = pc[x] /\ attempt'[x] = attempt[x]
    BY <1>0, <1>8 DEF Retry, TypeOK
  <2>2. CallsCounted'
    BY <2>1 DEF CallsCounted, Busy
  <2>3. QED
    BY <2>1, <2>2, HolderKept
<1>9. CASE Return \/ UNCHANGED vars
  BY <1>9, HolderKept, CountsKept DEF Return, ShutdownReturns, vars, Busy
<1>10. QED
  BY <1>1, <1>2, <1>3, <1>4, <1>5, <1>6, <1>7, <1>8, <1>9 DEF Next, Dispatch, Work, Fail

\* A step that sends nothing, blames nobody, and only goes on visiting.
LEMMA OwnKept ==
  ASSUME Typed, Typed', OwnSkipped, UNCHANGED blame,
         \A s \in Subs, n \in Nodes : Sent(s, n)' => Sent(s, n),
         \A t \in Threads : event'[t] \in {None, event[t]},
         \A w \in Workers : event'[w] # None => sub'[w] = sub[w],
         \A t \in Threads, s \in Subs :
           event'[t] # None /\ (s \in todo'[t] \/ entry'[t] = s) => s \in todo[t] \/ entry[t] = s
  PROVE  OwnSkipped'
<1> USE DispatchAssumption
<1>1. ASSUME NEW s \in Subs, NEW n \in Nodes, blame[n] = {s}, NEW t \in Threads, event'[t] = n
      PROVE  t \in Workers /\ sub'[t] = s /\ s \notin todo'[t] /\ entry'[t] # s
  <2>1. event'[t] # None /\ event[t] = n
    BY <1>1
  <2>2. t \in Workers /\ sub[t] = s /\ s \notin todo[t] /\ entry[t] # s
    BY <1>1, <2>1 DEF OwnSkipped
  <2>3. QED
    BY <2>1, <2>2
<1>2. QED
  BY <1>1 DEF OwnSkipped

LEMMA OwnStep ==
  ASSUME Typed, Typed', SentOnce, OwnSkipped, [Next]_vars
  PROVE  OwnSkipped'
<1> USE DispatchAssumption DEF Goto, entries, graph, pool, cursor, task, Threads
<1>0. TypeOK /\ LocalsOK
  BY DEF Typed
<1>1. ASSUME NEW s \in Subs, Subscribe(s) \/ Unsubscribe(s)
      PROVE  OwnSkipped'
  BY <1>1, SentKept, OwnKept DEF Subscribe, Unsubscribe
<1>2. ASSUME NEW t \in Writers, NEW n \in Nodes, Write(t, n)
      PROVE  OwnSkipped'
  <2>1. /\ n \notin written /\ UNCHANGED <<blame, todo, entry, sub, channel, calls, node>>
        /\ event'[t] = n /\ \A u \in Threads : u # t => event'[u] = event[u]
    BY <1>0, <1>2 DEF Write, Commit, TypeOK
  <2>2. blame[n] = {}
    BY <2>1 DEF SentOnce
  <2>3. \A s \in Subs, m \in Nodes : Sent(s, m)' => Sent(s, m)
    BY <1>2, SentKept DEF Write
  <2>4. QED
    BY <2>1, <2>2, <2>3 DEF OwnSkipped
<1>3. ASSUME Shutdown \/ DropBridge \/ ShutdownReturns
      PROVE  OwnSkipped'
  BY <1>3, SentKept, OwnKept DEF Shutdown, DropBridge, ShutdownReturns
<1>4. ASSUME NEW t \in Threads, TakeSnapshot(t)
      PROVE  OwnSkipped'
  <2>1. /\ pc[t] = "snapshot" /\ UNCHANGED <<blame, event, entry, sub, channel, calls, node>>
        /\ todo'[t] = {s \in registry \ Skipped(t) : Matches(s, event[t])}
        /\ \A u \in Threads : u # t => todo'[u] = todo[u]
    BY <1>0, <1>4 DEF TakeSnapshot, TypeOK
  <2>2. \A s \in Subs, n \in Nodes : Sent(s, n)' => Sent(s, n)
    BY <1>4, SentKept DEF TakeSnapshot
  <2>3. ASSUME NEW s \in Subs, NEW n \in Nodes, blame[n] = {s}, NEW u \in Threads, event[u] = n
        PROVE  u \in Workers /\ sub[u] = s /\ s \notin todo'[u] /\ entry[u] # s
    <3>1. u \in Workers /\ sub[u] = s /\ s \notin todo[u] /\ entry[u] # s
      BY <2>3 DEF OwnSkipped
    <3>2. QED
      BY <2>1, <3>1 DEF Skipped
  <2>4. QED
    BY <2>1, <2>2, <2>3 DEF OwnSkipped
<1>5. ASSUME NEW t \in Threads, NEW s \in Subs, LoadDepth(t, s)
      PROVE  OwnSkipped'
  <2>1. \A u \in Threads, x \in Subs :
          x \in todo'[u] \/ entry'[u] = x => x \in todo[u] \/ entry[u] = x
    BY <1>0, <1>5 DEF LoadDepth, TypeOK
  <2>2. QED
    BY <1>5, <2>1, SentKept, OwnKept DEF LoadDepth
<1>6. ASSUME NEW t \in Threads, MarkLagged(t)
      PROVE  OwnSkipped'
  <2>1. \A u \in Threads, x \in Subs :
          x \in todo'[u] \/ entry'[u] = x => x \in todo[u] \/ entry[u] = x
    BY <1>0, <1>6 DEF MarkLagged, TypeOK
  <2>2. QED
    BY <1>6, <2>1, SentKept, OwnKept DEF MarkLagged
<1>7. ASSUME NEW t \in Threads, Enqueue(t)
      PROVE  OwnSkipped'
  <2>1. PICK s \in Subs, n \in Nodes : s = entry[t] /\ n = event[t]
    BY <1>0, <1>7 DEF Enqueue, TypeOK, LocalsOK, Dispatching
  <2>2. \A x \in Subs, m \in Nodes : Sent(x, m)' => Sent(x, m) \/ (x = s /\ m = n)
    BY <1>7, <2>1, SentByEnqueue
  <2>3. /\ UNCHANGED <<blame, event, todo, sub>> /\ entry'[t] = None
        /\ \A u \in Threads : u # t => entry'[u] = entry[u]
    BY <1>0, <1>7 DEF Enqueue, TypeOK
  <2>4. blame[n] # {s}
    BY <2>1 DEF OwnSkipped
  <2>5. QED
    BY <2>2, <2>3, <2>4 DEF OwnSkipped
<1>8. ASSUME NEW t \in Threads, EndDispatch(t)
      PROVE  OwnSkipped'
  <2>1. \A u \in Threads : event'[u] \in {None, event[u]}
    BY <1>0, <1>8 DEF EndDispatch, TypeOK
  <2>2. QED
    BY <1>8, <2>1, SentKept, OwnKept DEF EndDispatch
<1>9. ASSUME NEW w \in Workers,
             \/ Receive(w) \/ ExitWorker(w) \/ RunCallback(w) \/ StopFails(w) \/ DropFails(w)
             \/ ReportRefused(w)
             \/ Settle(w) \/ CheckDrained(w) \/ ClearLagged(w) \/ Retry(w)
      PROVE  OwnSkipped'
  <2>1. UNCHANGED <<graph, cursor>> /\ pc[w] \notin Dispatching
    BY <1>9
    DEF Receive, ExitWorker, RunCallback, StopFails, DropFails, ReportRefused, Settle,
        CheckDrained, ClearLagged, Retry,
        Dispatching
  <2>2. event'[w] = None
    BY <1>0, <2>1 DEF LocalsOK
  <2>3. \A u \in Workers : event'[u] # None => sub'[u] = sub[u]
    <3>1. \A u \in Workers : u # w => sub'[u] = sub[u]
      BY <1>0, <1>9
      DEF Receive, ExitWorker, RunCallback, StopFails, DropFails, ReportRefused, Settle,
          CheckDrained, ClearLagged,
          Retry, Proceed, EndTask, TypeOK
    <3>2. QED
      BY <2>2, <3>1
  <2>4. \A x \in Subs, n \in Nodes : Sent(x, n)' => Sent(x, n)
    <3>1. CASE Receive(w) \/ RunCallback(w)
      BY <3>1, SentKept
    <3>2. CASE \/ ExitWorker(w) \/ StopFails(w) \/ DropFails(w) \/ ReportRefused(w)
               \/ Settle(w) \/ CheckDrained(w) \/ ClearLagged(w) \/ Retry(w)
      <4>1. UNCHANGED <<channel, calls>>
        BY <3>2
        DEF ExitWorker, StopFails, DropFails, ReportRefused, Settle, CheckDrained, ClearLagged,
            Retry
      <4>2. Proceed(w) \/ UNCHANGED <<sub, node>>
        BY <3>2
        DEF ExitWorker, StopFails, DropFails, ReportRefused, Settle, CheckDrained, ClearLagged,
            Retry
      <4>3. \A u \in Workers : sub'[u] \in {sub[u], None} /\ node'[u] \in {node[u], None}
        BY <1>0, <4>2, ProceedLocals
      <4>4. QED
        BY <4>1, <4>3, SentKept
    <3>3. QED
      BY <1>9, <3>1, <3>2
  <2>5. QED
    BY <2>1, <2>3, <2>4, OwnKept
<1>10. ASSUME NEW w \in Workers, NEW n \in Nodes, ReportPanic(w, n)
       PROVE  OwnSkipped'
  <2>1. /\ pc[w] = "report" /\ n \notin written /\ UNCHANGED <<todo, entry, sub>>
        /\ blame' = [blame EXCEPT ![n] = blame[node[w]] \cup {sub[w]}]
        /\ event'[w] = n /\ \A u \in Threads : u # w => event'[u] = event[u]
    BY <1>0, <1>10 DEF ReportPanic, Commit, TypeOK
  <2>2. todo[w] = {} /\ entry[w] = None
    BY <1>0, <2>1 DEF LocalsOK
  <2>3. \A x \in Subs, m \in Nodes : Sent(x, m)' => Sent(x, m)
    BY <1>10, SentKept DEF ReportPanic
  <2>4. ASSUME NEW s \in Subs, NEW m \in Nodes, blame'[m] = {s}
        PROVE  /\ ~ Sent(s, m)'
               /\ \A t \in Threads : event'[t] = m =>
                    t \in Workers /\ sub'[t] = s /\ s \notin todo'[t] /\ entry'[t] # s
    <3>1. CASE m = n
      <4>1. sub[w] = s
        BY <1>0, <2>1, <2>4, <3>1 DEF TypeOK
      <4>2. ~ Sent(s, n) /\ \A u \in Threads : event[u] # n
        BY <2>1 DEF SentOnce
      <4>3. QED
        BY <2>1, <2>2, <2>3, <3>1, <4>1, <4>2
    <3>2. CASE m # n
      <4>1. blame[m] = {s}
        BY <1>0, <2>1, <2>4, <3>2 DEF TypeOK
      <4>2. QED
        BY <2>1, <2>3, <3>2, <4>1 DEF OwnSkipped
    <3>3. QED
      BY <3>1, <3>2
  <2>5. QED
    BY <2>4 DEF OwnSkipped
<1>11. CASE UNCHANGED vars
  BY <1>11, SentKept, OwnKept DEF vars
<1>12. QED
  BY <1>1, <1>2, <1>3, <1>4, <1>5, <1>6, <1>7, <1>8, <1>9, <1>10, <1>11
  DEF Next, Use, Dispatch, Work, Fail, Return

\* The initial state: the nodes written before the behaviour starts were sent nothing.
LEMMA CallLayerInit == Init => CallLayer
<1> SUFFICES ASSUME Init
             PROVE  CallLayer
  OBVIOUS
<1> USE DispatchAssumption
<1>1. /\ \A s \in Subs, n \in Nodes : ~ Sent(s, n)
      /\ \A t \in Threads : event[t] = None /\ entry[t] = None /\ todo[t] = {}
      /\ dying = {} /\ \A n \in Nodes : blame[n] = {}
  BY DEF Init, Sent
<1>2. \A w \in Workers : ~ Busy(w) /\ sub[w] = None /\ pc[w] # "backoff"
  BY DEF Init, StartWith, Busy, Threads
<1>3. SentOnce
  BY <1>1 DEF SentOnce, ToVisit
<1>4. OneHolder
  BY <1>2 DEF OneHolder, Init
<1>5. CallsCounted
  BY <1>2 DEF CallsCounted, Init
<1>6. OwnSkipped
  BY <1>1 DEF OwnSkipped
<1>7. QED
  BY <1>3, <1>4, <1>5, <1>6 DEF CallLayer

LEMMA AtMostOne ==
  ASSUME NEW S, \A x, y \in S : x = y
  PROVE  Cardinality(S) \in {0, 1}
<1>1. CASE S = {}
  BY <1>1, FS_EmptySet
<1>2. ASSUME NEW x \in S
      PROVE  Cardinality(S) = 1
  <2>1. S = {x}
    BY <1>2
  <2>2. Cardinality({x}) = 1
    BY FS_Singleton
  <2>3. QED
    BY <2>1, <2>2
<1>3. QED
  BY <1>1, <1>2

\* At most one task of a match in the channel or with a worker is at most one in all.
LEMMA CallsFollow ==
  ASSUME Typed, CallLayer
  PROVE  CallsAreDue
<1> USE DispatchAssumption
<1>1. ASSUME NEW s \in Subs, NEW n \in Nodes
      PROVE  LET queued == {i \in DOMAIN channel : channel[i] = [sub |-> s, node |-> n]}
                 held == {w \in Workers : sub[w] = s /\ node[w] = n}
             IN /\ Cardinality(queued) + Cardinality(held) <= 1
                /\ queued # {} => calls[s][n] = 0
                /\ calls[s][n] <= 2
  <2> DEFINE queued == {i \in DOMAIN channel : channel[i] = [sub |-> s, node |-> n]}
             held == {w \in Workers : sub[w] = s /\ node[w] = n}
  <2>1. \A i, j \in queued : i = j
    BY DEF CallLayer, OneHolder
  <2>2. \A w, x \in held : w = x
    BY DEF CallLayer, OneHolder
  <2>3. queued = {} \/ held = {}
    BY DEF CallLayer, OneHolder
  <2>4. queued # {} => calls[s][n] = 0
    BY DEF CallLayer, OneHolder
  <2>5. calls[s][n] <= 2
    BY DEF CallLayer, CallsCounted
  <2> HIDE DEF queued, held
  <2>6. Cardinality(queued) \in {0, 1} /\ Cardinality(held) \in {0, 1}
    BY <2>1, <2>2, AtMostOne
  <2>7. Cardinality(queued) = 0 \/ Cardinality(held) = 0
    BY <2>3, FS_EmptySet
  <2>8. Cardinality(queued) + Cardinality(held) <= 1
    BY <2>6, <2>7
  <2>9. QED
    BY <2>4, <2>5, <2>8 DEF queued, held
<1>2. OneTaskPerMatch
  BY <1>1 DEF OneTaskPerMatch
<1>3. OwnPanicUnseen
  BY DEF OwnPanicUnseen, CallLayer, OwnSkipped, Sent
<1>4. QED
  BY <1>2, <1>3 DEF CallsAreDue

LEMMA SecondLayer == Spec => [](Typed /\ CallLayer)
<1>1. Init => CallLayer
  BY CallLayerInit
<1>2. Typed /\ Typed' /\ CallLayer /\ [Next]_vars => CallLayer'
  <2> SUFFICES ASSUME Typed, Typed', CallLayer, [Next]_vars
               PROVE  CallLayer'
    OBVIOUS
  <2>1. SentOnce /\ OneHolder /\ CallsCounted /\ OwnSkipped
    BY DEF CallLayer
  <2>2. SentOnce' /\ OneHolder' /\ CallsCounted' /\ OwnSkipped'
    BY <2>1, SentOnceStep, HolderStep, OwnStep
  <2>3. QED
    BY <2>2 DEF CallLayer
<1>3. QED
  BY <1>1, <1>2, FirstLayer, PTL DEF Spec

(***************************************************************************)
(* Callbacks are invoked only for matches that are due: a match is one     *)
(* task wherever the writers, the reporters and the workers stand, its     *)
(* callback runs at most twice, and no subscription is called with the     *)
(* report of a panic of its own (dispatch, process_task,                   *)
(* report_panic_to_fabric).                                                *)
(***************************************************************************)
THEOREM CallsDue == Spec => []CallsAreDue
<1>1. Typed /\ CallLayer => CallsAreDue
  BY CallsFollow
<1>2. QED
  BY <1>1, SecondLayer, PTL

-----------------------------------------------------------------------------
(***************************************************************************)
(* Third layer: what bounds the depth of a subscription.  Its depth and    *)
(* the increments already decided on but not made yet stay below the       *)
(* threshold, one for each thread, and one for each P53 announcement that  *)
(* nobody is still on the way to send it.                                  *)
(***************************************************************************)
Coming(s) ==
  {t \in Threads : \/ pc[t] = "enqueue" /\ entry[t] = s /\ event[t] \notin dying
                   \/ t \in Workers /\ pc[t] \in {"check", "clear", "backoff"}
                        /\ sub[t] = s /\ again[t]}

Unsent(s) == {n \in dying : \E t \in Threads : event[t] = n /\ ToVisit(t, s)}

Announced(s) == dying \ Unsent(s)

Bound(s) ==
  queueDepth[s] + Cardinality(Coming(s))
    <= lagged_threshold - 1 + Cardinality(Started) + Cardinality(Announced(s))

DepthLayer == IsFiniteSet(dying) /\ \A s \in Subs : Bound(s)

LEMMA ThreadsFinite ==
  ASSUME NEW s \in Subs
  PROVE  /\ IsFiniteSet(Started) /\ Cardinality(Started) \in Nat
         /\ IsFiniteSet(Coming(s)) /\ Cardinality(Coming(s)) \in Nat
         /\ Cardinality(Coming(s)) <= Cardinality(Started)
<1>1. IsFiniteSet(Threads)
  BY DispatchAssumption, FS_Union DEF Threads
<1>2. IsFiniteSet(Started)
  BY <1>1, FS_Subset DEF Started
<1>3. Coming(s) \subseteq Started
  BY DEF Coming, Started
<1>4. QED
  BY <1>2, <1>3, FS_Subset, FS_CardinalityType

LEMMA AnnouncedFinite ==
  ASSUME NEW s \in Subs, IsFiniteSet(dying)
  PROVE  /\ IsFiniteSet(Announced(s)) /\ Cardinality(Announced(s)) \in Nat
         /\ Cardinality(Announced(s)) <= Cardinality(dying) /\ Cardinality(dying) \in Nat
<1>1. Announced(s) \subseteq dying
  BY DEF Announced
<1>2. QED
  BY <1>1, FS_Subset, FS_CardinalityType

\* No thread starts or disappears, and the configuration stays.
LEMMA StartedKept ==
  ASSUME Typed, [Next]_vars
  PROVE  Started' = Started /\ UNCHANGED lagged_threshold
<1> USE DispatchAssumption DEF Goto, Threads
<1>0. TypeOK
  BY DEF Typed
<1>1. UNCHANGED lagged_threshold
  BY DEF Next, Use, Dispatch, Work, Fail, Return, vars
<1>2. ASSUME NEW t \in Threads, NEW step, step # "absent", pc[t] # "absent", Goto(t, step)
      PROVE  Started' = Started
  BY <1>0, <1>2 DEF TypeOK, Started
<1>3. CASE Use
  <2>1. ASSUME NEW t \in Writers, NEW n \in Nodes, Write(t, n)
        PROVE  Started' = Started
    BY <1>2, <2>1 DEF Write, Commit
  <2>2. QED
    BY <1>3, <2>1 DEF Use, Subscribe, Unsubscribe, Shutdown, DropBridge, Started
<1>4. ASSUME NEW t \in Threads, Dispatch(t)
      PROVE  Started' = Started
  BY <1>2, <1>4
  DEF Dispatch, TakeSnapshot, LoadDepth, MarkLagged, Enqueue, EndDispatch
<1>5. ASSUME NEW w \in Workers, Work(w) \/ Fail(w)
      PROVE  Started' = Started
  <2>1. CASE CheckDrained(w) \/ ClearLagged(w)
    BY <1>0, <1>2, <2>1, ProceedEnds DEF CheckDrained, ClearLagged, Goto
  <2>2. QED
    BY <1>2, <1>5, <2>1
    DEF Work, Fail, Receive, ExitWorker, RunCallback, ReportPanic, Commit, ReportRefused, Settle,
        Retry, StopFails, DropFails
<1>6. CASE Return \/ UNCHANGED vars
  BY <1>6 DEF Return, ShutdownReturns, vars, Started
<1>7. QED
  BY <1>1, <1>3, <1>4, <1>5, <1>6 DEF Next

\* A step that increments nothing and decides on no increment.
LEMMA BoundKept ==
  ASSUME Typed, Typed', NEW s \in Subs, Bound(s), IsFiniteSet(dying), IsFiniteSet(dying'),
         UNCHANGED lagged_threshold, Started' = Started,
         queueDepth'[s] <= queueDepth[s],
         Coming(s)' \subseteq Coming(s),
         Announced(s) \subseteq Announced(s)'
  PROVE  Bound(s)'
<1>1. /\ queueDepth[s] \in Nat /\ queueDepth'[s] \in Nat /\ lagged_threshold \in Nat
  BY DEF Typed, TypeOK
<1>2. Cardinality(Coming(s)') <= Cardinality(Coming(s)) /\ Cardinality(Coming(s)') \in Nat
  BY ThreadsFinite, FS_Subset, FS_CardinalityType
<1>3. IsFiniteSet(Announced(s)')
  BY FS_Subset DEF Announced
<1>4. Cardinality(Announced(s)) <= Cardinality(Announced(s)')
      /\ Cardinality(Announced(s)') \in Nat
  BY <1>3, FS_Subset, FS_CardinalityType
<1>5. QED
  BY <1>1, <1>2, <1>4, ThreadsFinite, AnnouncedFinite DEF Bound

\* The same, for a step that leaves the depth and the announcements alone.
LEMMA BoundQuiet ==
  ASSUME Typed, Typed', NEW s \in Subs, Bound(s), IsFiniteSet(dying),
         UNCHANGED <<queueDepth, dying, lagged_threshold>>, Started' = Started,
         \A t \in Threads : event'[t] \in {None, event[t]},
         \A t \in Threads : event'[t] # None /\ ToVisit(t, s)' => ToVisit(t, s),
         Coming(s)' \subseteq Coming(s)
  PROVE  Bound(s)'
<1>1. Unsent(s)' \subseteq Unsent(s)
  <2>1. \A n \in dying : n # None
    BY DispatchAssumption DEF Typed, TypeOK
  <2>2. QED
    BY <2>1 DEF Unsent
<1>2. Announced(s) \subseteq Announced(s)'
  BY <1>1 DEF Announced
<1>3. queueDepth'[s] <= queueDepth[s]
  BY DEF Typed, TypeOK
<1>4. QED
  BY <1>2, <1>3, BoundKept

\* Steps of the application and of the pool's lifetime.
LEMMA BoundUse ==
  ASSUME Typed, Typed', SentOnce, NEW s \in Subs, Bound(s), IsFiniteSet(dying),
         UNCHANGED lagged_threshold, Started' = Started,
         Use \/ Return \/ UNCHANGED vars
  PROVE  Bound(s)' /\ IsFiniteSet(dying')
<1> USE DispatchAssumption DEF Goto, entries, graph, pool, cursor, task, Threads
<1>0. TypeOK /\ LocalsOK
  BY DEF Typed
<1>1. ASSUME UNCHANGED <<queueDepth, dying, pc, cursor, task>>
      PROVE  Bound(s)' /\ IsFiniteSet(dying')
  BY <1>1, BoundQuiet DEF Coming, ToVisit
<1>2. ASSUME NEW t \in Writers, NEW n \in Nodes, Write(t, n)
      PROVE  Bound(s)' /\ IsFiniteSet(dying')
  <2>1. /\ n \notin written /\ dying' \in {dying, dying \cup {n}}
        /\ UNCHANGED <<queueDepth, todo, entry, sub, again>>
        /\ event'[t] = n /\ pc'[t] = "snapshot" /\ pc[t] = "idle"
        /\ \A u \in Threads : u # t => event'[u] = event[u] /\ pc'[u] = pc[u]
    BY <1>0, <1>2 DEF Write, Commit, TypeOK
  <2>2. \A u \in Threads : event[u] # n
    BY <2>1 DEF SentOnce
  <2>3. IsFiniteSet(dying')
    BY <2>1, FS_AddElement
  <2>4. Coming(s)' \subseteq Coming(s)
    BY <2>1 DEF Coming
  <2>5. Announced(s) \subseteq Announced(s)'
    <3>1. ASSUME NEW m \in dying, m \in Unsent(s)'
          PROVE  m \in Unsent(s)
      <4>1. PICK u \in Threads : event'[u] = m /\ ToVisit(u, s)'
        BY <3>1 DEF Unsent
      <4>2. u # t
        BY <2>1, <3>1, <4>1 DEF SentOnce, Typed, TypeOK
      <4>3. event[u] = m /\ ToVisit(u, s)
        BY <2>1, <4>1, <4>2 DEF ToVisit
      <4>4. QED
        BY <4>3 DEF Unsent
    <3>2. QED
      BY <2>1, <3>1 DEF Announced
  <2>6. queueDepth'[s] <= queueDepth[s]
    BY <1>0, <2>1 DEF TypeOK
  <2>7. QED
    BY <2>3, <2>4, <2>5, <2>6, BoundKept
<1>3. QED
  BY <1>1, <1>2 DEF Use, Subscribe, Unsubscribe, Shutdown, DropBridge, Return, ShutdownReturns,
      vars

\* A thread visits one more subscription: the depth it read was below the threshold.
LEMMA BoundLoad ==
  ASSUME Typed, Typed', NEW s \in Subs, Bound(s), IsFiniteSet(dying),
         UNCHANGED lagged_threshold, Started' = Started,
         NEW t \in Threads, NEW x \in Subs, LoadDepth(t, x)
  PROVE  Bound(s)'
<1> USE DispatchAssumption DEF Goto, entries, graph, pool, cursor, task, Threads
<1>1. /\ UNCHANGED <<queueDepth, dying, event, sub, again>>
      /\ pc[t] = "dispatch" /\ x \in todo[t] /\ entry'[t] = x
      /\ todo'[t] = todo[t] \ {x}
      /\ pc'[t] = IF Full(x) /\ event[t] \notin dying THEN "mark" ELSE "enqueue"
      /\ \A u \in Threads : u # t => todo'[u] = todo[u] /\ entry'[u] = entry[u] /\ pc'[u] = pc[u]
  BY DEF LoadDepth, Typed, TypeOK
<1>2. \A u \in Threads : ToVisit(u, s)' => ToVisit(u, s)
  BY <1>1 DEF ToVisit
<1>3. CASE t \notin Coming(s)'
  <2>1. Coming(s)' \subseteq Coming(s)
    BY <1>1, <1>3 DEF Coming
  <2>2. QED
    BY <1>1, <1>2, <2>1, BoundQuiet
<1>4. CASE t \in Coming(s)'
  <2>1. x = s /\ ~ Full(s)
    BY <1>1, <1>4 DEF Coming
  <2>2. queueDepth'[s] <= lagged_threshold - 1 /\ queueDepth'[s] \in Nat /\ lagged_threshold \in Nat
    BY <1>1, <2>1 DEF Full, Typed, TypeOK
  <2>3. /\ Cardinality(Coming(s)') <= Cardinality(Started') /\ Cardinality(Coming(s)') \in Nat
        /\ Cardinality(Started') \in Nat
    <3>1. Coming(s)' \subseteq Started'
      BY DEF Coming, Started
    <3>2. QED
      BY <3>1, ThreadsFinite, FS_Subset, FS_CardinalityType
  <2>4. Cardinality(Announced(s)') \in Nat
    <3>1. Announced(s)' \subseteq dying
      BY <1>1 DEF Announced
    <3>2. QED
      BY <3>1, FS_Subset, FS_CardinalityType
  <2>5. QED
    BY <2>2, <2>3, <2>4 DEF Bound
<1>5. QED
  BY <1>3, <1>4

\* An increment that its thread had decided on, or the announcement of a death.
LEMMA BoundEnqueue ==
  ASSUME Typed, Typed', SentOnce, NEW s \in Subs, Bound(s), IsFiniteSet(dying),
         UNCHANGED lagged_threshold, Started' = Started,
         NEW t \in Threads, Enqueue(t)
  PROVE  Bound(s)'
<1> USE DispatchAssumption DEF Goto, entries, graph, pool, cursor, task, Threads
<1>1. PICK x \in Subs, n \in Nodes : x = entry[t] /\ n = event[t] /\ SendTask(x, n)
  BY DEF Enqueue, Typed, TypeOK, LocalsOK, Dispatching
<1>2. /\ UNCHANGED <<dying, event, todo, sub, again>>
      /\ pc[t] = "enqueue" /\ pc'[t] = "dispatch" /\ entry'[t] = None /\ x \notin todo[t]
      /\ \A u \in Threads : u # t => entry'[u] = entry[u] /\ pc'[u] = pc[u]
  BY <1>1 DEF Enqueue, SentOnce, Typed, TypeOK
<1>3. /\ queueDepth'[s] \in {queueDepth[s], queueDepth[s] + 1}
      /\ queueDepth'[s] # queueDepth[s] => s = x
      /\ queueDepth[s] \in Nat /\ queueDepth'[s] \in Nat
  BY <1>1 DEF SendTask, Add, Typed, TypeOK
<1>4. Coming(s)' \subseteq Coming(s)
  BY <1>2 DEF Coming
<1>5. Announced(s) \subseteq Announced(s)'
  BY <1>2 DEF Announced, Unsent, ToVisit
<1>6. lagged_threshold \in Nat
  BY DEF Typed, TypeOK
<1>7. CASE queueDepth'[s] = queueDepth[s]
  <2>1. queueDepth'[s] <= queueDepth[s]
    BY <1>3, <1>7
  <2>2. QED
    BY <1>2, <1>4, <1>5, <2>1, BoundKept
<1>8. CASE queueDepth'[s] = queueDepth[s] + 1 /\ n \notin dying
  <2>1. t \in Coming(s) /\ s = x
    BY <1>1, <1>2, <1>3, <1>8 DEF Coming
  <2>2. Coming(s)' = Coming(s) \ {t}
    BY <1>2 DEF Coming
  <2>3. Cardinality(Coming(s)') = Cardinality(Coming(s)) - 1
    BY ZenonT(60), <2>1, <2>2, ThreadsFinite, FS_RemoveElement
  <2>4. Cardinality(Announced(s)) <= Cardinality(Announced(s)') /\ Cardinality(Announced(s)') \in Nat
    <3>1. IsFiniteSet(Announced(s)')
      BY <1>2, FS_Subset DEF Announced
    <3>2. QED
      BY <1>5, <3>1, FS_Subset, FS_CardinalityType
  <2>5. QED
    BY <1>3, <1>8, <1>6, <2>3, <2>4, ThreadsFinite, AnnouncedFinite DEF Bound
<1>9. CASE queueDepth'[s] = queueDepth[s] + 1 /\ n \in dying
  <2>1. s = x
    BY <1>3, <1>9
  <2>2. n \notin Announced(s)
    BY <1>1, <1>9, <2>1 DEF Announced, Unsent, ToVisit
  <2>3. ~ ToVisit(t, s)'
    BY <1>2, <2>1, DispatchAssumption DEF ToVisit
  <2>4. \A u \in Threads : u # t => event[u] # n
    BY <1>1, DispatchAssumption DEF SentOnce
  <2>5. n \notin Unsent(s)'
    BY <1>2, <2>3, <2>4 DEF Unsent
  <2>6. n \in Announced(s)'
    BY <1>2, <1>9, <2>5 DEF Announced
  <2>7. Cardinality(Announced(s) \cup {n}) = Cardinality(Announced(s)) + 1
    BY <2>2, AnnouncedFinite, FS_AddElement
  <2>8. Cardinality(Announced(s) \cup {n}) <= Cardinality(Announced(s)')
        /\ Cardinality(Announced(s)') \in Nat
    <3>1. IsFiniteSet(Announced(s)')
      BY <1>2, FS_Subset DEF Announced
    <3>2. Announced(s) \cup {n} \subseteq Announced(s)'
      BY <1>5, <2>6
    <3>3. QED
      BY <3>1, <3>2, FS_Subset, FS_CardinalityType
  <2>9. Cardinality(Coming(s)') <= Cardinality(Coming(s)) /\ Cardinality(Coming(s)') \in Nat
    BY <1>4, ThreadsFinite, FS_Subset, FS_CardinalityType
  <2>10. QED
    BY <1>3, <1>9, <1>6, <2>7, <2>8, <2>9, ThreadsFinite, AnnouncedFinite DEF Bound
<1>10. QED
  BY <1>3, <1>7, <1>8, <1>9

\* A worker settles its task, which may decide on a retry, and makes the retry.
LEMMA BoundSettle ==
  ASSUME Typed, Typed', NEW s \in Subs, Bound(s), IsFiniteSet(dying),
         UNCHANGED lagged_threshold, Started' = Started,
         CallsCounted, NEW w \in Workers, Settle(w) \/ Retry(w)
  PROVE  Bound(s)'
<1> USE DispatchAssumption DEF Goto, entries, graph, pool, cursor, task, Threads
<1>1. /\ UNCHANGED <<dying, event, todo, entry, sub, again>> /\ sub[w] \in Subs
      /\ \A u \in Threads : u # w => pc'[u] = pc[u]
      /\ pc[w] # "snapshot" /\ pc'[w] # "snapshot" /\ pc'[w] # "enqueue"
  BY DEF Settle, Retry, Typed, TypeOK, LocalsOK, Busy
<1>2. \A u \in Threads : ToVisit(u, s)' => ToVisit(u, s)
  BY <1>1 DEF ToVisit
<1>3. Announced(s)' = Announced(s)
  BY <1>1 DEF Announced, Unsent, ToVisit
<1>4. CASE Settle(w)
  <2>1. /\ queueDepth'[s] = IF s = sub[w] THEN queueDepth[s] - 1 ELSE queueDepth[s]
        /\ queueDepth[s] \in Nat /\ queueDepth'[s] \in Nat
        /\ pc[w] = "settle" /\ pc'[w] = "check"
    BY <1>1, <1>4 DEF Settle, Add, Typed, TypeOK
  <2>2. CASE s = sub[w]
    <3>1. w \notin Coming(s) /\ Coming(s)' \subseteq Coming(s) \cup {w}
      BY <1>1, <2>1 DEF Coming
    <3>2. Cardinality(Coming(s) \cup {w}) = Cardinality(Coming(s)) + 1
          /\ IsFiniteSet(Coming(s) \cup {w})
      BY <3>1, ThreadsFinite, FS_AddElement
    <3>3. Cardinality(Coming(s)') <= Cardinality(Coming(s)) + 1 /\ Cardinality(Coming(s)') \in Nat
      BY <3>1, <3>2, FS_Subset, FS_CardinalityType
    <3>4. QED
      BY SMTT(30), <1>3, <2>1, <2>2, <3>3, ThreadsFinite, AnnouncedFinite DEF Bound, Typed, TypeOK
  <2>3. CASE s # sub[w]
    <3>1. Coming(s)' \subseteq Coming(s) /\ queueDepth'[s] <= queueDepth[s]
      BY <1>1, <2>1, <2>3 DEF Coming
    <3>2. QED
      BY <1>1, <1>3, <3>1, BoundKept
  <2>4. QED
    BY <2>2, <2>3
<1>5. CASE Retry(w)
  <2>1. /\ queueDepth'[s] = IF s = sub[w] THEN queueDepth[s] + 1 ELSE queueDepth[s]
        /\ queueDepth[s] \in Nat /\ queueDepth'[s] \in Nat
        /\ pc[w] = "backoff" /\ pc'[w] = "run" /\ again[w]
    BY <1>1, <1>5 DEF Retry, Add, CallsCounted, Typed, TypeOK
  <2>2. Coming(s)' = Coming(s) \ {w}
    BY <1>1, <2>1 DEF Coming
  <2>3. CASE s = sub[w]
    <3>1. w \in Coming(s)
      BY <2>1, <2>3 DEF Coming
    <3>2. Cardinality(Coming(s)') = Cardinality(Coming(s)) - 1
      BY ZenonT(60), <2>2, <3>1, ThreadsFinite, FS_RemoveElement
    <3>3. QED
      BY <1>3, <2>1, <2>3, <3>2, ThreadsFinite, AnnouncedFinite DEF Bound, Typed, TypeOK
  <2>4. CASE s # sub[w]
    BY <1>1, <1>3, <2>1, <2>2, <2>4, BoundKept
  <2>5. QED
    BY <2>3, <2>4
<1>6. QED
  BY <1>4, <1>5

\* The remaining steps increment nothing and decide on no increment.
LEMMA BoundRest ==
  ASSUME Typed, Typed', SentOnce, NEW s \in Subs, Bound(s), IsFiniteSet(dying),
         UNCHANGED lagged_threshold, Started' = Started,
         \/ \E t \in Threads : TakeSnapshot(t) \/ MarkLagged(t) \/ EndDispatch(t)
         \/ \E w \in Workers :
              \/ Receive(w) \/ ExitWorker(w) \/ RunCallback(w) \/ StopFails(w) \/ DropFails(w)
             \/ ReportRefused(w)
              \/ CheckDrained(w) \/ ClearLagged(w) \/ \E n \in Nodes : ReportPanic(w, n)
  PROVE  Bound(s)'
<1> USE DispatchAssumption DEF Goto, entries, graph, pool, cursor, task, Threads
<1>0. TypeOK /\ LocalsOK
  BY DEF Typed
<1>1. ASSUME NEW t \in Threads, TakeSnapshot(t) \/ MarkLagged(t) \/ EndDispatch(t)
      PROVE  Bound(s)'
  <2>1. /\ UNCHANGED <<queueDepth, dying, sub, again>> /\ pc'[t] \notin {"enqueue", "check", "clear", "backoff"}
        /\ \A u \in Threads : /\ event'[u] \in {None, event[u]}
                              /\ u # t => pc'[u] = pc[u] /\ entry'[u] = entry[u] /\ event'[u] = event[u]
    BY <1>0, <1>1 DEF TakeSnapshot, MarkLagged, EndDispatch, TypeOK
  <2>2. \A u \in Threads : event'[u] # None /\ ToVisit(u, s)' => ToVisit(u, s)
    BY <1>0, <1>1 DEF TakeSnapshot, MarkLagged, EndDispatch, TypeOK, ToVisit
  <2>3. Coming(s)' \subseteq Coming(s)
    BY <2>1 DEF Coming
  <2>4. QED
    BY <2>1, <2>2, <2>3, BoundQuiet
<1>2. ASSUME NEW w \in Workers, NEW n \in Nodes, ReportPanic(w, n)
      PROVE  Bound(s)'
  <2>1. /\ n \notin written /\ UNCHANGED <<queueDepth, dying, todo, entry, sub, again>>
        /\ event'[w] = n /\ pc'[w] = "snapshot"
        /\ \A u \in Threads : u # w => event'[u] = event[u] /\ pc'[u] = pc[u]
    BY <1>0, <1>2 DEF ReportPanic, Commit, TypeOK
  <2>2. n \notin dying
    BY <2>1 DEF SentOnce
  <2>3. Announced(s) \subseteq Announced(s)'
    BY <2>1, <2>2 DEF Announced, Unsent, ToVisit
  <2>4. Coming(s)' \subseteq Coming(s)
    BY <2>1 DEF Coming
  <2>5. queueDepth'[s] <= queueDepth[s]
    BY <1>0, <2>1 DEF TypeOK
  <2>6. QED
    BY <2>1, <2>3, <2>4, <2>5, BoundKept
<1>3. ASSUME NEW w \in Workers,
             \/ Receive(w) \/ ExitWorker(w) \/ RunCallback(w) \/ StopFails(w) \/ DropFails(w)
             \/ ReportRefused(w)
             \/ CheckDrained(w) \/ ClearLagged(w)
      PROVE  Bound(s)'
  <2>1. UNCHANGED <<queueDepth, dying, cursor>> /\ pc'[w] \notin {"snapshot", "enqueue"}
    BY <1>0, <1>3
    DEF Receive, ExitWorker, RunCallback, StopFails, DropFails, ReportRefused, CheckDrained,
        ClearLagged, Proceed, EndTask, TypeOK
  <2>2. /\ \A u \in Threads : u # w => pc'[u] = pc[u]
        /\ \A u \in Workers : u # w => sub'[u] = sub[u] /\ again'[u] = again[u]
    BY <1>0, <1>3
    DEF Receive, ExitWorker, RunCallback, StopFails, DropFails, ReportRefused, CheckDrained,
        ClearLagged, Proceed, EndTask, TypeOK
  <2>3. pc'[w] \in {"check", "clear", "backoff"} =>
          pc[w] \in {"check", "clear", "backoff"} /\ sub'[w] = sub[w] /\ again'[w] = again[w]
    BY <1>0, <1>3
    DEF Receive, ExitWorker, RunCallback, StopFails, DropFails, ReportRefused, CheckDrained,
        ClearLagged, Proceed, EndTask, TypeOK
  <2>4. Coming(s)' \subseteq Coming(s)
    BY <2>1, <2>2, <2>3 DEF Coming
  <2>5. \A u \in Threads : ToVisit(u, s)' => ToVisit(u, s)
    BY <2>1, <2>2 DEF ToVisit
  <2>6. QED
    BY <2>1, <2>4, <2>5, BoundQuiet
<1>4. QED
  BY <1>1, <1>2, <1>3

LEMMA DepthLayerStep ==
  ASSUME Typed, Typed', CallLayer, DepthLayer, [Next]_vars
  PROVE  DepthLayer'
<1>1. SentOnce /\ CallsCounted
  BY DEF CallLayer
<1>2. Started' = Started /\ UNCHANGED lagged_threshold
  BY StartedKept
<1>3. IsFiniteSet(dying) /\ \A s \in Subs : Bound(s)
  BY DEF DepthLayer
<1>4. CASE Use \/ Return \/ UNCHANGED vars
  <2>1. IsFiniteSet(dying')
    <3>1. dying' = dying \/ \E n \in Nodes : dying' = dying \cup {n}
      BY <1>4
      DEF Use, Subscribe, Unsubscribe, Write, Shutdown, DropBridge, Return, ShutdownReturns, vars,
          graph
    <3>2. QED
      BY <1>3, <3>1, FS_AddElement
  <2>2. \A s \in Subs : Bound(s)'
    BY <1>1, <1>2, <1>3, <1>4, BoundUse
  <2>3. QED
    BY <2>1, <2>2 DEF DepthLayer
<1>5. ASSUME NEW t \in Threads, Dispatch(t)
      PROVE  DepthLayer'
  <2>1. dying' = dying
    BY <1>5 DEF Dispatch, TakeSnapshot, LoadDepth, MarkLagged, Enqueue, EndDispatch, graph
  <2>2. \A s \in Subs : Bound(s)'
    BY <1>1, <1>2, <1>3, <1>5, BoundLoad, BoundEnqueue, BoundRest DEF Dispatch
  <2>3. QED
    BY <1>3, <2>1, <2>2 DEF DepthLayer
<1>6. ASSUME NEW w \in Workers, Work(w) \/ Fail(w)
      PROVE  DepthLayer'
  <2>1. dying' = dying
    BY <1>6
    DEF Work, Fail, StopFails, DropFails, Receive, ExitWorker, RunCallback, ReportPanic,
        ReportRefused, Settle, CheckDrained,
        ClearLagged, Retry, graph
  <2>2. \A s \in Subs : Bound(s)'
    BY <1>1, <1>2, <1>3, <1>6, BoundSettle, BoundRest DEF Work, Fail
  <2>3. QED
    BY <1>3, <2>1, <2>2 DEF DepthLayer
<1>7. QED
  BY <1>4, <1>5, <1>6 DEF Next

\* Nothing is queued and nobody has decided on anything: the bound is not negative.
LEMMA DepthLayerInit == Init /\ Typed => DepthLayer
<1> SUFFICES ASSUME Init, Typed
             PROVE  DepthLayer
  OBVIOUS
<1> USE DispatchAssumption
<1>1. dying = {} /\ IsFiniteSet(dying)
  BY FS_EmptySet DEF Init
<1>2. ASSUME NEW s \in Subs
      PROVE  Bound(s)
  <2>1. queueDepth[s] = 0 /\ lagged_threshold \in Nat \ {0}
    BY DEF Init, Typed, TypeOK
  <2>2. Coming(s) = {}
    BY DEF Init, StartWith, Coming, Threads
  <2>3. Cardinality(Coming(s)) = 0
    BY <2>2, FS_EmptySet
  <2>4. QED
    BY <1>1, <2>1, <2>3, ThreadsFinite, AnnouncedFinite DEF Bound
<1>3. QED
  BY <1>1, <1>2 DEF DepthLayer

(***************************************************************************)
(* Backpressure (dispatch, queue_depth against lagged_threshold): the test *)
(* and the increment are two steps, yet the depth outgrows the threshold   *)
(* by at most one increment per thread and one per P53 announcement.       *)
(***************************************************************************)
THEOREM DepthBounded == Spec => []Backpressure
<1>1. Spec => [](Typed /\ CallLayer)
  BY SecondLayer
<1>2. Init /\ Typed => DepthLayer
  BY DepthLayerInit
<1>3. Typed /\ Typed' /\ CallLayer /\ DepthLayer /\ [Next]_vars => DepthLayer'
  BY DepthLayerStep
<1>4. Typed /\ DepthLayer => Backpressure
  <2> SUFFICES ASSUME Typed, DepthLayer, NEW s \in Subs
               PROVE  queueDepth[s] <= lagged_threshold - 1 + Cardinality(Started) + Cardinality(dying)
    BY DEF Backpressure
  <2>1. Bound(s) /\ IsFiniteSet(dying)
    BY DEF DepthLayer
  <2>2. queueDepth[s] \in Nat /\ lagged_threshold \in Nat
    BY DEF Typed, TypeOK
  <2>3. QED
    BY <2>1, <2>2, ThreadsFinite, AnnouncedFinite DEF Bound
<1>5. QED
  BY <1>1, <1>2, <1>3, <1>4, PTL DEF Spec

(***************************************************************************)
(* A worker that left (worker_loop returns when recv fails), or that drops *)
(* the pool at the end of its task, left no task behind, and none is       *)
(* accepted after it: the Sender is gone for good before.                  *)
(***************************************************************************)
THEOREM NothingAbandoned == Spec => []NoTaskAbandoned
<1> USE DispatchAssumption DEF Goto, entries, graph, pool, cursor, task, Threads
<1>1. Init => NoTaskAbandoned
  BY DEF Init, StartWith, NoTaskAbandoned
<1>2. Typed /\ NoTaskAbandoned /\ [Next]_vars => NoTaskAbandoned'
  <2> SUFFICES ASSUME Typed, NoTaskAbandoned, [Next]_vars
               PROVE  NoTaskAbandoned'
    OBVIOUS
  <2>0. TypeOK /\ LocalsOK
    BY DEF Typed
  <2>1. ASSUME UNCHANGED channel, open' \in {open, FALSE},
               \A w \in Workers : pc'[w] \in {"exited", "drop"} => pc[w] \in {"exited", "drop"}
        PROVE  NoTaskAbandoned'
    BY <2>0, <2>1 DEF NoTaskAbandoned, TypeOK
  <2>2. CASE Use \/ Return \/ UNCHANGED vars
    <3>1. ASSUME NEW t \in Writers, NEW n \in Nodes, Write(t, n)
          PROVE  NoTaskAbandoned'
      BY <2>0, <2>1, <3>1 DEF Write, Commit, TypeOK
    <3>2. QED
      BY <2>1, <2>2, <3>1 DEF Use, Subscribe, Unsubscribe, Shutdown, DropBridge, Return,
          ShutdownReturns, vars
  <2>3. ASSUME NEW t \in Threads, Dispatch(t)
        PROVE  NoTaskAbandoned'
    <3>1. CASE Enqueue(t)
      <4>1. \A w \in Workers : pc'[w] \in {"exited", "drop"} => pc[w] \in {"exited", "drop"}
        BY <2>0, <3>1 DEF Enqueue, TypeOK
      <4>2. open' = open /\ (~ open => channel' = channel)
        BY <3>1 DEF Enqueue, SendTask
      <4>3. QED
        BY <4>1, <4>2 DEF NoTaskAbandoned
    <3>2. CASE TakeSnapshot(t) \/ (\E s \in Subs : LoadDepth(t, s)) \/ MarkLagged(t) \/ EndDispatch(t)
      BY <2>0, <2>1, <3>2 DEF TakeSnapshot, LoadDepth, MarkLagged, EndDispatch, TypeOK
    <3>3. QED
      BY <2>3, <3>1, <3>2 DEF Dispatch
  <2>4. ASSUME NEW w \in Workers, Work(w) \/ Fail(w)
        PROVE  NoTaskAbandoned'
    <3>1. CASE Receive(w)
      BY <2>0, <3>1 DEF Receive, NoTaskAbandoned, TypeOK
    <3>2. CASE ExitWorker(w)
      BY <2>0, <3>2 DEF ExitWorker, Disconnected, NoTaskAbandoned, TypeOK
    <3>3. CASE \/ RunCallback(w) \/ ReportRefused(w) \/ Settle(w) \/ StopFails(w) \/ DropFails(w)
               \/ Retry(w) \/ \E n \in Nodes : ReportPanic(w, n)
      BY ZenonT(60), <2>0, <2>1, <3>3
      DEF RunCallback, ReportRefused, Settle, StopFails, DropFails, Retry, ReportPanic, Commit,
          TypeOK
    <3>4. CASE CheckDrained(w) \/ ClearLagged(w)
      <4>1. UNCHANGED channel
        BY <3>4 DEF CheckDrained, ClearLagged
      <4>2. CASE pc' = [pc EXCEPT ![w] = "drop"]
        <5>1. Proceed(w)
          BY <2>0, <3>4, <4>2 DEF CheckDrained, ClearLagged, TypeOK
        <5>2. EndTask(w)
          BY <2>0, <4>2, <5>1 DEF Proceed, TypeOK
        <5>3. LastReference(w)
          BY <2>0, <4>2, <5>2 DEF EndTask, TypeOK
        <5>4. channel = <<>> /\ ~ open'
          BY <5>2, <5>3 DEF EndTask, LastReference, HeldBy
        <5>5. QED
          BY <4>1, <5>4 DEF NoTaskAbandoned
      <4>3. CASE pc' # [pc EXCEPT ![w] = "drop"]
        <5>1. \/ pc' = [pc EXCEPT ![w] = "clear"] \/ pc' = [pc EXCEPT ![w] = "backoff"]
              \/ pc' = [pc EXCEPT ![w] = "receive"]
          BY <2>0, <3>4, <4>3, ProceedEnds DEF CheckDrained, ClearLagged
        <5>2. open' \in {open, FALSE}
          BY <2>0, <3>4, ProceedEnds DEF CheckDrained, ClearLagged
        <5>3. QED
          BY <2>0, <2>1, <4>1, <5>1, <5>2 DEF TypeOK
      <4>4. QED
        BY <4>2, <4>3
    <3>5. QED
      BY <2>4, <3>1, <3>2, <3>3, <3>4 DEF Work, Fail
  <2>5. QED
    BY <2>2, <2>3, <2>4 DEF Next
<1>3. QED
  BY <1>1, <1>2, FirstLayer, PTL DEF Spec
=============================================================================
