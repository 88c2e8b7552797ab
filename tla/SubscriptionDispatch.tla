------------------------ MODULE SubscriptionDispatch ------------------------
(***************************************************************************)
(* Subscriptions of the bridge: writers that commit nodes and dispatch     *)
(* them to the matching subscriptions, the dispatch pool that runs the     *)
(* callbacks, and the lifetime of the pool.                                *)
(*                                                                         *)
(* queue_depth and lagged are relaxed atomics that no lock ties to the     *)
(* channel, so every load and store of them is a step of its own.  The one *)
(* exception is enqueue, whose increment and send both happen under the    *)
(* sender mutex: between the two a reader sees the depth it would see      *)
(* after them.  A subscription id and a node id are used once; the sets    *)
(* Subs and Nodes bound how many there are.  Each behaviour is one of the  *)
(* Instances: the ids outside it were used up, and its DispatchConfig may  *)
(* ask for fewer threads.                                                  *)
(***************************************************************************)
EXTENDS Integers, Sequences, FiniteSets

CONSTANTS
  Subs,             \* subscription ids
  Nodes,            \* nodes that may be committed
  Writers,          \* threads that write to the fabric
  Workers,          \* threads of the dispatch pool
  ObservesPanics,   \* subscriptions whose pattern matches SubscriptionPanic nodes
  Instances,        \* ids still unused and DispatchConfig to start from
  None              \* nothing

Threads == Writers \cup Workers

ASSUME DispatchAssumption ==
  /\ IsFiniteSet(Writers) /\ IsFiniteSet(Workers)
  /\ Writers \cap Workers = {}
  /\ None \notin Subs \cup Nodes
  /\ \A i \in Instances : /\ i.subs \subseteq Subs /\ i.nodes \subseteq Nodes
                          /\ i.workers \subseteq Workers /\ i.lagged_threshold \in Nat \ {0}

VARIABLES
  registry,    \* subscriptions in the registry
  lagged_threshold, \* of the DispatchConfig
  removed,     \* subscriptions that were unsubscribed
  queueDepth,  \* SubscriptionEntry.queue_depth
  lagged,      \* SubscriptionEntry.lagged
  written,     \* nodes committed to the fabric
  dying,       \* those that announce a P53 termination
  blame,       \* subscriptions whose panics led to the node
  channel,     \* tasks sent and not yet received
  open,        \* the pool still has its Sender
  bridge,      \* "up", or "dropped" with the BridgeFabric
  stopping,    \* a thread outside the pool is in shutdown(), joining the workers
  pc,          \* next step of each thread
  event,       \* node a thread is dispatching
  todo,        \*   the matching entries of its snapshot still to visit,
  entry,       \*   and the entry it is visiting
  sub,         \* task a worker runs: its subscription,
  node,        \*   its node,
  attempt,     \*   1, or 2 when it is the retry,
  again,       \*   and whether a retry follows
  calls        \* callback invocations for each subscription and node

entries == <<registry, removed, queueDepth, lagged>>
graph == <<written, dying, blame>>
pool == <<channel, open, bridge, stopping>>
cursor == <<event, todo, entry>>
task == <<sub, node, attempt, again>>
vars == <<lagged_threshold, entries, graph, pool, pc, cursor, task, calls>>

Matches(s, n) == blame[n] = {} \/ s \in ObservesPanics
Goto(t, step) == pc' = [pc EXCEPT ![t] = step]
Add(s, k) == queueDepth' = [queueDepth EXCEPT ![s] = @ + k]

StartWith(i) ==
  /\ lagged_threshold = i.lagged_threshold
  /\ removed = Subs \ i.subs
  /\ written = Nodes \ i.nodes
  /\ pc = [t \in Threads |->
             IF t \in Writers THEN "idle" ELSE IF t \in i.workers THEN "receive" ELSE "absent"]

Init ==
  /\ \E i \in Instances : StartWith(i)
  /\ registry = {}
  /\ queueDepth = [s \in Subs |-> 0]
  /\ lagged = [s \in Subs |-> FALSE]
  /\ dying = {}
  /\ blame = [n \in Nodes |-> {}]
  /\ channel = <<>>
  /\ open = TRUE
  /\ bridge = "up"
  /\ stopping = FALSE
  /\ event = [t \in Threads |-> None]
  /\ todo = [t \in Threads |-> {}]
  /\ entry = [t \in Threads |-> None]
  /\ sub = [w \in Workers |-> None]
  /\ node = [w \in Workers |-> None]
  /\ attempt = [w \in Workers |-> 1]
  /\ again = [w \in Workers |-> FALSE]
  /\ calls = [s \in Subs |-> [n \in Nodes |-> 0]]

(***************************************************************************)
(* Registry.                                                               *)
(***************************************************************************)
Subscribe(s) ==
  /\ bridge = "up"
  /\ s \notin registry \cup removed
  /\ registry' = registry \cup {s}
  /\ UNCHANGED <<removed, queueDepth, lagged, graph, pool, pc, cursor, task, calls>>

Unsubscribe(s) ==
  /\ bridge = "up"
  /\ s \in registry
  /\ registry' = registry \ {s}
  /\ removed' = removed \cup {s}
  /\ UNCHANGED <<queueDepth, lagged, graph, pool, pc, cursor, task, calls>>

(***************************************************************************)
(* Dispatch, by a writer after its commit, or by a worker that reports a   *)
(* panic.  The dying event of a P53 trigger goes through the same loop     *)
(* without the backpressure test.                                          *)
(***************************************************************************)
Commit(t, n) ==
  /\ n \notin written
  /\ written' = written \cup {n}
  /\ event' = [event EXCEPT ![t] = n]
  /\ Goto(t, "snapshot")

Write(t, n) ==
  /\ bridge = "up"
  /\ pc[t] = "idle"
  /\ Commit(t, n)
  /\ dying' \in {dying, dying \cup {n}}
  /\ UNCHANGED <<entries, blame, pool, todo, entry, task, calls>>

\* The reporter skips the subscription that panicked; a writer skips none.
SkipNone(t) == {}                  \* mutant: its own panic comes back to it
Skipped(t) == IF t \in Workers THEN {sub[t]} ELSE {}

TakeSnapshot(t) ==
  /\ pc[t] = "snapshot"
  /\ todo' = [todo EXCEPT ![t] = {s \in registry \ Skipped(t) : Matches(s, event[t])}]
  /\ Goto(t, "dispatch")
  /\ UNCHANGED <<entries, graph, pool, event, entry, task, calls>>

FullAbove(s) == queueDepth[s] > lagged_threshold  \* mutant: off by one
Full(s) == queueDepth[s] >= lagged_threshold

LoadDepth(t, s) ==
  /\ pc[t] = "dispatch"
  /\ s \in todo[t]
  /\ todo' = [todo EXCEPT ![t] = @ \ {s}]
  /\ entry' = [entry EXCEPT ![t] = s]
  /\ Goto(t, IF Full(s) /\ event[t] \notin dying THEN "mark" ELSE "enqueue")
  /\ UNCHANGED <<entries, graph, pool, event, task, calls>>

MarkLagged(t) ==
  /\ pc[t] = "mark"
  /\ lagged' = [lagged EXCEPT ![entry[t]] = TRUE]
  /\ entry' = [entry EXCEPT ![t] = None]
  /\ Goto(t, "dispatch")
  /\ UNCHANGED <<registry, removed, queueDepth, graph, pool, event, todo, task, calls>>

SendCounted(s, n) ==               \* mutant: counted even when not sent
  /\ channel' = IF open THEN Append(channel, [sub |-> s, node |-> n]) ELSE channel
  /\ Add(s, 1)
SendTask(s, n) ==
  IF open
  THEN /\ channel' = Append(channel, [sub |-> s, node |-> n])
       /\ Add(s, 1)
  ELSE UNCHANGED <<channel, queueDepth>>

Enqueue(t) ==
  /\ pc[t] = "enqueue"
  /\ SendTask(entry[t], event[t])
  /\ entry' = [entry EXCEPT ![t] = None]
  /\ Goto(t, "dispatch")
  /\ UNCHANGED <<registry, removed, lagged, graph, open, bridge, stopping, event, todo, task, calls>>

EndDispatch(t) ==
  /\ pc[t] = "dispatch"
  /\ todo[t] = {}
  /\ event' = [event EXCEPT ![t] = None]
  /\ Goto(t, IF t \in Workers THEN "settle" ELSE "idle")
  /\ UNCHANGED <<entries, graph, pool, todo, entry, task, calls>>

(***************************************************************************)
(* Workers.  Only one of them holds the receiver at a time; which one is   *)
(* not distinguished, so any worker in "receive" may take the next task.   *)
(***************************************************************************)
Receive(w) ==
  /\ pc[w] = "receive"
  /\ channel # <<>>
  /\ channel' = Tail(channel)
  /\ sub' = [sub EXCEPT ![w] = Head(channel).sub]
  /\ node' = [node EXCEPT ![w] = Head(channel).node]
  /\ attempt' = [attempt EXCEPT ![w] = 1]
  /\ Goto(w, "run")
  /\ UNCHANGED <<entries, graph, open, bridge, stopping, cursor, again, calls>>

\* recv() fails once the Sender is gone and the buffered tasks are received.
ExitAtOnce == ~ open               \* mutant: buffered tasks are abandoned
NeverAlone == FALSE                \* mutant: a worker keeps a clone of the Sender
Disconnected == ~ open /\ channel = <<>>

ExitWorker(w) ==
  /\ pc[w] = "receive"
  /\ Disconnected
  /\ Goto(w, "exited")
  /\ UNCHANGED <<entries, graph, pool, cursor, task, calls>>

MayRetry(w) == attempt[w] = 1

RunCallback(w) ==
  /\ pc[w] = "run"
  /\ calls' = [calls EXCEPT ![sub[w]][node[w]] = @ + 1]
  /\ \/ /\ again' = [again EXCEPT ![w] = FALSE]      \* Success, UnrecoverableError
        /\ Goto(w, "settle") /\ open' = open
     \/ /\ again' = [again EXCEPT ![w] = MayRetry(w)] \* RetryRequested
        /\ Goto(w, "settle") /\ open' = open
     \/ /\ again' = [again EXCEPT ![w] = FALSE]      \* panic, caught
        /\ Goto(w, "report") /\ open' = open
     \/ /\ bridge = "up"                            \* it calls shutdown()
        /\ again' = [again EXCEPT ![w] = FALSE]
        /\ Goto(w, "stop") /\ open' = FALSE
  /\ UNCHANGED <<entries, graph, channel, bridge, stopping, cursor, sub, node, attempt>>

\* The reporter commits a SubscriptionPanic node and dispatches it.  A refused
\* commit (High region, poisoned lock) reports nothing.
ReportPanic(w, n) ==
  /\ pc[w] = "report"
  /\ Commit(w, n)
  /\ blame' = [blame EXCEPT ![n] = blame[node[w]] \cup {sub[w]}]
  /\ UNCHANGED <<entries, dying, pool, todo, entry, task, calls>>

ReportRefused(w) ==
  /\ pc[w] = "report"
  /\ Goto(w, "settle")
  /\ UNCHANGED <<entries, graph, pool, cursor, task, calls>>

Settle(w) ==
  /\ pc[w] = "settle"
  /\ Add(sub[w], -1)
  /\ Goto(w, "check")
  /\ UNCHANGED <<registry, removed, lagged, graph, pool, cursor, task, calls>>

\* Besides the bridge, the entries hold the pool, each in its panic reporter: those in
\* the registry, which the reporters hold too, those of the tasks in the channel and
\* those of the tasks of workers.
Busy(w) == pc[w] \notin {"receive", "exited", "absent", "drop"}
HeldBy(workers) == registry # {} \/ channel # <<>> \/ \E w \in workers : Busy(w)
LastReference(w) == bridge = "dropped" /\ ~ HeldBy(Workers \ {w})

\* The task ends, and with it, if nothing else holds the pool, the pool: its drop
\* closes the channel and joins the workers, this one among them.
EndTask(w) ==
  /\ sub' = [sub EXCEPT ![w] = None]
  /\ node' = [node EXCEPT ![w] = None]
  /\ open' = (open /\ ~ LastReference(w))
  /\ Goto(w, IF open /\ LastReference(w) THEN "drop" ELSE "receive")

Proceed(w) ==
  IF again[w] THEN Goto(w, "backoff") /\ UNCHANGED <<sub, node, open>> ELSE EndTask(w)

CheckDrained(w) ==
  /\ pc[w] = "check"
  /\ IF queueDepth[sub[w]] = 0
     THEN Goto(w, "clear") /\ UNCHANGED <<sub, node, open>>
     ELSE Proceed(w)
  /\ UNCHANGED <<entries, graph, channel, bridge, stopping, cursor, attempt, again, calls>>

ClearLagged(w) ==
  /\ pc[w] = "clear"
  /\ lagged' = [lagged EXCEPT ![sub[w]] = FALSE]
  /\ Proceed(w)
  /\ UNCHANGED <<registry, removed, queueDepth, graph, channel, bridge, stopping, cursor,
                 attempt, again, calls>>

Retry(w) ==
  /\ pc[w] = "backoff"
  /\ Add(sub[w], 1)
  /\ attempt' = [attempt EXCEPT ![w] = 2]
  /\ Goto(w, "run")
  /\ UNCHANGED <<registry, removed, lagged, graph, pool, cursor, sub, node, again, calls>>

(***************************************************************************)
(* The end of the pool.  shutdown() takes the Sender, locks the list of    *)
(* workers and joins them; dropping the pool does the same.  Called by a   *)
(* callback, or by the drop at the end of a task, it joins its own thread, *)
(* which panics or never returns; a callback's also waits for ever for the *)
(* list that another thread holds while it joins this one.                 *)
(***************************************************************************)
Shutdown ==
  /\ bridge = "up"
  /\ open
  /\ open' = FALSE
  /\ stopping' = TRUE
  /\ UNCHANGED <<entries, graph, channel, bridge, pc, cursor, task, calls>>

Stopped == \A w \in Workers : pc[w] \in {"exited", "absent"}

ShutdownReturns ==
  /\ stopping
  /\ Stopped
  /\ stopping' = FALSE
  /\ UNCHANGED <<entries, graph, channel, open, bridge, pc, cursor, task, calls>>

\* The callback's panic, caught.  It poisons the list, on which a shutdown that
\* waits for it panics.
StopFails(w) ==
  /\ pc[w] = "stop"
  /\ stopping' = FALSE
  /\ Goto(w, "report")
  /\ UNCHANGED <<entries, graph, channel, open, bridge, cursor, task, calls>>

\* The panic of the drop, which ends the thread.
DropFails(w) ==
  /\ pc[w] = "drop"
  /\ Goto(w, "exited")
  /\ UNCHANGED <<entries, graph, pool, cursor, task, calls>>

\* With the bridge goes the pool, unless an entry holds it.
DropBridge ==
  /\ bridge = "up"
  /\ \A t \in Writers : pc[t] = "idle"
  /\ ~ stopping
  /\ \A w \in Workers : pc[w] # "stop"
  /\ bridge' = "dropped"
  /\ open' = (open /\ HeldBy(Workers))
  /\ stopping' = (open /\ ~ HeldBy(Workers))
  /\ UNCHANGED <<entries, graph, channel, pc, cursor, task, calls>>

-----------------------------------------------------------------------------
Dispatch(t) ==
  /\ UNCHANGED lagged_threshold
  /\ \/ TakeSnapshot(t)
     \/ \E s \in Subs : LoadDepth(t, s)
     \/ MarkLagged(t)
     \/ Enqueue(t)
     \/ EndDispatch(t)

Work(w) ==
  /\ UNCHANGED lagged_threshold
  /\ \/ Receive(w)
     \/ ExitWorker(w)
     \/ RunCallback(w)
     \/ \E n \in Nodes : ReportPanic(w, n)
     \/ ReportRefused(w)
     \/ Settle(w)
     \/ CheckDrained(w)
     \/ ClearLagged(w)
     \/ Retry(w)

Use ==
  /\ UNCHANGED lagged_threshold
  /\ \/ \E s \in Subs : Subscribe(s) \/ Unsubscribe(s)
     \/ \E t \in Writers, n \in Nodes : Write(t, n)
     \/ Shutdown
     \/ DropBridge

Fail(w) == UNCHANGED lagged_threshold /\ (StopFails(w) \/ DropFails(w))
Return == UNCHANGED lagged_threshold /\ ShutdownReturns

Next ==
  \/ Use
  \/ \E t \in Threads : Dispatch(t)
  \/ \E w \in Workers : Work(w) \/ Fail(w)
  \/ Return

Spec == Init /\ [][Next]_vars

\* Threads are scheduled, and callbacks return that do not stop the pool; the program
\* is not obliged to write, subscribe or stop, nor the join of itself to fail.
FairSpec ==
  /\ Spec
  /\ \A t \in Threads : WF_vars(Dispatch(t))
  /\ \A w \in Workers : WF_vars(Work(w))
  /\ WF_vars(Return)

-----------------------------------------------------------------------------
Steps == {"idle", "snapshot", "dispatch", "mark", "enqueue", "receive", "run",
          "report", "settle", "check", "clear", "backoff", "stop", "drop", "exited", "absent"}
Tasks == [sub : Subs, node : Nodes]
TypeOK ==
  /\ lagged_threshold \in Nat \ {0}
  /\ registry \subseteq Subs /\ removed \subseteq Subs
  /\ queueDepth \in [Subs -> Nat]
  /\ lagged \in [Subs -> BOOLEAN]
  /\ written \subseteq Nodes /\ dying \subseteq Nodes
  /\ blame \in [Nodes -> SUBSET Subs]
  /\ channel \in Seq(Tasks)
  /\ open \in BOOLEAN
  /\ bridge \in {"up", "dropped"}
  /\ stopping \in BOOLEAN
  /\ pc \in [Threads -> Steps]
  /\ event \in [Threads -> Nodes \cup {None}]
  /\ todo \in [Threads -> SUBSET Subs]
  /\ entry \in [Threads -> Subs \cup {None}]
  /\ sub \in [Workers -> Subs \cup {None}]
  /\ node \in [Workers -> Nodes \cup {None}]
  /\ attempt \in [Workers -> {1, 2}]
  /\ again \in [Workers -> BOOLEAN]
  /\ calls \in [Subs -> [Nodes -> Nat]]

(***************************************************************************)
(* queue_depth is exact in every state although no lock protects it: the   *)
(* tasks in the channel plus the tasks a worker took and has not settled.  *)
(* So it never wraps below zero (which would mark the subscription lagged  *)
(* for ever) and a drained subscription has depth zero.                    *)
(***************************************************************************)
Queued(s) == {i \in DOMAIN channel : channel[i].sub = s}
Unsettled(w) == pc[w] \in {"run", "stop", "report", "snapshot", "dispatch", "mark", "enqueue", "settle"}
Running(s) == {w \in Workers : sub[w] = s /\ Unsettled(w)}
QueueDepthExact ==
  \A s \in Subs : queueDepth[s] = Cardinality(Queued(s)) + Cardinality(Running(s))

(***************************************************************************)
(* Backpressure: a depth test and the increment it allows are not atomic,  *)
(* so the queue may outgrow the threshold, but only by the increments that *)
(* other threads were about to make, and by P53 announcements.             *)
(***************************************************************************)
Started == {t \in Threads : pc[t] # "absent"}
Backpressure ==
  \A s \in Subs :
    queueDepth[s] <= lagged_threshold - 1 + Cardinality(Started) + Cardinality(dying)

\* A match is delivered as one task: it is queued, or run by one worker, or
\* over, and its callback is invoked at most twice.
OneTaskPerMatch ==
  \A s \in Subs, n \in Nodes :
    LET queued == {i \in DOMAIN channel : channel[i] = [sub |-> s, node |-> n]}
        held == {w \in Workers : sub[w] = s /\ node[w] = n}
    IN /\ Cardinality(queued) + Cardinality(held) <= 1
       /\ queued # {} => calls[s][n] = 0
       /\ calls[s][n] <= 2

\* No accepted task is abandoned: a worker exits, or drops the pool, only when the
\* channel is closed and empty, and it stays empty.
NoTaskAbandoned ==
  \A w \in Workers : pc[w] \in {"exited", "drop"} => ~ open /\ channel = <<>>

\* A subscription is never invoked with the report of a panic of its own,
\* however many other panics are reported meanwhile.
OwnPanicUnseen == \A s \in Subs, n \in Nodes : blame[n] = {s} => calls[s][n] = 0

\* No callback is invoked but for a match of its own, once and once again.
CallsAreDue == OneTaskPerMatch /\ OwnPanicUnseen

\* Every task the channel accepted is run, shut down or not, unless every worker is in
\* a callback that stops the pool.
Due(n) ==
  {s \in Subs : /\ calls[s][n] = 0
                /\ \/ \E i \in DOMAIN channel : channel[i] = [sub |-> s, node |-> n]
                   \/ \E w \in Workers : pc[w] = "run" /\ sub[w] = s /\ node[w] = n}
AllStop == \A w \in Workers : pc[w] \in {"stop", "absent"}
EveryTaskRuns == \A n \in Nodes : Due(n) # {} ~> Due(n) = {} \/ AllStop

\* Once the Sender is taken every worker exits but those that join themselves, and a
\* shutdown() outside the pool returns unless a callback that calls it is in its way.
Joining(w) == pc[w] \in {"stop", "drop"}
ShutdownCompletes ==
  /\ ~ open ~> \A w \in Workers : pc[w] \in {"exited", "absent"} \/ Joining(w)
  /\ stopping ~> (~ stopping \/ \E w \in Workers : pc[w] = "stop")
=============================================================================
