----------------------------- MODULE ThreadedEval -----------------------------
(***************************************************************************)
(* A model whose mtasks run on CPU threads: the pool of worker threads      *)
(* (VlThreadPool, VlWorkerThread), the counter by which an mtask waits for  *)
(* those before it on other threads (VlMTaskVertex), and the queues that    *)
(* carry $display, $finish and the like from the mtasks to the thread that  *)
(* called eval().  The schedule is the one PackMTasks leaves.               *)
(*                                                                         *)
(* RTLflow's emitter keeps the calls of this protocol as comments and       *)
(* launches kernels in their place; the classes are in the run time         *)
(* library, and the commented calls are how they are meant to be used.      *)
(***************************************************************************)
EXTENDS PackMTasks, Sequences, SequencesExt

CONSTANTS
  Main,       \* the thread that calls eval()
  Messages    \* how many messages each mtask posts

VARIABLES
  even_cycle,        \* __Vm_even_cycle
  upstreamDepsDone,  \* VlMTaskVertex::m_upstreamDepsDone, also of __Vm_mt_final
  pc,                \* per thread: where it is
  work,              \* per thread: the mtask it is at, and evenCycle
  toSignal,          \* per thread: mtasks still to be told that the last one is done
  t_queue,           \* per thread: VerilatedThreadMsgQueue
  m_queue,           \* VerilatedEvalMsgQueue, ordered
  m_ready,           \* per worker: m_ready, a queue of ExecRec
  m_waiting,         \* per worker: m_waiting
  m_exiting,         \* per worker: m_exiting
  asleep,            \* the workers that are blocked in m_cv.wait
  at,                \* Main: the worker it is about to start, call or delete
  notify,            \* Main: addTask is going to notify that worker
  finished,          \* mtasks whose bodies have run in this evaluation
  printed            \* messages that have been run in this evaluation

poolVars == <<m_ready, m_waiting, m_exiting, asleep, at, notify>>
taskVars == <<even_cycle, upstreamDepsDone, toSignal, t_queue, m_queue, finished, printed>>
vars == <<packVars, poolVars, taskVars, pc, work>>

Workers == 0 .. nThreads - 2
Threads == Workers \cup {Main}
Final == NoTask                        \* __Vm_mt_final
NoWork == [task |-> NoTask, even |-> FALSE]

ASSUME ThreadsAssumption ==
  /\ nThreads >= 2
  /\ Main \notin Nat
  /\ Messages \in [Tasks -> Nat]

-----------------------------------------------------------------------------
(* The emitted program, given the schedule.                                 *)

OtherThread(t, u) == thread[t] # thread[u]

\* packedMTaskMayBlock: the counters count what crosses threads.
CrossUpstream(t) == {u \in Upstream(t) : OtherThread(u, t)}
CrossDownstream(t) == {u \in Downstream(t) : OtherThread(t, u)}
LastOfThreads == {t \in Tasks : packNext[t] = NoTask}

\* m_upstreamDepCount
upstreamDepCount(t) ==
  IF t = Final THEN Cardinality(LastOfThreads) ELSE Cardinality(CrossUpstream(t))

areUpstreamDepsDone(t, even) ==
  upstreamDepsDone[t] = IF even THEN upstreamDepCount(t) ELSE 0

\* (mutant) every evaluation counts up.
signalled_Up(t, even) == [upstreamDepsDone EXCEPT ![t] = @ + 1]

\* signalUpstreamDone
signalled(t, even) == [upstreamDepsDone EXCEPT ![t] = IF even THEN @ + 1 ELSE @ - 1]

\* execMTasks: the roots by their ids, the last for Main, the others for the pool.
RootsBefore(r) == {s \in threadRoot : s < r}
execMTasks ==
  [i \in 1 .. Cardinality(threadRoot) |->
     CHOOSE r \in threadRoot : Cardinality(RootsBefore(r)) = i - 1]
RootsForPool == Len(execMTasks) - 1

MessagesOf(t) == [i \in 1 .. Messages[t] |-> <<t, i>>]

\* A multiset ordered by the ids of the mtasks; equal ones stay in order.
Inserted(q, msg) ==
  LET before == Cardinality({i \in DOMAIN q : q[i][1] <= msg[1]})
  IN InsertAt(q, before + 1, msg)

-----------------------------------------------------------------------------
EvalInit ==
  /\ even_cycle = FALSE
  /\ upstreamDepsDone = [t \in Tasks \cup {Final} |-> 0]
  /\ pc = [th \in Threads |-> IF th = Main THEN "idle" ELSE "dequeue"]
  /\ work = [th \in Threads |-> NoWork]
  /\ toSignal = [th \in Threads |-> {}]
  /\ t_queue = [th \in Threads |-> <<>>]
  /\ m_queue = <<>>
  /\ m_ready = [w \in Workers |-> <<>>]
  /\ m_waiting = [w \in Workers |-> FALSE]
  /\ m_exiting = [w \in Workers |-> FALSE]
  /\ asleep = {}
  /\ at = 0
  /\ notify = FALSE
  /\ finished = {}
  /\ printed = <<>>

Init == PackInit /\ EvalInit

Goto(th, label) == pc' = [pc EXCEPT ![th] = label]

-----------------------------------------------------------------------------
(* The pool.                                                                 *)

\* (mutant) whether the worker waits is not looked at.
Notified_Never(w) == FALSE

Notified(w) == m_waiting[w]

\* addTask, inside the lock; the notification follows outside of it.
AddTask(w, rec) ==
  /\ m_ready' = [m_ready EXCEPT ![w] = Append(@, rec)]
  /\ notify' = Notified(w)
  /\ UNCHANGED <<m_waiting, m_exiting, asleep, at>>

\* addTask, m_cv.notify_one()
Notify ==
  /\ pc[Main] \in {"notify_task", "notify_exit"}
  /\ asleep' = IF notify THEN asleep \ {at} ELSE asleep
  /\ notify' = FALSE
  /\ IF pc[Main] = "notify_task" THEN at' = at + 1 /\ Goto(Main, "launch")
                                 ELSE at' = at /\ Goto(Main, "join")
  /\ UNCHANGED <<packVars, m_ready, m_waiting, m_exiting, taskVars, work>>

\* dequeWork: the lock is given up only to wait for m_cv.
Dequeue(w) ==
  /\ pc[w] = "dequeue" /\ w \notin asleep
  /\ IF m_ready[w] = <<>>
     THEN /\ m_waiting' = [m_waiting EXCEPT ![w] = TRUE]
          /\ asleep' = asleep \cup {w}
          /\ UNCHANGED <<m_ready, work, pc>>
     ELSE /\ m_waiting' = [m_waiting EXCEPT ![w] = FALSE]
          /\ work' = [work EXCEPT ![w] = Head(m_ready[w])]
          /\ m_ready' = [m_ready EXCEPT ![w] = Tail(@)]
          /\ Goto(w, "check")
          /\ UNCHANGED asleep
  /\ UNCHANGED <<packVars, m_exiting, at, notify, taskVars>>

\* A condition variable may wake its waiter for no reason.
WakeUpSpuriously(w) ==
  /\ w \in asleep
  /\ asleep' = asleep \ {w}
  /\ UNCHANGED <<packVars, m_ready, m_waiting, m_exiting, at, notify, taskVars, pc, work>>

\* workerLoop, after dequeWork
Check(w) ==
  /\ pc[w] = "check"
  /\ Goto(w, IF m_exiting[w] THEN "exited"
             ELSE IF work[w].task # NoTask THEN "run" ELSE "dequeue")
  /\ UNCHANGED <<packVars, poolVars, taskVars, work>>

-----------------------------------------------------------------------------
(* A thread's mtasks, one after the other.                                   *)

\* waitUntilUpstreamDone, for mtasks that have a counter.
MayRun(th) ==
  LET t == work[th].task
  IN CrossUpstream(t) # {} => areUpstreamDepsDone(t, work[th].even)

\* The body: its messages stay on the thread.
RunBody(th) ==
  /\ pc[th] = "run"
  /\ MayRun(th)
  /\ finished' = finished \cup {work[th].task}
  /\ t_queue' = [t_queue EXCEPT ![th] = @ \o MessagesOf(work[th].task)]
  /\ toSignal' = [toSignal EXCEPT ![th] = CrossDownstream(work[th].task)]
  /\ Goto(th, "after")
  /\ UNCHANGED <<packVars, poolVars, even_cycle, upstreamDepsDone, m_queue, printed, work>>

\* endOfThreadMTask, VerilatedThreadMsgQueue::flush: one post() after the other.
Flush(th) ==
  /\ pc[th] = "after" /\ t_queue[th] # <<>>
  /\ m_queue' = Inserted(m_queue, Head(t_queue[th]))
  /\ t_queue' = [t_queue EXCEPT ![th] = Tail(@)]
  /\ UNCHANGED <<packVars, poolVars, even_cycle, upstreamDepsDone, toSignal,
                 finished, printed, pc, work>>

\* (mutant) the mtasks after are told before the messages are flushed.
Flushed_Later(th) == TRUE

Flushed(th) == t_queue[th] = <<>>

Signal(th, t) ==
  /\ pc[th] = "after" /\ Flushed(th)
  /\ t \in toSignal[th]
  /\ upstreamDepsDone' = signalled(t, work[th].even)
  /\ toSignal' = [toSignal EXCEPT ![th] = @ \ {t}]
  /\ UNCHANGED <<packVars, poolVars, even_cycle, t_queue, m_queue, finished, printed, pc, work>>

\* packNextp(), called inline.
RunNext(th) ==
  /\ pc[th] = "after" /\ Flushed(th) /\ toSignal[th] = {}
  /\ packNext[work[th].task] # NoTask
  /\ work' = [work EXCEPT ![th] = [task |-> packNext[work[th].task], even |-> work[th].even]]
  /\ Goto(th, "run")
  /\ UNCHANGED <<packVars, poolVars, taskVars>>

\* The last of a thread unblocks __Vm_mt_final; the function returns.
SignalFinal(th) ==
  /\ pc[th] = "after" /\ Flushed(th) /\ toSignal[th] = {}
  /\ packNext[work[th].task] = NoTask
  /\ upstreamDepsDone' = signalled(Final, work[th].even)
  /\ work' = [work EXCEPT ![th] = NoWork]
  /\ Goto(th, IF th = Main THEN "await" ELSE "dequeue")
  /\ UNCHANGED <<packVars, poolVars, even_cycle, toSignal, t_queue, m_queue, finished, printed>>

-----------------------------------------------------------------------------
(* eval() and the destructor.                                                *)

Eval ==
  /\ pc[Main] = "idle" /\ ~packing
  /\ even_cycle' = ~even_cycle
  /\ finished' = {}
  /\ printed' = <<>>
  /\ Goto(Main, "launch")
  /\ UNCHANGED <<packVars, poolVars, upstreamDepsDone, toSignal, t_queue, m_queue, work>>

LaunchOnWorker ==
  /\ pc[Main] = "launch" /\ at < RootsForPool
  /\ AddTask(at, [task |-> execMTasks[at + 1], even |-> even_cycle])
  /\ Goto(Main, "notify_task")
  /\ UNCHANGED <<packVars, taskVars, work>>

RunInline ==
  /\ pc[Main] = "launch" /\ at = RootsForPool
  /\ work' = [work EXCEPT ![Main] = [task |-> execMTasks[at + 1], even |-> even_cycle]]
  /\ at' = 0
  /\ Goto(Main, "run")
  /\ UNCHANGED <<packVars, m_ready, m_waiting, m_exiting, asleep, notify, taskVars>>

Await ==
  /\ pc[Main] = "await"
  /\ areUpstreamDepsDone(Final, even_cycle)
  /\ Goto(Main, "process")
  /\ UNCHANGED <<packVars, poolVars, taskVars, work>>

\* endOfEval, VerilatedEvalMsgQueue::process
Process ==
  /\ pc[Main] = "process" /\ m_queue # <<>>
  /\ printed' = Append(printed, Head(m_queue))
  /\ m_queue' = Tail(m_queue)
  /\ UNCHANGED <<packVars, poolVars, even_cycle, upstreamDepsDone, toSignal, t_queue,
                 finished, pc, work>>

Return ==
  /\ pc[Main] = "process" /\ m_queue = <<>>
  /\ Goto(Main, "idle")
  /\ UNCHANGED <<packVars, poolVars, taskVars, work>>

\* ~VlThreadPool, and ~VlWorkerThread of each worker
Destroy ==
  /\ pc[Main] = "idle" /\ ~packing
  /\ Goto(Main, "delete")
  /\ UNCHANGED <<packVars, poolVars, taskVars, work>>

Delete ==
  /\ pc[Main] = "delete"
  /\ m_exiting' = [m_exiting EXCEPT ![at] = TRUE]
  /\ Goto(Main, "wake_up")
  /\ UNCHANGED <<packVars, m_ready, m_waiting, asleep, at, notify, taskVars, work>>

WakeUp ==
  /\ pc[Main] = "wake_up"
  /\ AddTask(at, NoWork)
  /\ Goto(Main, "notify_exit")
  /\ UNCHANGED <<packVars, taskVars, work>>

Join ==
  /\ pc[Main] = "join" /\ pc[at] = "exited"
  /\ IF at + 1 \in Workers THEN at' = at + 1 /\ Goto(Main, "delete")
                           ELSE at' = at /\ Goto(Main, "gone")
  /\ UNCHANGED <<packVars, m_ready, m_waiting, m_exiting, asleep, notify, taskVars, work>>

-----------------------------------------------------------------------------
CompileStep == PackNext /\ UNCHANGED <<poolVars, taskVars, pc, work>>

MTaskStep(th) ==
  RunBody(th) \/ Flush(th) \/ (\E t \in Tasks : Signal(th, t)) \/ RunNext(th) \/ SignalFinal(th)

WorkerStep(w) == Dequeue(w) \/ Check(w) \/ MTaskStep(w)

\* What Main does without being asked.
MainStep ==
  \/ Notify \/ LaunchOnWorker \/ RunInline \/ MTaskStep(Main) \/ Await \/ Process \/ Return
  \/ Delete \/ WakeUp \/ Join

Next ==
  \/ CompileStep \/ MainStep \/ Eval \/ Destroy
  \/ \E w \in Workers : WorkerStep(w) \/ WakeUpSpuriously(w)

\* The operating system runs every thread that can run; the compiler ends.
Fairness ==
  /\ WF_vars(CompileStep)
  /\ WF_vars(MainStep)
  /\ \A w \in Workers : WF_vars(WorkerStep(w))

Spec == Init /\ [][Next]_vars /\ Fairness

-----------------------------------------------------------------------------
\* The assertions of signalUpstreamDone, and that a counter is at the other end
\* of its range after each evaluation: where it counts from in the next one.
CountersTurn ==
  \A t \in Tasks \cup {Final} :
    /\ upstreamDepsDone[t] <= upstreamDepCount(t)
    /\ pc[Main] = "idle" => areUpstreamDepsDone(t, even_cycle)

\* To whoever calls it, eval() is one evaluation of the mtasks in the order
\* of the graph, and then their messages by mtask.
Evaluation == INSTANCE MTaskEval WITH
  edges <- graph.edges,
  busy <- pc[Main] \in {"launch", "notify_task", "run", "after", "await", "process"}

EvalSpec == Evaluation!Spec

\* eval() and the destructor return: no wake-up is lost, no thread waits for ever.
CallsReturn ==
  /\ pc[Main] = "launch" ~> pc[Main] = "idle"
  /\ pc[Main] = "delete" ~> pc[Main] = "gone"
=============================================================================
