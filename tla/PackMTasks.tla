------------------------------ MODULE PackMTasks ------------------------------
(***************************************************************************)
(* V3Partition::finalize: priorities of the mtasks (finalizeCosts), and     *)
(* PartPackMTasks, which gives every mtask a thread and a place in the      *)
(* order in which that thread runs its mtasks.  A task is packed onto the   *)
(* thread on which it is estimated to start first; from another thread a    *)
(* task looks as if it took longer than it does.                            *)
(*                                                                         *)
(* The threads of a running model wait for each other wherever an edge of   *)
(* the graph crosses from one to another: the order of packing decides      *)
(* whether they ever all wait.                                              *)
(***************************************************************************)
EXTENDS MTaskGraph

CONSTANTS
  Tasks,              \* the ExecMTasks, by their ids
  nThreads,           \* --threads
  SandbagNumerator,   \* 30
  SandbagDenom,       \* 100
  NoTask,             \* nullptr
  Graphs              \* ExecMTask graphs: records of edges and cost

VARIABLES
  graph,        \* execGraphp->depGraphp()
  priority,     \* ExecMTask::priority()
  packing,      \* PartPackMTasks::go is at work
  ready,        \* m_ready
  thread,       \* ExecMTask::thread()
  packNext,     \* ExecMTask::packNextp()
  threadRoot,   \* the tasks with ExecMTask::threadRoot()
  prevMTask,    \* m_prevMTask
  busyUntil,    \* m_busyUntil
  completion    \* m_mtaskState, the completion times

packVars == <<graph, priority, packing, ready, thread, packNext, threadRoot, prevMTask,
              busyUntil, completion>>

CpuThreads == 0 .. nThreads - 1
Unassigned == nThreads                \* 0xffffffff

ASSUME PackAssumption ==
  /\ Tasks \subseteq Nat /\ IsFiniteSet(Tasks) /\ Tasks # {} /\ NoTask \notin Tasks
  /\ nThreads \in Nat \ {0}
  /\ SandbagNumerator \in Nat /\ SandbagDenom \in Nat \ {0}
  /\ Graphs \subseteq [edges : SUBSET (Tasks \X Tasks), cost : [Tasks -> Nat]]
  /\ \A g \in Graphs : HasNoCycle(Tasks, g.edges)

-----------------------------------------------------------------------------
Upstream(t) == {u \in Tasks : <<u, t>> \in graph.edges}
Downstream(t) == {u \in Tasks : <<t, u>> \in graph.edges}
Assigned == {t \in Tasks : thread[t] # Unassigned}

MaxOf(S) == IF S = {} THEN 0 ELSE Max(S)

\* The longest way from each task to an end of the graph, of at most n steps
\* of it.
WayOut[n \in Nat] ==
  [t \in Tasks |-> graph.cost[t]
     + IF n = 0 THEN 0 ELSE MaxOf({WayOut[n - 1][u] : u \in Downstream(t)})]

\* completionTime: when t is done, as a thread should estimate it.
SeenFrom(t, th) ==
  LET padded == completion[t] + (SandbagNumerator * graph.cost[t]) \div SandbagDenom
      next == packNext[t]
  IN CASE th = thread[t] -> completion[t]
       [] th # thread[t] /\ next # NoTask /\ padded >= completion[next] /\ completion[next] > 1
            -> completion[next] - 1
       [] OTHER -> padded

\* When t could start on th.
TimeBegin(th, t) == MaxOf({busyUntil[th]} \cup {SeenFrom(u, th) : u \in Upstream(t)})

Candidates == CpuThreads \X ready

\* The scan of threads and ready tasks: the earliest start wins, then the
\* higher priority, then who comes first in the scan.
Beats(p, q) ==
  LET p_time == TimeBegin(p[1], p[2])
      q_time == TimeBegin(q[1], q[2])
  IN \/ p_time < q_time
     \/ p_time = q_time /\ priority[p[2]] > priority[q[2]]
     \/ /\ p_time = q_time
        /\ priority[p[2]] = priority[q[2]]
        /\ p[1] < q[1] \/ (p[1] = q[1] /\ p[2] < q[2])

\* The tasks that waited for t alone.
NewlyReady(t) == {u \in Downstream(t) : Upstream(u) \ {t} \subseteq Assigned}

PackInit ==
  /\ graph \in Graphs
  /\ priority = WayOut[Cardinality(Tasks)]
  /\ packing = TRUE
  /\ ready = {t \in Tasks : Upstream(t) = {}}
  /\ thread = [t \in Tasks |-> Unassigned]
  /\ packNext = [t \in Tasks |-> NoTask]
  /\ threadRoot = {}
  /\ prevMTask = [th \in CpuThreads |-> NoTask]
  /\ busyUntil = [th \in CpuThreads |-> 0]
  /\ completion = [t \in Tasks |-> 0]

\* (mutant) a task is hung on the one packed first onto the thread.
Linked_AtRoot(t, th) ==
  IF prevMTask[th] = NoTask THEN packNext
  ELSE [u \in Tasks |-> IF u \in threadRoot /\ thread[u] = th THEN t ELSE packNext[u]]

\* (mutant) the two ends of the link are swapped.
Linked_Swapped(t, th) ==
  IF prevMTask[th] = NoTask THEN packNext ELSE [packNext EXCEPT ![t] = prevMTask[th]]

\* The task packed onto the thread last calls this one.
Linked(t, th) ==
  IF prevMTask[th] = NoTask THEN packNext ELSE [packNext EXCEPT ![prevMTask[th]] = t]

\* One iteration of go().
Pack(th, t) ==
  /\ packing
  /\ <<th, t>> \in Candidates
  /\ \A q \in Candidates \ {<<th, t>>} : Beats(<<th, t>>, q)
  /\ completion' = [completion EXCEPT ![t] = TimeBegin(th, t) + graph.cost[t]]
  /\ ready' = (ready \ {t}) \cup NewlyReady(t)
  /\ packNext' = Linked(t, th)
  /\ threadRoot' = IF prevMTask[th] = NoTask THEN threadRoot \cup {t} ELSE threadRoot
  /\ thread' = [thread EXCEPT ![t] = th]
  /\ prevMTask' = [prevMTask EXCEPT ![th] = t]
  /\ busyUntil' = [busyUntil EXCEPT ![th] = TimeBegin(th, t) + graph.cost[t]]
  /\ UNCHANGED <<graph, priority, packing>>

\* go() returns, and with the PartPackMTasks its state is gone.
Packed ==
  /\ packing
  /\ ready = {}
  /\ packing' = FALSE
  /\ prevMTask' = [th \in CpuThreads |-> NoTask]
  /\ busyUntil' = [th \in CpuThreads |-> 0]
  /\ completion' = [t \in Tasks |-> 0]
  /\ UNCHANGED <<graph, priority, ready, thread, packNext, threadRoot>>

PackNext == (\E th \in CpuThreads, t \in Tasks : Pack(th, t)) \/ Packed

PackSpec == PackInit /\ [][PackNext]_packVars

-----------------------------------------------------------------------------
PackTypeOK ==
  /\ graph.edges \subseteq Tasks \X Tasks /\ graph.cost \in [Tasks -> Nat]
  /\ priority \in [Tasks -> Nat]
  /\ packing \in BOOLEAN
  /\ ready \subseteq Tasks
  /\ thread \in [Tasks -> CpuThreads \cup {Unassigned}]
  /\ packNext \in [Tasks -> Tasks \cup {NoTask}]
  /\ threadRoot \subseteq Tasks
  /\ prevMTask \in [CpuThreads -> Tasks \cup {NoTask}]
  /\ busyUntil \in [CpuThreads -> Nat]
  /\ completion \in [Tasks -> Nat]

Chain == {e \in Tasks \X Tasks : packNext[e[1]] = e[2]}

\* The threads cannot wait for each other in a circle: the dependencies and
\* the order of each thread's own tasks have no cycle together.
NoCircularWait == HasNoCycle(Tasks, graph.edges \cup Chain)

\* A dependency inside one thread has no counter to wait for
\* (packedMTaskMayBlock): the thread's own order has to respect it.
ThreadOrder ==
  \A t, u \in Tasks :
    <<t, u>> \in graph.edges /\ thread[t] = thread[u] /\ thread[t] # Unassigned =>
      Before(Tasks, Chain, t, u)
=============================================================================
