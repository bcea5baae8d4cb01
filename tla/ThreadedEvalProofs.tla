-------------------------- MODULE ThreadedEvalProofs --------------------------
(***************************************************************************)
(* The threads of a running model, for any graph, costs, messages, number   *)
(* of threads and of evaluations.                                           *)
(*                                                                         *)
(* The invariant has four parts.  ScheduleInv is what packing left: one     *)
(* chain of packNextp() per thread, in an order no dependency contradicts.  *)
(* PoolInv says who has which mtask, in a queue of the pool, at work, or    *)
(* still to be handed out: each thread is on its own chain, with all before *)
(* it done and nothing after it.  CounterInv gives each counter as the      *)
(* number of those who have told it, up or down with the parity.  And       *)
(* MessageInv accounts for every message: on its thread, in the common      *)
(* queue, or printed.  From them follow that the counters turn and that     *)
(* eval() is, to its caller, one evaluation in order (MTaskEval).           *)
(***************************************************************************)
EXTENDS ThreadedEval, MTaskGraphProofs, FunctionTheorems, SequenceTheorems

-----------------------------------------------------------------------------
(* Packing (PartPackMTasks::go): what the threads do in their own order never *)
(* contradicts the graph.  None of it depends on the estimates, only on a     *)
(* task being packed after all that it waits for.                            *)

PackTypes ==
  /\ graph.edges \subseteq Tasks \X Tasks
  /\ HasNoCycle(Tasks, graph.edges)
  /\ ready \subseteq Tasks
  /\ thread \in [Tasks -> CpuThreads \cup {Unassigned}]
  /\ packNext \in [Tasks -> Tasks \cup {NoTask}]
  /\ prevMTask \in [CpuThreads -> Tasks \cup {NoTask}]

\* A task is packed after those it waits for.
UpstreamFirst == \A t \in Assigned : Upstream(t) \subseteq Assigned

ReadyNext == \A t \in ready : t \notin Assigned /\ Upstream(t) \subseteq Assigned

ChainAssigned ==
  \A t \in Tasks : packNext[t] # NoTask => t \in Assigned /\ packNext[t] \in Assigned

\* The last task of a thread ends its chain, which contains all its tasks.
PrevIsLast ==
  \A th \in CpuThreads :
    prevMTask[th] # NoTask =>
      /\ prevMTask[th] \in Assigned
      /\ thread[prevMTask[th]] = th
      /\ packNext[prevMTask[th]] = NoTask

ChainsReach ==
  packing =>
    \A t \in Assigned :
      prevMTask[thread[t]] # NoTask /\ Before(Tasks, Chain, t, prevMTask[thread[t]])

PackInv ==
  /\ PackTypes /\ UpstreamFirst /\ ReadyNext /\ ChainAssigned /\ PrevIsLast /\ ChainsReach
  /\ NoCircularWait /\ ThreadOrder

\* Each thread that has tasks has one root, at the head of its chain.
Roots ==
  /\ threadRoot \subseteq Assigned
  /\ \A r, s \in threadRoot : thread[r] = thread[s] => r = s
  /\ \A t \in Tasks : packNext[t] \notin threadRoot
  /\ packing => \A r \in threadRoot : prevMTask[thread[r]] # NoTask

\* A chain stays on its thread, and no task has two before it.
Links ==
  /\ \A t \in Tasks : packNext[t] # NoTask => thread[packNext[t]] = thread[t]
  /\ \A t, u \in Tasks : packNext[t] # NoTask /\ packNext[t] = packNext[u] => t = u

LEMMA PackInitial == PackInit => PackInv
<1> SUFFICES ASSUME PackInit PROVE PackInv
  OBVIOUS
<1> USE PackAssumption DEF PackInit
<1>1. Unassigned \notin CpuThreads
  BY DEF Unassigned, CpuThreads
<1>2. PackTypes
  BY DEF PackTypes
<1>3. Assigned = {}
  BY DEF Assigned
<1>4. Chain = {}
  BY DEF Chain
<1>5. graph.edges \cup Chain = graph.edges
  BY <1>4
<1>6. NoCircularWait
  BY <1>2, <1>5 DEF NoCircularWait, PackTypes
<1>7. ThreadOrder
  BY DEF ThreadOrder
<1>8. UpstreamFirst /\ ReadyNext /\ ChainAssigned /\ PrevIsLast /\ ChainsReach
  BY <1>3 DEF UpstreamFirst, ReadyNext, ChainAssigned, PrevIsLast, ChainsReach, Assigned, Upstream
<1> QED BY <1>2, <1>6, <1>7, <1>8 DEF PackInv

LEMMA PackStep ==
  ASSUME PackInv, NEW th \in CpuThreads, NEW t \in Tasks, Pack(th, t)
  PROVE  PackInv'
<1> USE PackAssumption
<1>1. /\ PackTypes /\ UpstreamFirst /\ ReadyNext /\ ChainAssigned /\ PrevIsLast /\ ChainsReach
      /\ NoCircularWait /\ ThreadOrder
  BY DEF PackInv
<1>2. /\ packing /\ packing' = packing /\ t \in ready /\ graph' = graph
      /\ thread' = [thread EXCEPT ![t] = th]
      /\ prevMTask' = [prevMTask EXCEPT ![th] = t]
      /\ packNext' = Linked(t, th)
      /\ ready' = (ready \ {t}) \cup NewlyReady(t)
  BY DEF Pack, Candidates
<1>3. th # Unassigned /\ th \in CpuThreads \cup {Unassigned}
  BY DEF CpuThreads, Unassigned
<1>4. t \notin Assigned /\ Upstream(t) \subseteq Assigned
  BY <1>1, <1>2 DEF ReadyNext
<1>5. Assigned' = Assigned \cup {t}
  BY <1>1, <1>2, <1>3 DEF Assigned, PackTypes
<1>6. \A u \in Tasks : Upstream(u)' = Upstream(u)
  BY <1>2 DEF Upstream
<1>7. PackTypes'
  <2>1. packNext' \in [Tasks -> Tasks \cup {NoTask}]
    BY <1>1, <1>2 DEF PackTypes, Linked
  <2>2. thread' \in [Tasks -> CpuThreads \cup {Unassigned}]
    BY <1>1, <1>2, <1>3 DEF PackTypes
  <2>3. prevMTask' \in [CpuThreads -> Tasks \cup {NoTask}]
    BY <1>1, <1>2 DEF PackTypes
  <2>4. ready' \subseteq Tasks
    BY <1>1, <1>2 DEF PackTypes, NewlyReady, Downstream
  <2> QED BY <1>1, <1>2, <2>1, <2>2, <2>3, <2>4 DEF PackTypes, CpuThreads, Unassigned
<1>8. UpstreamFirst'
  BY <1>1, <1>4, <1>5, <1>6 DEF UpstreamFirst, Assigned
<1>9. ReadyNext'
  <2> SUFFICES ASSUME NEW u \in ready' PROVE u \notin Assigned' /\ Upstream(u)' \subseteq Assigned'
    BY DEF ReadyNext
  <2>1. CASE u \in ready \ {t}
    BY <1>1, <1>5, <1>6, <1>7, <2>1 DEF ReadyNext, PackTypes
  <2>2. CASE u \in NewlyReady(t)
    <3>1. u \in Tasks /\ t \in Upstream(u) /\ Upstream(u) \ {t} \subseteq Assigned
      BY <2>2 DEF NewlyReady, Downstream, Upstream
    <3>2. u \notin Assigned
      BY <1>1, <1>4, <3>1 DEF UpstreamFirst
    <3>3. u # t
      BY <1>4, <3>1
    <3> QED BY <1>5, <1>6, <3>1, <3>2, <3>3
  <2> QED BY <1>2, <2>1, <2>2
\* The link that is new, if any, leads from the last task of th to t.
<1> DEFINE prev == prevMTask[th]
<1>10. prev \in Tasks \cup {NoTask}
  BY <1>1 DEF PackTypes
<1>11. prev # NoTask => prev \in Assigned /\ packNext[prev] = NoTask /\ prev # t
  BY <1>1, <1>4 DEF PrevIsLast
<1>12. \A u \in Tasks : packNext'[u] = IF u = prev THEN t ELSE packNext[u]
  BY <1>1, <1>2, <1>10 DEF PackTypes, Linked
<1>13. Chain \subseteq Chain'
  <2> SUFFICES ASSUME NEW e \in Chain PROVE e \in Chain'
    OBVIOUS
  <2>1. e \in Tasks \X Tasks /\ packNext[e[1]] = e[2]
    BY DEF Chain
  <2>2. e[1] \in Tasks /\ e[2] \in Tasks /\ e[2] # NoTask
    BY <2>1
  <2>3. e[1] # prev
    BY <1>11, <2>1, <2>2
  <2>4. packNext'[e[1]] = e[2]
    BY <1>12, <2>1, <2>2, <2>3
  <2> QED BY <2>1, <2>4 DEF Chain
<1>14. \A e \in Chain' : e \in Chain \/ (prev # NoTask /\ e[1] = prev /\ e[2] = t)
  BY <1>10, <1>12 DEF Chain
<1>15. prev # NoTask => <<prev, t>> \in Chain'
  BY <1>10, <1>12 DEF Chain
<1>16. ChainAssigned'
  BY <1>1, <1>5, <1>10, <1>11, <1>12 DEF ChainAssigned, PackTypes
<1>17. PrevIsLast'
  <2>1. packNext[t] = NoTask
    BY <1>1, <1>4 DEF ChainAssigned
  <2> SUFFICES ASSUME NEW w \in CpuThreads, prevMTask'[w] # NoTask
               PROVE  /\ prevMTask'[w] \in Assigned'
                      /\ thread'[prevMTask'[w]] = w
                      /\ packNext'[prevMTask'[w]] = NoTask
    BY DEF PrevIsLast
  <2>2. CASE w = th
    <3>1. prevMTask'[w] = t /\ thread'[t] = th
      BY <1>1, <1>2, <2>2 DEF PackTypes
    <3> QED BY <1>5, <1>10, <1>11, <1>12, <2>1, <2>2, <3>1
  <2>3. CASE w # th
    <3>1. prevMTask'[w] = prevMTask[w]
      BY <1>1, <1>2, <2>3 DEF PackTypes
    <3>2. /\ prevMTask[w] \in Assigned /\ thread[prevMTask[w]] = w
          /\ packNext[prevMTask[w]] = NoTask
      BY <1>1, <2>3, <3>1 DEF PrevIsLast
    <3>3. prevMTask[w] # prev
      BY <1>1, <2>3, <3>1, <3>2 DEF PrevIsLast
    <3>4. prevMTask[w] \in Tasks /\ prevMTask[w] # t
      BY <1>4, <3>2 DEF Assigned
    <3>5. thread'[prevMTask[w]] = thread[prevMTask[w]]
      BY <1>1, <1>2, <3>4 DEF PackTypes
    <3> QED BY <1>5, <1>12, <3>1, <3>2, <3>3, <3>4, <3>5
  <2> QED BY <2>2, <2>3
<1>18. ASSUME NEW a \in Assigned
       PROVE  a \in Tasks /\ a # t /\ thread'[a] = thread[a] /\ thread[a] \in CpuThreads
  <2>1. a \in Tasks /\ a # t /\ thread[a] # Unassigned
    BY <1>4 DEF Assigned
  <2> QED BY <1>1, <1>2, <2>1 DEF PackTypes
<1>19. thread'[t] = th /\ prevMTask'[th] = t /\ t # NoTask
  BY <1>1, <1>2 DEF PackTypes
<1>20. ChainsReach'
  <2> SUFFICES ASSUME NEW a \in Assigned'
               PROVE  /\ prevMTask'[thread'[a]] # NoTask
                      /\ Before(Tasks, Chain', a, prevMTask'[thread'[a]])
    BY DEF ChainsReach
  <2>1. CASE a = t
    BY <1>19, <2>1, BeforeItself
  <2>2. CASE a # t
    <3>1. a \in Assigned
      BY <1>5, <2>2
    <3>2. prevMTask[thread[a]] # NoTask /\ Before(Tasks, Chain, a, prevMTask[thread[a]])
      BY <1>1, <1>2, <3>1 DEF ChainsReach
    <3>3. Before(Tasks, Chain', a, prevMTask[thread[a]])
      BY <1>13, <3>2, BeforeMore
    <3>4. CASE thread[a] = th
      <4>1. <<prev, t>> \in Chain' /\ Before(Tasks, Chain', a, prev)
        BY <1>15, <3>2, <3>3, <3>4
      <4>2. Before(Tasks, Chain', a, t)
        BY <4>1, BeforeStep
      <4> QED BY <1>18, <1>19, <3>1, <3>4, <4>2
    <3>5. CASE thread[a] # th
      <4>1. prevMTask'[thread[a]] = prevMTask[thread[a]]
        BY <1>1, <1>2, <1>18, <3>1, <3>5 DEF PackTypes
      <4> QED BY <1>18, <3>1, <3>2, <3>3, <4>1
    <3> QED BY <3>4, <3>5
  <2> QED BY <2>1, <2>2
\* Nothing leads from a task that is not packed to one that is.
<1>21. NoCircularWait'
  <2> SUFFICES ASSUME NEW S \in SUBSET Tasks, S # {}
               PROVE  \E x \in S : \A u \in S : <<u, x>> \notin graph.edges \cup Chain'
    BY <1>2 DEF NoCircularWait, HasNoCycle
  <2>1. CASE S \cap Assigned # {}
    <3>1. PICK x \in S \cap Assigned :
            \A u \in S \cap Assigned : <<u, x>> \notin graph.edges \cup Chain
      BY <1>1, <2>1 DEF NoCircularWait, HasNoCycle
    <3>2. ASSUME NEW u \in S, <<u, x>> \in graph.edges \cup Chain' PROVE FALSE
      <4>1. x # t
        BY <1>18
      <4>2. <<u, x>> \in graph.edges \cup Chain
        BY <1>14, <3>2, <4>1
      <4>3. CASE <<u, x>> \in graph.edges
        <5>1. u \in Upstream(x)
          BY <4>3 DEF Upstream
        <5>2. u \in Assigned
          BY <1>1, <3>1, <5>1 DEF UpstreamFirst
        <5> QED BY <3>1, <4>2, <5>2
      <4>4. CASE <<u, x>> \in Chain
        <5>1. packNext[u] = x /\ x # NoTask
          BY <1>18, <4>4, PackAssumption DEF Chain
        <5>2. u \in Assigned
          BY <1>1, <5>1 DEF ChainAssigned
        <5> QED BY <3>1, <4>2, <5>2
      <4> QED BY <4>2, <4>3, <4>4
    <3> QED BY <3>1, <3>2
  <2>2. CASE S \cap Assigned = {}
    <3>1. PICK x \in S : \A u \in S : <<u, x>> \notin graph.edges \cup Chain
      BY <1>1 DEF NoCircularWait, HasNoCycle
    <3>2. ASSUME NEW u \in S, <<u, x>> \in graph.edges \cup Chain' PROVE FALSE
      <4>1. prev # NoTask /\ u = prev
        BY <1>14, <3>1, <3>2
      <4> QED BY <1>11, <2>2, <4>1
    <3> QED BY <3>1, <3>2
  <2> QED BY <2>1, <2>2
<1>22. ThreadOrder'
  <2> SUFFICES ASSUME NEW a \in Tasks, NEW b \in Tasks, <<a, b>> \in graph.edges,
                      thread'[a] = thread'[b], thread'[a] # Unassigned
               PROVE  Before(Tasks, Chain', a, b)
    BY <1>2 DEF ThreadOrder, Unassigned
  <2>1. a \in Upstream(b)
    BY DEF Upstream
  <2>2. CASE b = t
    <3>1. a \in Assigned /\ thread'[a] = th
      BY <1>4, <1>19, <2>1, <2>2
    <3>2. Before(Tasks, Chain', a, prevMTask'[thread'[a]])
      BY <1>2, <1>5, <1>20, <3>1 DEF ChainsReach
    <3> QED BY <1>19, <2>2, <3>1, <3>2
  <2>3. CASE b # t
    <3>1. b \in Assigned
      BY <1>1, <1>2, <2>3 DEF Assigned, PackTypes
    <3>2. a \in Assigned
      BY <1>1, <2>1, <3>1 DEF UpstreamFirst
    <3>3. thread[a] = thread[b] /\ thread[a] # Unassigned
      BY <1>18, <3>1, <3>2
    <3>4. Before(Tasks, Chain, a, b)
      BY <1>1, <3>3 DEF ThreadOrder
    <3> QED BY <1>13, <3>4, BeforeMore
  <2> QED BY <2>2, <2>3
<1> QED
  BY <1>7, <1>8, <1>9, <1>16, <1>17, <1>20, <1>21, <1>22 DEF PackInv

LEMMA PackedStep ==
  ASSUME PackInv, Packed
  PROVE  PackInv'
<1> USE PackAssumption DEF PackInv
<1>1. /\ graph' = graph /\ thread' = thread /\ packNext' = packNext /\ ready' = ready
      /\ packing' = FALSE /\ prevMTask' = [w \in CpuThreads |-> NoTask]
  BY DEF Packed
<1>2. PackTypes'
  BY <1>1 DEF PackTypes, CpuThreads, Unassigned
<1>3. Assigned' = Assigned /\ Chain' = Chain
  BY <1>1 DEF Assigned, Chain, Unassigned
<1>4. UpstreamFirst' /\ ReadyNext' /\ ChainAssigned'
  BY <1>1, <1>3 DEF UpstreamFirst, ReadyNext, ChainAssigned, Upstream
<1>5. PrevIsLast' /\ ChainsReach'
  BY <1>1 DEF PrevIsLast, ChainsReach, CpuThreads
<1>6. NoCircularWait' /\ ThreadOrder'
  BY <1>1, <1>3 DEF NoCircularWait, ThreadOrder, Unassigned
<1> QED BY <1>2, <1>4, <1>5, <1>6

LEMMA PackInductive == PackInv /\ [PackNext]_packVars => PackInv'
<1> SUFFICES ASSUME PackInv, [PackNext]_packVars PROVE PackInv'
  OBVIOUS
<1>1. CASE PackNext
  BY <1>1, PackStep, PackedStep DEF PackNext
<1>2. CASE UNCHANGED packVars
  <2>1. /\ graph' = graph /\ thread' = thread /\ packNext' = packNext /\ ready' = ready
        /\ packing' = packing /\ prevMTask' = prevMTask
    BY <1>2 DEF packVars
  <2> QED
    BY <2>1 DEF PackInv, PackTypes, UpstreamFirst, ReadyNext, ChainAssigned, PrevIsLast,
                ChainsReach, NoCircularWait, ThreadOrder, Assigned, Upstream, Chain,
                CpuThreads, Unassigned
<1> QED BY <1>1, <1>2

LEMMA RootsInitial == PackInit => Roots /\ Links
BY PackAssumption DEF PackInit, Roots, Links

LEMMA RootsStep ==
  ASSUME PackInv, Roots, Links, NEW th \in CpuThreads, NEW t \in Tasks, Pack(th, t)
  PROVE  Roots' /\ Links'
<1> USE PackAssumption
<1> DEFINE prev == prevMTask[th]
<1>1. PackTypes /\ ReadyNext /\ ChainAssigned /\ PrevIsLast
  BY DEF PackInv
<1>2. /\ packing /\ packing' = packing /\ t \in ready
      /\ thread' = [thread EXCEPT ![t] = th]
      /\ prevMTask' = [prevMTask EXCEPT ![th] = t]
      /\ packNext' = Linked(t, th)
      /\ threadRoot' = IF prev = NoTask THEN threadRoot \cup {t} ELSE threadRoot
  BY DEF Pack, Candidates
<1>3. th # Unassigned /\ t # NoTask
  BY DEF CpuThreads, Unassigned
<1>4. t \notin Assigned
  BY <1>1, <1>2 DEF ReadyNext
<1>5. /\ thread'[t] = th /\ prevMTask'[th] = t
      /\ \A u \in Tasks : u # t => thread'[u] = thread[u]
      /\ \A w \in CpuThreads : w # th => prevMTask'[w] = prevMTask[w]
  BY <1>1, <1>2 DEF PackTypes
<1>6. Assigned \subseteq Assigned' /\ t \in Assigned'
  BY <1>3, <1>4, <1>5 DEF Assigned, Unassigned
<1>7. \A r \in threadRoot : r \in Tasks /\ r # t /\ thread'[r] = thread[r]
  BY <1>4, <1>5 DEF Roots, Assigned
<1>8. prev = NoTask => \A r \in threadRoot : thread[r] # th
  BY <1>2 DEF Roots
<1>9. prev \in Tasks \cup {NoTask}
  BY <1>1 DEF PackTypes
<1>10. \A u \in Tasks : packNext'[u] = IF u = prev THEN t ELSE packNext[u]
  BY <1>1, <1>2, <1>9 DEF PackTypes, Linked
<1>11. \A u \in Tasks : packNext[u] # t
  BY <1>1, <1>3, <1>4 DEF ChainAssigned
<1>12. prev # NoTask => prev \in Tasks /\ prev # t /\ thread[prev] = th
  BY <1>1, <1>4 DEF PrevIsLast, Assigned
<1>13. ASSUME NEW u \in Tasks, packNext[u] # NoTask
       PROVE  /\ packNext[u] \in Tasks /\ packNext[u] # t /\ u # t
              /\ thread'[packNext[u]] = thread[packNext[u]] /\ thread'[u] = thread[u]
  BY <1>1, <1>4, <1>5, <1>13 DEF ChainAssigned, Assigned
<1>14. Roots'
  <2>1. threadRoot' \subseteq Assigned'
    BY <1>2, <1>6 DEF Roots
  <2>2. \A r, s \in threadRoot' : thread'[r] = thread'[s] => r = s
    BY <1>2, <1>5, <1>7, <1>8 DEF Roots
  <2>3. \A u \in Tasks : packNext'[u] \notin threadRoot'
    <3> SUFFICES ASSUME NEW u \in Tasks PROVE packNext'[u] \notin threadRoot'
      OBVIOUS
    <3>1. CASE u = prev
      BY <1>2, <1>3, <1>7, <1>10, <3>1
    <3>2. CASE u # prev
      BY <1>2, <1>10, <1>11, <3>2 DEF Roots
    <3> QED BY <3>1, <3>2
  <2>4. \A r \in threadRoot' : prevMTask'[thread'[r]] # NoTask
    <3> SUFFICES ASSUME NEW r \in threadRoot' PROVE prevMTask'[thread'[r]] # NoTask
      OBVIOUS
    <3>1. CASE thread'[r] = th
      BY <1>3, <1>5, <3>1
    <3>2. CASE thread'[r] # th
      <4>1. r \in threadRoot /\ thread'[r] = thread[r]
        BY <1>2, <1>5, <1>7, <3>2
      <4>2. thread[r] \in CpuThreads
        BY <1>1, <4>1 DEF Roots, Assigned, PackTypes
      <4> QED BY <1>2, <1>5, <3>2, <4>1, <4>2 DEF Roots
    <3> QED BY <3>1, <3>2
  <2> QED BY <2>1, <2>2, <2>3, <2>4 DEF Roots
<1>15. Links'
  <2>1. ASSUME NEW u \in Tasks, packNext'[u] # NoTask PROVE thread'[packNext'[u]] = thread'[u]
    <3>1. CASE u = prev
      BY <1>3, <1>5, <1>10, <1>12, <3>1
    <3>2. CASE u # prev
      BY <1>10, <1>13, <2>1, <3>2 DEF Links
    <3> QED BY <3>1, <3>2
  <2>2. \A u, v \in Tasks : packNext'[u] # NoTask /\ packNext'[u] = packNext'[v] => u = v
    BY <1>10, <1>11 DEF Links
  <2> QED BY <2>1, <2>2 DEF Links
<1> QED BY <1>14, <1>15

LEMMA RootsInductive ==
  PackInv /\ Roots /\ Links /\ [PackNext]_packVars => Roots' /\ Links'
<1> SUFFICES ASSUME PackInv, Roots, Links, [PackNext]_packVars PROVE Roots' /\ Links'
  OBVIOUS
<1>1. CASE \E th \in CpuThreads, t \in Tasks : Pack(th, t)
  BY <1>1, RootsStep
<1>2. CASE Packed \/ UNCHANGED packVars
  <2>1. /\ thread' = thread /\ packNext' = packNext /\ threadRoot' = threadRoot
        /\ packing' => packing /\ prevMTask' = prevMTask
    BY <1>2 DEF Packed, packVars
  <2> QED BY <2>1 DEF Roots, Links, Assigned, Unassigned
<1> QED BY <1>1, <1>2 DEF PackNext

\* There are never more roots than threads: what the emitter of the
\* evaluation asserts (visit(AstExecGraph*)).
LEMMA RootCount ==
  ASSUME PackInv, Roots
  PROVE  /\ IsFiniteSet(threadRoot)
         /\ Cardinality(threadRoot) \in Nat /\ Cardinality(threadRoot) <= nThreads
<1> USE PackAssumption
<1> DEFINE f == [r \in threadRoot |-> thread[r]]
<1>1. threadRoot \subseteq Tasks
  BY DEF Roots, Assigned
<1>2. IsFiniteSet(threadRoot) /\ Cardinality(threadRoot) \in Nat
  BY <1>1, FS_Subset, FS_CardinalityType
<1>3. f \in [threadRoot -> CpuThreads]
  BY <1>1 DEF PackInv, PackTypes, Roots, Assigned
<1>4. \A r, s \in threadRoot : f[r] = f[s] => r = s
  BY DEF Roots
<1>5. f \in Injection(threadRoot, CpuThreads)
  <2> HIDE DEF f
  <2> QED BY <1>3, <1>4, Fun_IsInj
<1>6. IsFiniteSet(CpuThreads) /\ Cardinality(CpuThreads) = nThreads
  <2>1. 0 \in Int /\ nThreads - 1 \in Int /\ (nThreads - 1) - 0 + 1 = nThreads /\ ~(0 > nThreads - 1)
    OBVIOUS
  <2> QED BY <2>1, FS_Interval DEF CpuThreads
<1>7. Cardinality(threadRoot) <= Cardinality(CpuThreads)
  BY <1>5, <1>6, FS_Injection
<1> QED BY <1>2, <1>6, <1>7

-----------------------------------------------------------------------------
(* The threads.                                                              *)

\* Nothing but the compiler changes the schedule.
LEMMA OnlyPackingSchedules == [Next]_vars => [PackNext]_packVars
<1> SUFFICES ASSUME Next, ~PackNext PROVE packVars' = packVars
  BY DEF vars
<1>1. CASE CompileStep
  BY <1>1 DEF CompileStep
<1>2. ASSUME NEW th \in Threads, MTaskStep(th) PROVE packVars' = packVars
  BY <1>2 DEF MTaskStep, RunBody, Flush, Signal, RunNext, SignalFinal
<1>3. CASE MainStep
  BY <1>2, <1>3 DEF MainStep, Threads, Notify, LaunchOnWorker, RunInline, Await, Process, Return,
                    Delete, WakeUp, Join
<1>4. CASE Eval \/ Destroy
  BY <1>4 DEF Eval, Destroy
<1>5. ASSUME NEW w \in Workers, WorkerStep(w) \/ WakeUpSpuriously(w) PROVE packVars' = packVars
  BY <1>2, <1>5 DEF WorkerStep, Threads, Dequeue, Check, WakeUpSpuriously
<1> QED BY <1>1, <1>3, <1>4, <1>5 DEF Next

ScheduleInv == PackInv /\ Roots /\ Links

LEMMA ScheduleInductive ==
  /\ Init => ScheduleInv
  /\ ScheduleInv /\ [Next]_vars => ScheduleInv'
BY PackInitial, RootsInitial, PackInductive, RootsInductive, OnlyPackingSchedules
DEF Init, ScheduleInv

LEMMA ScheduleInvariant == Spec => []ScheduleInv
BY ScheduleInductive, PTL DEF Spec

\* The dependencies and the orders of the threads never close a circle, while
\* they are made (PartPackMTasks::go) and ever after, whatever the graph, the
\* costs and the number of threads: of any mtasks that are left to run, one
\* waits for none of the others.
THEOREM NoCircle == Spec => []NoCircularWait
<1>1. ScheduleInv => NoCircularWait
  BY DEF ScheduleInv, PackInv
<1> QED BY <1>1, ScheduleInvariant, PTL

\* An mtask that a thread has to run before another, and that has no counter
\* to say so (packedMTaskMayBlock), is on the chain of packNextp() before it.
THEOREM DependenciesInThread == Spec => []ThreadOrder
<1>1. ScheduleInv => ThreadOrder
  BY DEF ScheduleInv, PackInv
<1> QED BY <1>1, ScheduleInvariant, PTL

-----------------------------------------------------------------------------
(* Who has which mtask.                                                      *)

Busy == pc[Main] \in {"launch", "notify_task", "run", "after", "await", "process"}

Rec == [task : Tasks \cup {NoTask}, even : BOOLEAN]

\* Whether a thread has a root, and which.
PlaceOf(th) == IF th = Main THEN RootsForPool ELSE th
Has(th) == IF th = Main THEN RootsForPool >= 0 ELSE th < RootsForPool
RootOf(th) == execMTasks[PlaceOf(th) + 1]

Carries(th) == work[th].task # NoTask

MainPlaces == {"idle", "launch", "notify_task", "run", "after", "await", "process",
               "delete", "wake_up", "notify_exit", "join", "gone"}
Places == MainPlaces \cup {"dequeue", "check", "exited"}

ThreadTypes ==
  /\ even_cycle \in BOOLEAN
  /\ pc \in [Threads -> Places]
  /\ work \in [Threads -> Rec]
  /\ toSignal \in [Threads -> SUBSET Tasks]
  /\ m_ready \in [Workers -> Seq(Rec)]
  /\ m_exiting \in [Workers -> BOOLEAN]
  /\ at \in 0 .. nThreads - 1
  /\ finished \subseteq Tasks

\* Where Main is says what it is in the middle of.
MainPlace ==
  /\ packing => pc[Main] = "idle" /\ ~even_cycle /\ finished = {}
  /\ pc[Main] \in MainPlaces
  /\ pc[Main] \in {"idle", "run", "after", "await", "process"} => at = 0
  /\ pc[Main] = "notify_task" => at < RootsForPool
  /\ pc[Main] \in {"delete", "wake_up", "notify_exit", "join", "gone"} => at \in Workers
  /\ Busy \/ pc[Main] = "idle" => \A w \in Workers : ~m_exiting[w]
  /\ Carries(Main) <=> pc[Main] \in {"run", "after"}

WorkerPlace ==
  \A w \in Workers :
    /\ Carries(w) => pc[w] \in {"check", "run", "after"}
    /\ ~Carries(w) => pc[w] \in {"dequeue", "check", "exited"}
    /\ Busy \/ pc[Main] = "idle" => pc[w] # "exited" /\ (pc[w] = "check" => Carries(w))

\* A thread carries an mtask of its own chain, in this evaluation.
OwnChain ==
  \A th \in Threads :
    Carries(th) =>
      /\ Busy /\ Has(th)
      /\ work[th].even = even_cycle
      /\ thread[work[th].task] = thread[RootOf(th)]

\* An mtask is about to run when the one before it on the chain has.
Progress ==
  \A th \in Threads :
    Carries(th) =>
      IF pc[th] = "after"
      THEN work[th].task \in finished /\ packNext[work[th].task] \notin finished
      ELSE /\ work[th].task \notin finished
           /\ \A u \in Tasks : packNext[u] = work[th].task => u \in finished

ChainClosed == \A u \in Tasks : packNext[u] \in finished => u \in finished

ToSignal ==
  \A th \in Threads :
    IF pc[th] = "after" THEN toSignal[th] \subseteq CrossDownstream(work[th].task)
                        ELSE toSignal[th] = {}

\* What is queued for a worker is its root, which waits to be run.
Queued ==
  \A w \in Workers :
    IF Busy
    THEN m_ready[w] # <<>> =>
           /\ Has(w) /\ ~Carries(w) /\ RootOf(w) \notin finished
           /\ m_ready[w] = <<[task |-> RootOf(w), even |-> even_cycle]>>
    ELSE /\ \A i \in 1 .. Len(m_ready[w]) : m_ready[w][i].task = NoTask
         /\ pc[Main] = "idle" => m_ready[w] = <<>>

\* Roots that Main has not handed out.
ToLaunch(th) ==
  \/ pc[Main] = "launch" /\ (th = Main \/ th >= at)
  \/ pc[Main] = "notify_task" /\ (th = Main \/ th > at)

Pending ==
  \A th \in Threads :
    ToLaunch(th) /\ Has(th) =>
      /\ RootOf(th) \notin finished /\ ~Carries(th)
      /\ th # Main => m_ready[th] = <<>>

PoolInv ==
  /\ ThreadTypes /\ MainPlace /\ WorkerPlace /\ OwnChain /\ Progress /\ ChainClosed /\ ToSignal
  /\ Queued /\ Pending

-----------------------------------------------------------------------------
(* The counters.                                                             *)

\* Who has told t.
Told(t) ==
  IF t = Final
  THEN {u \in LastOfThreads \cap finished : \A th \in Threads : work[th].task # u}
  ELSE {u \in CrossUpstream(t) \cap finished :
          \A th \in Threads : work[th].task = u => t \notin toSignal[th]}

Counted ==
  \A t \in Tasks \cup {Final} :
    IF Busy
    THEN upstreamDepsDone[t] = IF even_cycle THEN Cardinality(Told(t))
                               ELSE upstreamDepCount(t) - Cardinality(Told(t))
    ELSE areUpstreamDepsDone(t, even_cycle)

\* The last evaluation's mtasks are through.
Through ==
  pc[Main] = "process" =>
    /\ finished = Tasks
    /\ \A th \in Threads : ~Carries(th)
    /\ \A w \in Workers : m_ready[w] = <<>>

CounterInv ==
  /\ upstreamDepsDone \in [Tasks \cup {Final} -> Int]
  /\ Counted /\ Through

-----------------------------------------------------------------------------
(* The messages.                                                             *)

AllMessages == Evaluation!AllMessages
Earlier(m, n) == Evaluation!Earlier(m, n)

\* A thread holds the last of its mtask's messages.
Held ==
  /\ t_queue \in [Threads -> Seq(AllMessages)]
  /\ \A th \in Threads :
       IF pc[th] = "after"
       THEN LET t == work[th].task
                n == Len(t_queue[th])
            IN /\ n <= Messages[t]
               /\ \A i \in 1 .. n : t_queue[th][i] = <<t, (Messages[t] - n) + i>>
       ELSE t_queue[th] = <<>>

\* Messages that have left their thread.
Flown ==
  {m \in AllMessages :
     /\ m[1] \in finished
     /\ \A th \in Threads :
          work[th].task = m[1] => m[2] <= Messages[m[1]] - Len(t_queue[th])}

Sorted(q) == \A i, j \in 1 .. Len(q) : i < j => Earlier(q[i], q[j])

Kept ==
  /\ m_queue \in Seq(AllMessages) /\ Sorted(m_queue)
  /\ printed \in Seq(AllMessages)
  /\ Busy => /\ Range(m_queue) \cap Range(printed) = {}
             /\ Range(m_queue) \cup Range(printed) = Flown
             /\ pc[Main] # "process" => printed = <<>>
  /\ ~Busy => m_queue = <<>>

MessageInv == Held /\ Kept

-----------------------------------------------------------------------------
(* Roots by their number.                                                    *)

LEMMA ByRank ==
  ASSUME NEW S \in SUBSET Nat, IsFiniteSet(S), NEW k \in Nat, k < Cardinality(S)
  PROVE  \E r \in S : Cardinality({s \in S : s < r}) = k
<1> DEFINE N == Cardinality(S)
           Below(r) == {s \in S : s < r}
           g == [r \in S |-> Cardinality(Below(r))]
<1>1. N \in Nat
  BY FS_CardinalityType
<1>2. \A r \in S : Below(r) \in SUBSET S /\ IsFiniteSet(Below(r)) /\ g[r] \in Nat
  BY FS_Subset, FS_CardinalityType
<1>3. ASSUME NEW r \in S PROVE g[r] < N
  <2>1. Below(r) \cup {r} \in SUBSET S /\ r \notin Below(r)
    OBVIOUS
  <2>2. Cardinality(Below(r) \cup {r}) <= N /\ Cardinality(Below(r) \cup {r}) = g[r] + 1
    BY <1>2, <2>1, FS_AddElement, FS_Subset
  <2> HIDE DEF N, g, Below
  <2> QED BY <1>1, <1>2, <2>2
<1>4. ASSUME NEW r \in S, NEW q \in S, r < q PROVE g[r] < g[q]
  <2>0. \A s \in S : s < r => s < q
    BY <1>4
  <2>1. Below(r) \cup {r} \in SUBSET Below(q) /\ r \notin Below(r)
    <3>1. r \in Nat /\ q \in Nat /\ ~(r < r)
      OBVIOUS
    <3>2. \A s \in Below(r) \cup {r} : s \in Below(q)
      BY <1>4, <2>0
    <3> QED BY <3>1, <3>2
  <2>2. /\ Cardinality(Below(r) \cup {r}) <= Cardinality(Below(q))
        /\ Cardinality(Below(r) \cup {r}) = Cardinality(Below(r)) + 1
    BY <1>2, <2>1, FS_AddElement, FS_Subset
  <2>3. g[r] = Cardinality(Below(r)) /\ g[q] = Cardinality(Below(q)) /\ g[r] \in Nat /\ g[q] \in Nat
    BY <1>2
  <2> HIDE DEF g, Below
  <2> QED BY <2>2, <2>3
<1>5. g \in [S -> 0 .. N - 1]
  <2>1. \A r \in S : g[r] \in 0 .. N - 1
    <3>1. \A r \in S : g[r] \in Nat /\ g[r] < N
      BY <1>2, <1>3
    <3> HIDE DEF N, g
    <3> QED BY <1>1, <3>1
  <2> QED BY <2>1
<1>6. \A r, q \in S : g[r] = g[q] => r = q
  <2> HIDE DEF g
  <2>1. \A r, q \in S : r < q \/ q < r \/ r = q
    OBVIOUS
  <2>2. \A r \in S : g[r] \in Nat
    BY <1>2
  <2> QED BY <1>4, <2>1, <2>2
<1>7. IsFiniteSet(0 .. N - 1) /\ Cardinality(0 .. N - 1) = N
  <2> HIDE DEF N
  <2>1. 0 \in Int /\ N - 1 \in Int /\ N - 1 - 0 + 1 = N /\ ~(0 > N - 1)
    BY <1>1 DEF N
  <2> QED BY <2>1, FS_Interval
<1>8. \E r \in S : g[r] = k
  <2>1. k \in 0 .. N - 1
    BY <1>1
  <2> HIDE DEF g, N
  <2>2. g \in Injection(S, 0 .. N - 1)
    BY <1>5, <1>6, Fun_IsInj
  <2>3. g \in Surjection(S, 0 .. N - 1)
    BY <1>7, <2>2, FS_Injection DEF N
  <2> QED BY <2>1, <2>3 DEF Surjection
<1> QED BY <1>8

LEMMA RootNumbers ==
  ASSUME ScheduleInv
  PROVE  /\ RootsForPool = Cardinality(threadRoot) - 1
         /\ RootsForPool \in Int /\ RootsForPool <= nThreads - 1
<1>1. /\ IsFiniteSet(threadRoot) /\ Cardinality(threadRoot) \in Nat
      /\ Cardinality(threadRoot) <= nThreads
  BY RootCount DEF ScheduleInv
<1>2. Len(execMTasks) = Cardinality(threadRoot)
  <2> DEFINE N == Cardinality(threadRoot)
             f == [i \in 1 .. N |-> CHOOSE r \in threadRoot : Cardinality(RootsBefore(r)) = i - 1]
  <2>1. f \in [1 .. N -> {f[i] : i \in 1 .. N}] /\ DOMAIN f = 1 .. N
    OBVIOUS
  <2> HIDE DEF f
  <2>2. f \in Seq({f[i] : i \in 1 .. N})
    BY <1>1, <2>1
  <2>3. Len(f) \in Nat /\ DOMAIN f = 1 .. Len(f)
    BY <2>2, LenProperties
  <2>4. Len(f) = N
    BY <1>1, <2>1, <2>3
  <2> QED BY <2>4 DEF f, execMTasks
<1> QED BY <1>1, <1>2, PackAssumption DEF RootsForPool

LEMMA RootFacts ==
  ASSUME ScheduleInv, NEW th \in Threads, Has(th)
  PROVE  /\ RootOf(th) \in threadRoot
         /\ Cardinality(RootsBefore(RootOf(th))) = PlaceOf(th)
         /\ RootOf(th) \in Tasks /\ RootOf(th) # NoTask
         /\ thread[RootOf(th)] \in CpuThreads
<1>1. /\ IsFiniteSet(threadRoot) /\ Cardinality(threadRoot) \in Nat
      /\ threadRoot \in SUBSET Nat /\ threadRoot \in SUBSET Assigned
  BY RootCount, PackAssumption DEF ScheduleInv, Roots, Assigned
<1>2. PlaceOf(th) \in Nat /\ PlaceOf(th) < Cardinality(threadRoot)
  BY <1>1, RootNumbers, ThreadsAssumption, PackAssumption DEF PlaceOf, Has, Threads, Workers
<1>3. \E r \in threadRoot : Cardinality(RootsBefore(r)) = PlaceOf(th)
  BY <1>1, <1>2, ByRank DEF RootsBefore
<1>4. /\ PlaceOf(th) + 1 \in 1 .. Cardinality(threadRoot) /\ (PlaceOf(th) + 1) - 1 = PlaceOf(th)
  BY <1>1, <1>2
<1>5. RootOf(th) = CHOOSE r \in threadRoot : Cardinality(RootsBefore(r)) = PlaceOf(th)
  BY <1>4 DEF RootOf, execMTasks
<1>6. RootOf(th) \in threadRoot /\ Cardinality(RootsBefore(RootOf(th))) = PlaceOf(th)
  BY <1>3, <1>5
<1> QED BY <1>1, <1>6, PackAssumption DEF Assigned, ScheduleInv, PackInv, PackTypes

\* No two threads are handed the same root, nor roots of one thread.
LEMMA RootsDiffer ==
  ASSUME ScheduleInv, NEW v \in Threads, Has(v), NEW w \in Threads, Has(w), v # w
  PROVE  thread[RootOf(v)] # thread[RootOf(w)]
<1>1. PlaceOf(v) # PlaceOf(w)
  BY RootNumbers, ThreadsAssumption DEF PlaceOf, Has, Threads, Workers
<1> QED BY <1>1, RootFacts DEF ScheduleInv, Roots

\* What an emitted program takes from the schedule.
LEMMA SameSchedule ==
  ASSUME UNCHANGED packVars
  PROVE  /\ ScheduleInv => ScheduleInv'
         /\ RootsForPool' = RootsForPool
         /\ \A th \in Threads : RootOf(th)' = RootOf(th) /\ (Has(th)' <=> Has(th))
         /\ \A t : /\ CrossUpstream(t)' = CrossUpstream(t)
                   /\ CrossDownstream(t)' = CrossDownstream(t)
         /\ \A t : upstreamDepCount(t)' = upstreamDepCount(t)
         /\ LastOfThreads' = LastOfThreads
<1>1. /\ graph' = graph /\ thread' = thread /\ packNext' = packNext /\ threadRoot' = threadRoot
      /\ prevMTask' = prevMTask /\ packing' = packing
  BY DEF packVars
<1>2. ScheduleInv => ScheduleInv'
  BY PackInductive, RootsInductive DEF ScheduleInv
<1>3. execMTasks' = execMTasks /\ RootsForPool' = RootsForPool
  BY <1>1 DEF execMTasks, RootsForPool, RootsBefore
<1>4. \A th \in Threads : RootOf(th)' = RootOf(th) /\ (Has(th)' <=> Has(th))
  BY <1>3 DEF RootOf, Has, PlaceOf
<1>5. \A t : /\ CrossUpstream(t)' = CrossUpstream(t)
             /\ CrossDownstream(t)' = CrossDownstream(t)
  BY <1>1 DEF CrossUpstream, CrossDownstream, Upstream, Downstream, OtherThread
<1>6. LastOfThreads' = LastOfThreads
  BY <1>1 DEF LastOfThreads
<1>7. \A t : upstreamDepCount(t)' = upstreamDepCount(t)
  BY <1>5, <1>6 DEF upstreamDepCount
<1> QED BY <1>2, <1>3, <1>4, <1>5, <1>6, <1>7

-----------------------------------------------------------------------------
(* The threads keep to their chains.                                         *)

LEMMA WhoIsWho ==
  /\ Main \in Threads /\ Main \notin Workers /\ Workers \subseteq Nat /\ Workers \subseteq Threads
  /\ \A th \in Threads : th # Main => th \in Workers
BY ThreadsAssumption, PackAssumption DEF Threads, Workers

LEMMA Carried ==
  ASSUME ScheduleInv, PoolInv, NEW th \in Threads, Carries(th)
  PROVE  /\ work[th].task \in Tasks /\ work[th].task # NoTask
         /\ work[th].even = even_cycle /\ Busy /\ Has(th)
         /\ thread[work[th].task] = thread[RootOf(th)]
         /\ thread[work[th].task] \in CpuThreads
         /\ packNext[work[th].task] \in Tasks \cup {NoTask}
         /\ pc[th] \in {"check", "run", "after"}
<1>1. work[th] \in Rec
  BY DEF PoolInv, ThreadTypes
<1>2. work[th].task \in Tasks
  BY <1>1 DEF Rec, Carries
<1>3. Busy /\ Has(th) /\ work[th].even = even_cycle /\ thread[work[th].task] = thread[RootOf(th)]
  BY DEF PoolInv, OwnChain
<1>4. thread[RootOf(th)] \in CpuThreads
  BY <1>3, RootFacts
<1>5. packNext[work[th].task] \in Tasks \cup {NoTask}
  BY <1>2 DEF ScheduleInv, PackInv, PackTypes
<1>6. pc[th] \in {"check", "run", "after"}
  BY WhoIsWho DEF PoolInv, MainPlace, MainPlaces, WorkerPlace
<1> QED BY <1>2, <1>3, <1>4, <1>5, <1>6 DEF Carries

\* Two threads are never at mtasks of one chain.
LEMMA CarriedApart ==
  ASSUME ScheduleInv, PoolInv, NEW v \in Threads, Carries(v), NEW w \in Threads, Carries(w), v # w
  PROVE  thread[work[v].task] # thread[work[w].task]
BY Carried, RootsDiffer

\* The mtask after one on a chain is another, of the same thread.
LEMMA NextOnChain ==
  ASSUME ScheduleInv, NEW t \in Tasks, packNext[t] # NoTask
  PROVE  /\ packNext[t] \in Tasks /\ packNext[t] # t
         /\ thread[packNext[t]] = thread[t]
         /\ \A u \in Tasks : packNext[u] = packNext[t] => u = t
<1>1. packNext[t] \in Tasks
  BY DEF ScheduleInv, PackInv, PackTypes
<1>2. packNext[t] # t
  <2> SUFFICES ASSUME packNext[t] = t PROVE FALSE
    OBVIOUS
  <2>1. <<t, t>> \in graph.edges \cup Chain
    BY DEF Chain
  <2> QED BY <2>1, NoLoop DEF ScheduleInv, PackInv, NoCircularWait
<1> QED BY <1>1, <1>2 DEF ScheduleInv, Links

LEMMA RunBodyPool ==
  ASSUME ScheduleInv, PoolInv, NEW th \in Threads, RunBody(th)
  PROVE  PoolInv'
<1> DEFINE t == work[th].task
<1>1. /\ ThreadTypes /\ MainPlace /\ WorkerPlace /\ OwnChain /\ Progress /\ ChainClosed /\ ToSignal
      /\ Queued /\ Pending
  BY DEF PoolInv
<1>2. /\ UNCHANGED packVars
      /\ work' = work /\ m_ready' = m_ready /\ m_exiting' = m_exiting /\ at' = at
      /\ even_cycle' = even_cycle
      /\ finished' = finished \cup {t}
      /\ \A x \in Threads : pc'[x] = IF x = th THEN "after" ELSE pc[x]
      /\ \A x \in Threads : toSignal'[x] = IF x = th THEN CrossDownstream(t) ELSE toSignal[x]
      /\ pc[th] = "run"
  BY <1>1 DEF RunBody, Goto, poolVars, ThreadTypes
<1>3. packing' = packing /\ packNext' = packNext /\ thread' = thread
  BY <1>2 DEF packVars
<1>4. /\ ScheduleInv' /\ RootsForPool' = RootsForPool
      /\ \A x \in Threads : RootOf(x)' = RootOf(x) /\ (Has(x)' <=> Has(x))
      /\ \A u : CrossDownstream(u)' = CrossDownstream(u)
  BY <1>2, SameSchedule
<1>5. Carries(th)
  BY <1>1, <1>2, WhoIsWho DEF MainPlace, WorkerPlace
<1>6. /\ t \in Tasks /\ t # NoTask /\ Busy /\ Has(th) /\ thread[t] = thread[RootOf(th)]
      /\ thread[t] \in CpuThreads /\ packNext[t] \in Tasks \cup {NoTask}
  BY <1>5, Carried
<1>7. t \notin finished /\ \A u \in Tasks : packNext[u] = t => u \in finished
  BY <1>1, <1>2, <1>5 DEF Progress
<1>8. \A x \in Threads : Carries(x)' <=> Carries(x)
  BY <1>2 DEF Carries
<1>9. Busy' /\ (pc'[Main] = "idle" <=> pc[Main] = "idle")
  BY <1>2, <1>6, WhoIsWho DEF Busy
<1>10. \A x \in Threads : x # th => (Carries(x) => thread[work[x].task] # thread[t])
  BY <1>5, CarriedApart
<1>11. \A x \in Threads : x # th /\ Has(x) => RootOf(x) # t
  BY <1>6, RootsDiffer
<1>12. ThreadTypes'
  <2>1. pc' \in [Threads -> Places]
    BY <1>1 DEF RunBody, Goto, ThreadTypes, Places, MainPlaces
  <2>2. CrossDownstream(t) \in SUBSET Tasks
    BY DEF CrossDownstream, Downstream
  <2>3. toSignal' \in [Threads -> SUBSET Tasks]
    BY <1>1, <2>2 DEF RunBody, ThreadTypes
  <2> QED BY <1>1, <1>2, <1>3, <1>6, <2>1, <2>3 DEF ThreadTypes, Rec
<1>13. MainPlace'
  BY <1>1, <1>2, <1>3, <1>4, <1>6, <1>8, <1>9, WhoIsWho DEF MainPlace, MainPlaces, Busy
<1>14. WorkerPlace'
  BY <1>1, <1>2, <1>5, <1>6, <1>8, <1>9, WhoIsWho DEF WorkerPlace
<1>15. OwnChain'
  BY <1>1, <1>2, <1>3, <1>4, <1>8, <1>9 DEF OwnChain
<1>16. Progress'
  <2> SUFFICES ASSUME NEW x \in Threads, Carries(x)
               PROVE  IF pc'[x] = "after"
                      THEN work[x].task \in finished' /\ packNext[work[x].task] \notin finished'
                      ELSE /\ work[x].task \notin finished'
                           /\ \A u \in Tasks : packNext[u] = work[x].task => u \in finished'
    BY <1>2, <1>3, <1>8 DEF Progress
  <2>1. CASE x = th
    <3>1. packNext[t] \notin finished
      BY <1>1, <1>6, <1>7 DEF ChainClosed
    <3>2. packNext[t] # t
      BY <1>6, NextOnChain
    <3> QED BY <1>2, <2>1, <3>1, <3>2
  <2>2. CASE x # th
    <3>1. thread[work[x].task] # thread[t] /\ work[x].task \in Tasks
      BY <1>10, <2>2, Carried
    <3>2. packNext[work[x].task] # t
      BY <1>6, <3>1, NextOnChain
    <3> QED BY <1>1, <1>2, <2>2, <3>1, <3>2 DEF Progress
  <2> QED BY <2>1, <2>2
<1>17. ChainClosed'
  BY <1>1, <1>2, <1>3, <1>7 DEF ChainClosed
<1>18. ToSignal'
  BY <1>1, <1>2, <1>4, <1>5, Carried DEF ToSignal
<1>19. Queued'
  BY <1>1, <1>2, <1>4, <1>5, <1>6, <1>8, <1>9, <1>11, WhoIsWho DEF Queued
<1>20. Pending'
  <2>1. \A x \in Threads : ToLaunch(x)' => ToLaunch(x)
    BY <1>2, WhoIsWho DEF ToLaunch
  <2> QED BY <1>1, <1>2, <1>4, <1>5, <1>8, <1>11, <2>1 DEF Pending
<1> QED
  BY <1>12, <1>13, <1>14, <1>15, <1>16, <1>17, <1>18, <1>19, <1>20 DEF PoolInv

LEMMA PoolSame ==
  ASSUME ScheduleInv, PoolInv,
         UNCHANGED <<packVars, even_cycle, pc, work, toSignal, m_ready, m_exiting, at, finished>>
  PROVE  PoolInv'
<1>1. /\ UNCHANGED packVars
      /\ work' = work /\ m_ready' = m_ready /\ m_exiting' = m_exiting /\ at' = at
      /\ even_cycle' = even_cycle /\ finished' = finished /\ toSignal' = toSignal /\ pc' = pc
  OBVIOUS
<1>2. packing' = packing /\ packNext' = packNext /\ thread' = thread
  BY <1>1 DEF packVars
<1>3. /\ RootsForPool' = RootsForPool
      /\ \A x \in Threads : RootOf(x)' = RootOf(x) /\ (Has(x)' <=> Has(x))
      /\ \A u : CrossDownstream(u)' = CrossDownstream(u)
  BY <1>1, SameSchedule
<1>4. (Busy' <=> Busy) /\ \A x : (Carries(x)' <=> Carries(x)) /\ (ToLaunch(x)' <=> ToLaunch(x))
  BY <1>1 DEF Busy, Carries, ToLaunch
<1>5. ThreadTypes' /\ MainPlace'
  BY <1>1, <1>2, <1>3, <1>4 DEF PoolInv, ThreadTypes, MainPlace
<1>6. WorkerPlace' /\ OwnChain'
  BY <1>1, <1>2, <1>3, <1>4 DEF PoolInv, WorkerPlace, OwnChain
<1>7. Progress' /\ ChainClosed' /\ ToSignal'
  BY <1>1, <1>2, <1>3, <1>4 DEF PoolInv, Progress, ChainClosed, ToSignal
<1>8. Queued' /\ Pending'
  BY <1>1, <1>2, <1>3, <1>4, WhoIsWho DEF PoolInv, Queued, Pending
<1> QED BY <1>5, <1>6, <1>7, <1>8 DEF PoolInv

LEMMA SignalPool ==
  ASSUME ScheduleInv, PoolInv, NEW th \in Threads, NEW t \in Tasks, Signal(th, t)
  PROVE  PoolInv'
<1>1. /\ ThreadTypes /\ MainPlace /\ WorkerPlace /\ OwnChain /\ Progress /\ ChainClosed /\ ToSignal
      /\ Queued /\ Pending
  BY DEF PoolInv
<1>2. /\ UNCHANGED packVars
      /\ work' = work /\ m_ready' = m_ready /\ m_exiting' = m_exiting /\ at' = at
      /\ even_cycle' = even_cycle /\ finished' = finished /\ pc' = pc
      /\ toSignal' \in [Threads -> SUBSET Tasks]
      /\ \A x \in Threads : toSignal'[x] \subseteq toSignal[x]
  BY <1>1 DEF Signal, poolVars, ThreadTypes
<1>3. packing' = packing /\ packNext' = packNext /\ thread' = thread
  BY <1>2 DEF packVars
<1>4. /\ RootsForPool' = RootsForPool
      /\ \A x \in Threads : RootOf(x)' = RootOf(x) /\ (Has(x)' <=> Has(x))
      /\ \A u : CrossDownstream(u)' = CrossDownstream(u)
  BY <1>2, SameSchedule
<1>5. (Busy' <=> Busy) /\ \A x : (Carries(x)' <=> Carries(x)) /\ (ToLaunch(x)' <=> ToLaunch(x))
  BY <1>2 DEF Busy, Carries, ToLaunch
<1>6. ThreadTypes' /\ MainPlace'
  BY <1>1, <1>2, <1>3, <1>4, <1>5 DEF ThreadTypes, MainPlace
<1>7. WorkerPlace' /\ OwnChain'
  BY <1>1, <1>2, <1>3, <1>4, <1>5 DEF WorkerPlace, OwnChain
<1>8. Progress' /\ ChainClosed'
  BY <1>1, <1>2, <1>3, <1>5 DEF Progress, ChainClosed
<1>9. ToSignal'
  <2> SUFFICES ASSUME NEW x \in Threads
               PROVE  IF pc[x] = "after" THEN toSignal'[x] \subseteq CrossDownstream(work[x].task)
                                         ELSE toSignal'[x] = {}
    BY <1>2, <1>4 DEF ToSignal
  <2> QED BY <1>1, <1>2 DEF ToSignal
<1>10. Queued' /\ Pending'
  BY <1>1, <1>2, <1>3, <1>4, <1>5, WhoIsWho DEF Queued, Pending
<1> QED BY <1>6, <1>7, <1>8, <1>9, <1>10 DEF PoolInv

LEMMA RunNextPool ==
  ASSUME ScheduleInv, PoolInv, NEW th \in Threads, RunNext(th)
  PROVE  PoolInv'
<1> DEFINE t == work[th].task
           n == packNext[t]
<1>1. /\ ThreadTypes /\ MainPlace /\ WorkerPlace /\ OwnChain /\ Progress /\ ChainClosed /\ ToSignal
      /\ Queued /\ Pending
  BY DEF PoolInv
<1>2. /\ UNCHANGED packVars
      /\ m_ready' = m_ready /\ m_exiting' = m_exiting /\ at' = at
      /\ even_cycle' = even_cycle /\ finished' = finished /\ toSignal' = toSignal
      /\ \A x \in Threads : pc'[x] = IF x = th THEN "run" ELSE pc[x]
      /\ pc' \in [Threads -> Places]
      /\ \A x \in Threads :
           work'[x] = IF x = th THEN [task |-> n, even |-> work[th].even] ELSE work[x]
      /\ pc[th] = "after" /\ toSignal[th] = {} /\ n # NoTask
  BY <1>1 DEF RunNext, Goto, poolVars, taskVars, ThreadTypes, Places, MainPlaces
<1>3. packing' = packing /\ packNext' = packNext /\ thread' = thread
  BY <1>2 DEF packVars
<1>4. /\ RootsForPool' = RootsForPool
      /\ \A x \in Threads : RootOf(x)' = RootOf(x) /\ (Has(x)' <=> Has(x))
      /\ \A u : CrossDownstream(u)' = CrossDownstream(u)
  BY <1>2, SameSchedule
<1>5. Carries(th)
  BY <1>1, <1>2, WhoIsWho DEF MainPlace, WorkerPlace
<1>6. /\ t \in Tasks /\ t # NoTask /\ Busy /\ Has(th) /\ work[th].even = even_cycle
      /\ thread[t] = thread[RootOf(th)]
  BY <1>5, Carried
<1>7. n \in Tasks /\ n # t /\ thread[n] = thread[t] /\ \A u \in Tasks : packNext[u] = n => u = t
  BY <1>2, <1>6, NextOnChain
<1>8. t \in finished /\ n \notin finished
  BY <1>1, <1>2, <1>5 DEF Progress
<1>9. \A x \in Threads : Carries(x)' <=> Carries(x)
  BY <1>2, <1>5 DEF Carries
<1>10. Busy' /\ (pc'[Main] = "idle" <=> pc[Main] = "idle")
  BY <1>2, <1>6, WhoIsWho DEF Busy
<1>11. ThreadTypes'
  <2>1. work' \in [Threads -> Rec]
    <3>1. [task |-> n, even |-> work[th].even] \in Rec
      BY <1>1, <1>6, <1>7 DEF ThreadTypes, Rec
    <3>2. work' = [work EXCEPT ![th] = [task |-> n, even |-> work[th].even]]
      BY DEF RunNext
    <3> HIDE DEF n
    <3> QED BY <1>1, <3>1, <3>2 DEF ThreadTypes
  <2> QED BY <1>1, <1>2, <2>1 DEF ThreadTypes
<1>12. MainPlace'
  BY <1>1, <1>2, <1>3, <1>4, <1>6, <1>9, <1>10, WhoIsWho DEF MainPlace, MainPlaces, Busy
<1>13. WorkerPlace'
  BY <1>1, <1>2, <1>5, <1>6, <1>9, <1>10, WhoIsWho DEF WorkerPlace
<1>14. OwnChain'
  <2> SUFFICES ASSUME NEW x \in Threads, Carries(x)
               PROVE  /\ Has(x) /\ work'[x].even = even_cycle
                      /\ thread[work'[x].task] = thread[RootOf(x)]
    BY <1>2, <1>3, <1>4, <1>9, <1>10 DEF OwnChain
  <2>1. CASE x = th
    BY <1>2, <1>6, <1>7, <2>1
  <2>2. CASE x # th
    BY <1>1, <1>2, <2>2 DEF OwnChain
  <2> QED BY <2>1, <2>2
<1>15. Progress'
  <2> SUFFICES ASSUME NEW x \in Threads, Carries(x)
               PROVE  IF pc'[x] = "after"
                      THEN work'[x].task \in finished /\ packNext[work'[x].task] \notin finished
                      ELSE /\ work'[x].task \notin finished
                           /\ \A u \in Tasks : packNext[u] = work'[x].task => u \in finished
    BY <1>2, <1>3, <1>9 DEF Progress
  <2>1. CASE x = th
    BY <1>2, <1>7, <1>8, <2>1
  <2>2. CASE x # th
    BY <1>1, <1>2, <2>2 DEF Progress
  <2> QED BY <2>1, <2>2
<1>16. ChainClosed'
  BY <1>1, <1>2, <1>3 DEF ChainClosed
<1>17. ToSignal'
  BY <1>1, <1>2, <1>4 DEF ToSignal
<1>18. Queued'
  BY <1>1, <1>2, <1>4, <1>6, <1>9, <1>10, WhoIsWho DEF Queued
<1>19. Pending'
  <2>1. \A x \in Threads : ToLaunch(x)' => ToLaunch(x)
    BY <1>2, WhoIsWho DEF ToLaunch
  <2> QED BY <1>1, <1>2, <1>4, <1>9, <2>1 DEF Pending
<1> QED
  BY <1>11, <1>12, <1>13, <1>14, <1>15, <1>16, <1>17, <1>18, <1>19 DEF PoolInv

LEMMA SignalFinalPool ==
  ASSUME ScheduleInv, PoolInv, NEW th \in Threads, SignalFinal(th)
  PROVE  PoolInv'
<1>1. /\ ThreadTypes /\ MainPlace /\ WorkerPlace /\ OwnChain /\ Progress /\ ChainClosed /\ ToSignal
      /\ Queued /\ Pending
  BY DEF PoolInv
<1>2. /\ UNCHANGED packVars
      /\ m_ready' = m_ready /\ m_exiting' = m_exiting /\ at' = at
      /\ even_cycle' = even_cycle /\ finished' = finished /\ toSignal' = toSignal
      /\ \A x \in Threads :
           pc'[x] = IF x = th THEN (IF th = Main THEN "await" ELSE "dequeue") ELSE pc[x]
      /\ pc' \in [Threads -> Places]
      /\ \A x \in Threads : work'[x] = IF x = th THEN NoWork ELSE work[x]
      /\ work' \in [Threads -> Rec]
      /\ pc[th] = "after" /\ toSignal[th] = {}
  BY <1>1 DEF SignalFinal, Goto, poolVars, taskVars, ThreadTypes, Places, MainPlaces, NoWork, Rec
<1>3. packing' = packing /\ packNext' = packNext /\ thread' = thread
  BY <1>2 DEF packVars
<1>4. /\ RootsForPool' = RootsForPool
      /\ \A x \in Threads : RootOf(x)' = RootOf(x) /\ (Has(x)' <=> Has(x))
      /\ \A u : CrossDownstream(u)' = CrossDownstream(u)
  BY <1>2, SameSchedule
<1>5. Carries(th) /\ Busy
  BY <1>1, <1>2, WhoIsWho DEF MainPlace, WorkerPlace, OwnChain
<1>6. \A x \in Threads : Carries(x)' <=> Carries(x) /\ x # th
  BY <1>2 DEF Carries, NoWork
<1>7. Busy' /\ (pc'[Main] = "idle" <=> pc[Main] = "idle")
  BY <1>2, <1>5, WhoIsWho DEF Busy
<1>8. ThreadTypes'
  BY <1>1, <1>2 DEF ThreadTypes
<1>9. MainPlace'
  BY <1>1, <1>2, <1>3, <1>4, <1>5, <1>6, <1>7, WhoIsWho DEF MainPlace, MainPlaces, Busy
<1>10. WorkerPlace'
  BY <1>1, <1>2, <1>5, <1>6, <1>7, WhoIsWho DEF WorkerPlace
<1>11. OwnChain'
  BY <1>1, <1>2, <1>3, <1>4, <1>6, <1>7 DEF OwnChain
<1>12. Progress' /\ ChainClosed'
  BY <1>1, <1>2, <1>3, <1>6 DEF Progress, ChainClosed
<1>13. ToSignal'
  BY <1>1, <1>2, <1>4 DEF ToSignal
<1>14. Queued'
  BY <1>1, <1>2, <1>4, <1>5, <1>6, <1>7, WhoIsWho DEF Queued
<1>15. Pending'
  <2>1. \A x \in Threads : ToLaunch(x)' => ToLaunch(x)
    BY <1>2, WhoIsWho DEF ToLaunch
  <2> QED BY <1>1, <1>2, <1>4, <1>6, <2>1 DEF Pending
<1> QED BY <1>8, <1>9, <1>10, <1>11, <1>12, <1>13, <1>14, <1>15 DEF PoolInv

LEMMA DequeuePool ==
  ASSUME ScheduleInv, PoolInv, NEW w \in Workers, Dequeue(w)
  PROVE  PoolInv'
<1>1. /\ ThreadTypes /\ MainPlace /\ WorkerPlace /\ OwnChain /\ Progress /\ ChainClosed /\ ToSignal
      /\ Queued /\ Pending
  BY DEF PoolInv
<1>2. CASE m_ready[w] = <<>>
  BY <1>2, PoolSame DEF Dequeue, taskVars
<1>3. CASE m_ready[w] # <<>>
  <2> DEFINE rec == Head(m_ready[w])
  <2>1. /\ UNCHANGED packVars
        /\ m_exiting' = m_exiting /\ at' = at
        /\ even_cycle' = even_cycle /\ finished' = finished /\ toSignal' = toSignal
        /\ pc' = [pc EXCEPT ![w] = "check"]
        /\ work' = [work EXCEPT ![w] = rec]
        /\ m_ready' = [m_ready EXCEPT ![w] = Tail(m_ready[w])]
        /\ pc[w] = "dequeue"
    BY <1>1, <1>3 DEF Dequeue, Goto, taskVars, ThreadTypes
  <2>2. /\ m_ready[w] \in Seq(Rec) /\ rec \in Rec /\ Tail(m_ready[w]) \in Seq(Rec)
        /\ Len(Tail(m_ready[w])) = Len(m_ready[w]) - 1 /\ Len(m_ready[w]) \in Nat \ {0}
        /\ rec = m_ready[w][1]
        /\ \A i \in 1 .. Len(m_ready[w]) - 1 : Tail(m_ready[w])[i] = m_ready[w][i + 1]
    <3>1. m_ready[w] \in Seq(Rec)
      BY <1>1 DEF ThreadTypes
    <3> QED BY <1>3, <3>1, HeadTailProperties, EmptySeq
  <2>3. /\ \A x \in Threads : pc'[x] = IF x = w THEN "check" ELSE pc[x]
        /\ \A x \in Threads : work'[x] = IF x = w THEN rec ELSE work[x]
        /\ \A x \in Workers : m_ready'[x] = IF x = w THEN Tail(m_ready[w]) ELSE m_ready[x]
    <3> HIDE DEF rec
    <3> QED BY <1>1, <2>1 DEF ThreadTypes
  <2>4. packing' = packing /\ packNext' = packNext /\ thread' = thread
    BY <2>1 DEF packVars
  <2>5. /\ RootsForPool' = RootsForPool
        /\ \A x \in Threads : RootOf(x)' = RootOf(x) /\ (Has(x)' <=> Has(x))
        /\ \A u : CrossDownstream(u)' = CrossDownstream(u)
    BY <2>1, SameSchedule
  <2>6. ~Carries(w)
    BY <1>1, <2>1 DEF WorkerPlace
  <2>7. /\ Busy => /\ Has(w) /\ RootOf(w) \notin finished /\ rec.task = RootOf(w)
                   /\ rec.even = even_cycle /\ Len(m_ready[w]) = 1
                   /\ RootOf(w) \in threadRoot /\ RootOf(w) # NoTask
        /\ ~Busy => rec.task = NoTask /\ pc[Main] # "idle"
    <3>1. CASE Busy
      <4>1. /\ Has(w) /\ RootOf(w) \notin finished
            /\ m_ready[w] = <<[task |-> RootOf(w), even |-> even_cycle]>>
        BY <1>1, <1>3, <3>1 DEF Queued
      <4> QED BY <3>1, <4>1, RootFacts, WhoIsWho
    <3>2. CASE ~Busy
      <4>1. 1 \in 1 .. Len(m_ready[w])
        BY <2>2
      <4>2. m_ready[w][1].task = NoTask /\ pc[Main] # "idle"
        BY <1>1, <1>3, <3>2, <4>1 DEF Queued
      <4> QED BY <2>2, <3>2, <4>2
    <3> QED BY <3>1, <3>2
  <2>8. \A u \in Tasks : packNext[u] \notin threadRoot
    BY DEF ScheduleInv, Roots
  <2> HIDE DEF rec
  <2>9. pc'[Main] = pc[Main] /\ (Busy' <=> Busy)
    BY <2>3, WhoIsWho DEF Busy
  <2>10. \A x \in Threads : Carries(x)' <=> Carries(x) \/ (x = w /\ Busy)
    BY <2>3, <2>6, <2>7 DEF Carries
  <2>11. ThreadTypes'
    <3>1. pc' \in [Threads -> Places] /\ work' \in [Threads -> Rec] /\ m_ready' \in [Workers -> Seq(Rec)]
      BY <1>1, <2>1, <2>2 DEF ThreadTypes, Places
    <3> QED BY <1>1, <2>1, <3>1 DEF ThreadTypes
  <2>12. MainPlace'
    BY <1>1, <2>1, <2>4, <2>5, <2>9, <2>10, WhoIsWho DEF MainPlace
  <2>13. WorkerPlace'
    BY <1>1, <2>3, <2>6, <2>7, <2>9, <2>10, WhoIsWho DEF WorkerPlace
  <2>14. OwnChain'
    <3> SUFFICES ASSUME NEW x \in Threads, Carries(x)'
                 PROVE  /\ Busy /\ Has(x) /\ work'[x].even = even_cycle
                        /\ thread[work'[x].task] = thread[RootOf(x)]
      BY <2>1, <2>4, <2>5, <2>9 DEF OwnChain
    <3>1. CASE x = w
      BY <2>3, <2>6, <2>7, <2>10, <3>1
    <3>2. CASE x # w
      BY <1>1, <2>3, <2>10, <3>2 DEF OwnChain
    <3> QED BY <3>1, <3>2
  <2>15. Progress'
    <3> SUFFICES ASSUME NEW x \in Threads, Carries(x)'
                 PROVE  IF pc'[x] = "after"
                        THEN work'[x].task \in finished /\ packNext[work'[x].task] \notin finished
                        ELSE /\ work'[x].task \notin finished
                             /\ \A u \in Tasks : packNext[u] = work'[x].task => u \in finished
      BY <2>1, <2>4 DEF Progress
    <3>1. CASE x = w
      BY <2>3, <2>6, <2>7, <2>8, <2>10, <3>1
    <3>2. CASE x # w
      BY <1>1, <2>3, <2>10, <3>2 DEF Progress
    <3> QED BY <3>1, <3>2
  <2>16. ChainClosed'
    BY <1>1, <2>1, <2>4 DEF ChainClosed
  <2>17. ToSignal'
    BY <1>1, <2>1, <2>3, <2>5 DEF ToSignal
  <2>18. Queued'
    <3> SUFFICES ASSUME NEW x \in Workers
                 PROVE  IF Busy
                        THEN m_ready'[x] # <<>> =>
                               /\ Has(x) /\ ~Carries(x)' /\ RootOf(x) \notin finished
                               /\ m_ready'[x] = <<[task |-> RootOf(x), even |-> even_cycle]>>
                        ELSE /\ \A i \in 1 .. Len(m_ready'[x]) : m_ready'[x][i].task = NoTask
                             /\ pc[Main] = "idle" => m_ready'[x] = <<>>
      BY <2>1, <2>5, <2>9, WhoIsWho DEF Queued
    <3>1. CASE x # w
      BY <1>1, <2>3, <2>10, <3>1, WhoIsWho DEF Queued
    <3>2. CASE x = w /\ Busy
      <4>1. m_ready'[x] \in Seq(Rec) /\ Len(m_ready'[x]) = 0
        <5>1. m_ready'[x] = Tail(m_ready[w])
          BY <2>3, <3>2
        <5>2. Len(m_ready[w]) = 1
          BY <2>7, <3>2
        <5> QED BY <2>2, <5>1, <5>2
      <4>2. m_ready'[x] = <<>>
        BY <4>1, EmptySeq
      <4> QED BY <3>2, <4>2
    <3>3. CASE x = w /\ ~Busy
      <4>1. \A i \in 1 .. Len(m_ready[w]) : m_ready[w][i].task = NoTask
        BY <1>1, <3>3 DEF Queued
      <4>2. \A i \in 1 .. Len(m_ready'[w]) : m_ready'[w][i].task = NoTask
        <5> SUFFICES ASSUME NEW i \in 1 .. Len(m_ready[w]) - 1
                     PROVE  Tail(m_ready[w])[i].task = NoTask
          BY <2>2, <2>3
        <5>1. i + 1 \in 1 .. Len(m_ready[w])
          BY <2>2
        <5> QED BY <2>2, <4>1, <5>1
      <4> QED BY <2>7, <3>3, <4>2
    <3> QED BY <3>1, <3>2, <3>3
  <2>19. Pending'
    <3>1. \A x \in Threads : ToLaunch(x)' => ToLaunch(x)
      BY <2>1, <2>9, WhoIsWho DEF ToLaunch
    <3>2. ToLaunch(w) /\ Has(w) => FALSE
      BY <1>1, <1>3, WhoIsWho DEF Pending
    <3> QED BY <1>1, <2>1, <2>3, <2>5, <2>10, <3>1, <3>2, WhoIsWho DEF Pending
  <2> QED
    BY <2>11, <2>12, <2>13, <2>14, <2>15, <2>16, <2>17, <2>18, <2>19 DEF PoolInv
<1> QED BY <1>2, <1>3

LEMMA CheckPool ==
  ASSUME ScheduleInv, PoolInv, NEW w \in Workers, Check(w)
  PROVE  PoolInv'
<1>1. /\ ThreadTypes /\ MainPlace /\ WorkerPlace /\ OwnChain /\ Progress /\ ChainClosed /\ ToSignal
      /\ Queued /\ Pending
  BY DEF PoolInv
<1>2. /\ UNCHANGED packVars
      /\ m_ready' = m_ready /\ m_exiting' = m_exiting /\ at' = at /\ work' = work
      /\ even_cycle' = even_cycle /\ finished' = finished /\ toSignal' = toSignal
      /\ pc' \in [Threads -> Places]
      /\ \A x \in Threads : x # w => pc'[x] = pc[x]
      /\ pc'[w] = IF m_exiting[w] THEN "exited" ELSE IF Carries(w) THEN "run" ELSE "dequeue"
      /\ pc[w] = "check"
  BY <1>1, WhoIsWho DEF Check, Goto, poolVars, taskVars, ThreadTypes, Places, MainPlaces, Carries
<1>3. packing' = packing /\ packNext' = packNext /\ thread' = thread
  BY <1>2 DEF packVars
<1>4. /\ RootsForPool' = RootsForPool
      /\ \A x \in Threads : RootOf(x)' = RootOf(x) /\ (Has(x)' <=> Has(x))
      /\ \A u : CrossDownstream(u)' = CrossDownstream(u)
  BY <1>2, SameSchedule
<1>5. \A x : Carries(x)' <=> Carries(x)
  BY <1>2 DEF Carries
<1>6. (Busy' <=> Busy) /\ pc'[Main] = pc[Main]
  BY <1>2, WhoIsWho DEF Busy
<1>7. /\ Busy \/ pc[Main] = "idle" => ~m_exiting[w] /\ Carries(w)
      /\ Carries(w) => Busy
  BY <1>1, <1>2, WhoIsWho DEF MainPlace, WorkerPlace, OwnChain
<1>8. ThreadTypes'
  BY <1>1, <1>2 DEF ThreadTypes
<1>9. MainPlace'
  BY <1>1, <1>2, <1>3, <1>4, <1>5, <1>6, WhoIsWho DEF MainPlace
<1>10. WorkerPlace'
  BY <1>1, <1>2, <1>5, <1>6, <1>7, WhoIsWho DEF WorkerPlace
<1>11. OwnChain'
  BY <1>1, <1>2, <1>3, <1>4, <1>5, <1>6 DEF OwnChain
<1>12. Progress' /\ ChainClosed'
  BY <1>1, <1>2, <1>3, <1>5 DEF Progress, ChainClosed
<1>13. ToSignal'
  BY <1>1, <1>2, <1>4 DEF ToSignal
<1>14. Queued'
  BY <1>1, <1>2, <1>4, <1>5, <1>6, WhoIsWho DEF Queued
<1>15. Pending'
  <2>1. \A x \in Threads : ToLaunch(x)' => ToLaunch(x)
    BY <1>2, <1>6, WhoIsWho DEF ToLaunch
  <2> QED BY <1>1, <1>2, <1>4, <1>5, <2>1 DEF Pending
<1> QED BY <1>8, <1>9, <1>10, <1>11, <1>12, <1>13, <1>14, <1>15 DEF PoolInv

\* The steps of Main that only move it, give it a root, or hand one out.
LEMMA MainMoves ==
  ASSUME ScheduleInv, PoolInv, UNCHANGED <<packVars, toSignal>>,
         NEW place \in MainPlaces, pc' = [pc EXCEPT ![Main] = place]
  PROVE  /\ packing' = packing /\ packNext' = packNext /\ thread' = thread /\ toSignal' = toSignal
         /\ pc' \in [Threads -> Places] /\ pc'[Main] = place
         /\ \A w \in Workers : pc'[w] = pc[w]
         /\ RootsForPool' = RootsForPool
         /\ \A x \in Threads : RootOf(x)' = RootOf(x) /\ (Has(x)' <=> Has(x))
<1>1. pc \in [Threads -> Places]
  BY DEF PoolInv, ThreadTypes
<1>2. /\ pc' \in [Threads -> Places] /\ pc'[Main] = place
      /\ \A x \in Threads : x # Main => pc'[x] = pc[x]
  BY <1>1, WhoIsWho DEF Places
<1>3. packing' = packing /\ packNext' = packNext /\ thread' = thread /\ toSignal' = toSignal
  BY DEF packVars
<1>4. /\ RootsForPool' = RootsForPool
      /\ \A x \in Threads : RootOf(x)' = RootOf(x) /\ (Has(x)' <=> Has(x))
      /\ \A u : CrossDownstream(u)' = CrossDownstream(u)
  BY SameSchedule
<1> QED BY <1>2, <1>3, <1>4, WhoIsWho

LEMMA NotifyPool ==
  ASSUME ScheduleInv, PoolInv, Notify
  PROVE  PoolInv'
<1>1. /\ ThreadTypes /\ MainPlace /\ WorkerPlace /\ OwnChain /\ Progress /\ ChainClosed /\ ToSignal
      /\ Queued /\ Pending
  BY DEF PoolInv
<1>2. /\ UNCHANGED <<packVars, toSignal>>
      /\ m_ready' = m_ready /\ m_exiting' = m_exiting /\ work' = work
      /\ even_cycle' = even_cycle /\ finished' = finished
  BY DEF Notify, taskVars
<1>3. \/ /\ pc[Main] = "notify_task" /\ pc' = [pc EXCEPT ![Main] = "launch"] /\ at' = at + 1
      \/ /\ pc[Main] = "notify_exit" /\ pc' = [pc EXCEPT ![Main] = "join"] /\ at' = at
  BY DEF Notify, Goto
<1>4. /\ packing' = packing /\ packNext' = packNext /\ thread' = thread /\ toSignal' = toSignal
      /\ pc' \in [Threads -> Places]
      /\ \A w \in Workers : pc'[w] = pc[w]
      /\ pc'[Main] = IF pc[Main] = "notify_task" THEN "launch" ELSE "join"
      /\ RootsForPool' = RootsForPool
      /\ \A x \in Threads : RootOf(x)' = RootOf(x) /\ (Has(x)' <=> Has(x))
  BY <1>2, <1>3, MainMoves DEF MainPlaces
<1>5. (Busy' <=> Busy) /\ \A x : Carries(x)' <=> Carries(x)
  BY <1>2, <1>3, <1>4 DEF Busy, Carries
<1>6. pc[Main] = "notify_task" => Busy /\ at + 1 \in 0 .. nThreads - 1
  BY <1>1, RootNumbers, PackAssumption DEF MainPlace, ThreadTypes, Busy
<1>7. ThreadTypes'
  BY <1>1, <1>2, <1>3, <1>4, <1>6 DEF ThreadTypes
<1>8. MainPlace'
  BY <1>1, <1>2, <1>3, <1>4, <1>5, <1>6 DEF MainPlace, MainPlaces
<1>9. WorkerPlace'
  BY <1>1, <1>2, <1>3, <1>4, <1>5 DEF WorkerPlace
<1>10. OwnChain'
  BY <1>1, <1>2, <1>4, <1>5 DEF OwnChain
<1>11. Progress' /\ ChainClosed'
  BY <1>1, <1>2, <1>3, <1>4, <1>5, WhoIsWho DEF Progress, ChainClosed
<1>12. ToSignal'
  BY <1>1, <1>2, <1>3, <1>4, SameSchedule, WhoIsWho DEF ToSignal
<1>13. Queued'
  BY <1>1, <1>2, <1>3, <1>4, <1>5, WhoIsWho DEF Queued
<1>14. Pending'
  <2>1. ASSUME NEW x \in Threads, ToLaunch(x)' PROVE ToLaunch(x)
    <3>1. pc[Main] = "notify_task" /\ (x = Main \/ x >= at + 1)
      BY <1>3, <1>4, <2>1 DEF ToLaunch
    <3>2. x # Main => x \in Nat
      BY WhoIsWho
    <3>3. at \in Nat
      BY <1>1, PackAssumption DEF ThreadTypes
    <3> QED BY <3>1, <3>2, <3>3 DEF ToLaunch
  <2> QED BY <1>1, <1>2, <1>4, <1>5, <2>1 DEF Pending
<1> QED BY <1>7, <1>8, <1>9, <1>10, <1>11, <1>12, <1>13, <1>14 DEF PoolInv

LEMMA LaunchPool ==
  ASSUME ScheduleInv, PoolInv, LaunchOnWorker
  PROVE  PoolInv'
<1> DEFINE rec == [task |-> execMTasks[at + 1], even |-> even_cycle]
<1>1. /\ ThreadTypes /\ MainPlace /\ WorkerPlace /\ OwnChain /\ Progress /\ ChainClosed /\ ToSignal
      /\ Queued /\ Pending
  BY DEF PoolInv
<1>2. /\ UNCHANGED <<packVars, toSignal>>
      /\ m_ready' = [m_ready EXCEPT ![at] = Append(m_ready[at], rec)]
      /\ m_exiting' = m_exiting /\ work' = work
      /\ even_cycle' = even_cycle /\ finished' = finished /\ at' = at
      /\ pc[Main] = "launch" /\ pc' = [pc EXCEPT ![Main] = "notify_task"] /\ at < RootsForPool
  BY DEF LaunchOnWorker, AddTask, Goto, taskVars
<1>3. /\ packing' = packing /\ packNext' = packNext /\ thread' = thread /\ toSignal' = toSignal
      /\ pc' \in [Threads -> Places] /\ pc'[Main] = "notify_task"
      /\ \A w \in Workers : pc'[w] = pc[w]
      /\ RootsForPool' = RootsForPool
      /\ \A x \in Threads : RootOf(x)' = RootOf(x) /\ (Has(x)' <=> Has(x))
  BY <1>2, MainMoves DEF MainPlaces
<1>4. Busy /\ Busy' /\ \A x : Carries(x)' <=> Carries(x)
  BY <1>2, <1>3 DEF Busy, Carries
<1>5. at \in Workers /\ at \in Threads /\ at # Main /\ at \in Nat
  BY <1>1, <1>2, RootNumbers, PackAssumption, ThreadsAssumption, WhoIsWho DEF ThreadTypes, Workers
<1>6. Has(at) /\ RootOf(at) = execMTasks[at + 1] /\ ToLaunch(at)
  BY <1>2, <1>5 DEF Has, RootOf, PlaceOf, ToLaunch
<1>7. m_ready[at] = <<>> /\ ~Carries(at) /\ RootOf(at) \notin finished
  BY <1>1, <1>5, <1>6 DEF Pending
<1>8. rec \in Rec
  BY <1>1, <1>5, <1>6, RootFacts DEF Rec, ThreadTypes
<1>9. m_ready' = [m_ready EXCEPT ![at] = <<rec>>]
  BY <1>2, <1>7
<1>10. \A w \in Workers : m_ready'[w] = IF w = at THEN <<rec>> ELSE m_ready[w]
  <2> HIDE DEF rec
  <2> QED BY <1>1, <1>9 DEF ThreadTypes
<1>11. ThreadTypes'
  <2>1. m_ready' \in [Workers -> Seq(Rec)]
    <3> HIDE DEF rec
    <3> QED BY <1>1, <1>5, <1>8, <1>9 DEF ThreadTypes
  <2> QED BY <1>1, <1>2, <1>3, <2>1 DEF ThreadTypes
<1>12. MainPlace'
  BY <1>1, <1>2, <1>3, <1>4 DEF MainPlace, MainPlaces
<1>13. WorkerPlace' /\ OwnChain'
  BY <1>1, <1>2, <1>3, <1>4 DEF WorkerPlace, OwnChain
<1>14. Progress' /\ ChainClosed'
  BY <1>1, <1>2, <1>3, <1>4, WhoIsWho DEF Progress, ChainClosed
<1>15. ToSignal'
  BY <1>1, <1>2, <1>3, SameSchedule, WhoIsWho DEF ToSignal
<1>16. Queued'
  BY <1>1, <1>2, <1>3, <1>4, <1>6, <1>7, <1>10, WhoIsWho DEF Queued
<1>17. Pending'
  <2>1. \A x \in Threads : ToLaunch(x)' => ToLaunch(x) /\ x # at
    <3> SUFFICES ASSUME NEW x \in Threads, ToLaunch(x)' PROVE ToLaunch(x) /\ x # at
      OBVIOUS
    <3>1. x = Main \/ x > at
      BY <1>2, <1>3 DEF ToLaunch
    <3>2. x # Main => x \in Nat
      BY WhoIsWho
    <3> QED BY <1>2, <1>5, <3>1, <3>2 DEF ToLaunch
  <2> QED BY <1>1, <1>2, <1>3, <1>4, <1>10, <2>1, WhoIsWho DEF Pending
<1> QED
  BY <1>11, <1>12, <1>13, <1>14, <1>15, <1>16, <1>17 DEF PoolInv

LEMMA InlinePool ==
  ASSUME ScheduleInv, PoolInv, RunInline
  PROVE  PoolInv'
<1> DEFINE rec == [task |-> execMTasks[at + 1], even |-> even_cycle]
<1>1. /\ ThreadTypes /\ MainPlace /\ WorkerPlace /\ OwnChain /\ Progress /\ ChainClosed /\ ToSignal
      /\ Queued /\ Pending
  BY DEF PoolInv
<1>2. /\ UNCHANGED <<packVars, toSignal>>
      /\ work' = [work EXCEPT ![Main] = rec]
      /\ m_exiting' = m_exiting /\ m_ready' = m_ready
      /\ even_cycle' = even_cycle /\ finished' = finished /\ at' = 0
      /\ pc[Main] = "launch" /\ pc' = [pc EXCEPT ![Main] = "run"] /\ at = RootsForPool
  BY DEF RunInline, Goto, taskVars
<1>3. /\ packing' = packing /\ packNext' = packNext /\ thread' = thread /\ toSignal' = toSignal
      /\ pc' \in [Threads -> Places] /\ pc'[Main] = "run"
      /\ \A w \in Workers : pc'[w] = pc[w]
      /\ RootsForPool' = RootsForPool
      /\ \A x \in Threads : RootOf(x)' = RootOf(x) /\ (Has(x)' <=> Has(x))
  BY <1>2, MainMoves DEF MainPlaces
<1>4. Has(Main) /\ RootOf(Main) = execMTasks[at + 1] /\ ToLaunch(Main)
  BY <1>1, <1>2, PackAssumption DEF Has, RootOf, PlaceOf, ToLaunch, ThreadTypes
<1>5. /\ RootOf(Main) \in threadRoot /\ RootOf(Main) \in Tasks /\ RootOf(Main) # NoTask
      /\ RootOf(Main) \notin finished
      /\ \A u \in Tasks : packNext[u] # RootOf(Main)
  BY <1>1, <1>4, RootFacts, WhoIsWho DEF Pending, ScheduleInv, Roots
<1>6. rec \in Rec /\ rec.task = RootOf(Main) /\ rec.even = even_cycle
  BY <1>1, <1>4, <1>5 DEF Rec, ThreadTypes
<1> HIDE DEF rec
<1>7. work' \in [Threads -> Rec] /\ work'[Main] = rec /\ \A w \in Workers : work'[w] = work[w]
  BY <1>1, <1>2, <1>6, WhoIsWho DEF ThreadTypes
<1>8. Busy /\ Busy' /\ Carries(Main)' /\ \A w \in Workers : Carries(w)' <=> Carries(w)
  BY <1>2, <1>3, <1>5, <1>6, <1>7 DEF Busy, Carries
<1>9. ThreadTypes'
  BY <1>1, <1>2, <1>3, <1>7, PackAssumption DEF ThreadTypes
<1>10. MainPlace'
  BY <1>1, <1>2, <1>3, <1>8 DEF MainPlace, MainPlaces
<1>11. WorkerPlace'
  BY <1>1, <1>2, <1>3, <1>8 DEF WorkerPlace
<1>12. OwnChain'
  <2> SUFFICES ASSUME NEW x \in Threads, Carries(x)'
               PROVE  /\ Has(x) /\ work'[x].even = even_cycle
                      /\ thread[work'[x].task] = thread[RootOf(x)]
    BY <1>2, <1>3, <1>8 DEF OwnChain
  <2>1. CASE x = Main
    BY <1>4, <1>6, <1>7, <2>1
  <2>2. CASE x # Main
    BY <1>1, <1>7, <1>8, <2>2, WhoIsWho DEF OwnChain
  <2> QED BY <2>1, <2>2
<1>13. Progress'
  <2> SUFFICES ASSUME NEW x \in Threads, Carries(x)'
               PROVE  IF pc'[x] = "after"
                      THEN work'[x].task \in finished /\ packNext[work'[x].task] \notin finished
                      ELSE /\ work'[x].task \notin finished
                           /\ \A u \in Tasks : packNext[u] = work'[x].task => u \in finished
    BY <1>2, <1>3 DEF Progress
  <2>1. CASE x = Main
    BY <1>3, <1>5, <1>6, <1>7, <2>1
  <2>2. CASE x # Main
    BY <1>1, <1>3, <1>7, <1>8, <2>2, WhoIsWho DEF Progress
  <2> QED BY <2>1, <2>2
<1>14. ChainClosed'
  BY <1>1, <1>2, <1>3 DEF ChainClosed
<1>15. ToSignal'
  <2>1. \A u : CrossDownstream(u)' = CrossDownstream(u)
    BY <1>2, SameSchedule
  <2> QED BY <1>1, <1>2, <1>3, <1>7, <2>1, WhoIsWho DEF ToSignal
<1>16. Queued'
  BY <1>1, <1>2, <1>3, <1>8, WhoIsWho DEF Queued
<1>17. Pending'
  BY <1>3 DEF Pending, ToLaunch
<1> QED
  BY <1>9, <1>10, <1>11, <1>12, <1>13, <1>14, <1>15, <1>16, <1>17 DEF PoolInv

\* A place of Main outside of eval().
LEMMA AwayPool ==
  ASSUME ScheduleInv, PoolInv, ~Busy, UNCHANGED <<packVars, toSignal, work, even_cycle, finished>>,
         NEW place \in MainPlaces, pc' = [pc EXCEPT ![Main] = place], ~Busy', place # "idle",
         ~packing, at' \in Workers,
         m_exiting' \in [Workers -> BOOLEAN], m_ready' \in [Workers -> Seq(Rec)],
         \A w \in Workers : \A i \in 1 .. Len(m_ready'[w]) : m_ready'[w][i].task = NoTask
  PROVE  PoolInv'
<1>1. /\ ThreadTypes /\ MainPlace /\ WorkerPlace /\ OwnChain /\ Progress /\ ChainClosed /\ ToSignal
      /\ Queued /\ Pending
  BY DEF PoolInv
<1>2. /\ packing' = packing /\ packNext' = packNext /\ thread' = thread /\ toSignal' = toSignal
      /\ pc' \in [Threads -> Places] /\ pc'[Main] = place
      /\ \A w \in Workers : pc'[w] = pc[w]
  BY MainMoves
<1>3. \A x \in Threads : ~Carries(x) /\ ~Carries(x)'
  BY <1>1 DEF OwnChain, Carries
<1>4. place \notin {"idle", "launch", "notify_task", "run", "after", "await", "process"}
  BY <1>2 DEF Busy
<1>5. ThreadTypes'
  BY <1>1, <1>2, ThreadsAssumption, PackAssumption DEF ThreadTypes, Workers
<1>6. MainPlace'
  BY <1>2, <1>3, <1>4, WhoIsWho DEF MainPlace
<1>7. WorkerPlace' /\ OwnChain' /\ Progress'
  BY <1>1, <1>2, <1>3, <1>4, WhoIsWho DEF WorkerPlace, OwnChain, Progress
<1>8. ChainClosed'
  BY <1>1, <1>2 DEF ChainClosed
<1>9. ToSignal'
  <2>1. \A u : CrossDownstream(u)' = CrossDownstream(u)
    BY SameSchedule
  <2>2. pc[Main] # "after"
    BY DEF Busy
  <2> QED BY <1>1, <1>2, <1>4, <2>1, <2>2, WhoIsWho DEF ToSignal
<1>10. Queued' /\ Pending'
  BY <1>2, <1>4 DEF Queued, Pending, ToLaunch
<1> QED BY <1>5, <1>6, <1>7, <1>8, <1>9, <1>10 DEF PoolInv

LEMMA DestroyPool ==
  ASSUME ScheduleInv, PoolInv, Destroy \/ Delete \/ WakeUp \/ Join
  PROVE  PoolInv'
<1>1. /\ ThreadTypes /\ MainPlace /\ WorkerPlace /\ OwnChain /\ Progress /\ ChainClosed /\ ToSignal
      /\ Queued /\ Pending
  BY DEF PoolInv
<1>2. /\ UNCHANGED <<packVars, toSignal, work, even_cycle, finished>>
      /\ ~Busy /\ ~packing
  BY <1>1 DEF Destroy, Delete, WakeUp, Join, taskVars, Busy, MainPlace
<1>3. \A w \in Workers : /\ m_ready[w] \in Seq(Rec)
                         /\ \A i \in 1 .. Len(m_ready[w]) : m_ready[w][i].task = NoTask
  BY <1>1, <1>2 DEF Queued, ThreadTypes
<1>4. m_exiting \in [Workers -> BOOLEAN] /\ m_ready \in [Workers -> Seq(Rec)]
  BY <1>1 DEF ThreadTypes
<1>5. pc'[Main] \in MainPlaces /\ pc' = [pc EXCEPT ![Main] = pc'[Main]] /\ ~Busy' /\ pc'[Main] # "idle"
  <2>1. \E p \in {"delete", "wake_up", "notify_exit", "join", "gone"} : pc' = [pc EXCEPT ![Main] = p]
    BY DEF Destroy, Delete, WakeUp, Join, Goto
  <2>2. PICK p \in {"delete", "wake_up", "notify_exit", "join", "gone"} : pc' = [pc EXCEPT ![Main] = p]
    BY <2>1
  <2>3. pc'[Main] = p
    BY <1>1, <2>2, WhoIsWho DEF ThreadTypes
  <2> QED BY <2>2, <2>3 DEF MainPlaces, Busy
<1>6. CASE Destroy
  <2>1. at' = at /\ at = 0 /\ m_ready' = m_ready /\ m_exiting' = m_exiting
    BY <1>1, <1>6 DEF Destroy, poolVars, MainPlace
  <2>2. 0 \in Workers
    BY ThreadsAssumption, PackAssumption DEF Workers
  <2> QED BY <1>2, <1>3, <1>4, <1>5, <2>1, <2>2, AwayPool
<1>7. CASE Delete
  <2>1. /\ at' = at /\ at \in Workers /\ m_ready' = m_ready
        /\ m_exiting' = [m_exiting EXCEPT ![at] = TRUE]
    BY <1>1, <1>7 DEF Delete, MainPlace
  <2>2. m_exiting' \in [Workers -> BOOLEAN]
    BY <1>4, <2>1
  <2> QED BY <1>2, <1>3, <1>4, <1>5, <2>1, <2>2, AwayPool
<1>8. CASE WakeUp
  <2>1. /\ at' = at /\ at \in Workers /\ m_exiting' = m_exiting
        /\ m_ready' = [m_ready EXCEPT ![at] = Append(m_ready[at], NoWork)]
    BY <1>1, <1>8 DEF WakeUp, AddTask, MainPlace
  <2>2. NoWork \in Rec /\ NoWork.task = NoTask
    BY DEF NoWork, Rec
  <2>3. /\ Append(m_ready[at], NoWork) \in Seq(Rec)
        /\ \A i \in 1 .. Len(Append(m_ready[at], NoWork)) : Append(m_ready[at], NoWork)[i].task = NoTask
    <3>1. m_ready[at] \in Seq(Rec) /\ \A i \in 1 .. Len(m_ready[at]) : m_ready[at][i].task = NoTask
      BY <1>3, <2>1
    <3> DEFINE q == m_ready[at]
    <3> HIDE DEF q
    <3>2. q \in Seq(Rec) /\ \A i \in 1 .. Len(q) : q[i].task = NoTask
      BY <3>1 DEF q
    <3>3. /\ Append(q, NoWork) \in Seq(Rec) /\ Len(Append(q, NoWork)) = Len(q) + 1
          /\ Append(q, NoWork)[Len(q) + 1] = NoWork
          /\ \A i \in 1 .. Len(q) : Append(q, NoWork)[i] = q[i]
      BY <2>2, <3>2, AppendProperties
    <3>4. Len(q) \in Nat /\ \A i \in 1 .. Len(q) + 1 : i \in 1 .. Len(q) \/ i = Len(q) + 1
      BY <3>2
    <3>5. \A i \in 1 .. Len(Append(q, NoWork)) : Append(q, NoWork)[i].task = NoTask
      BY <2>2, <3>2, <3>3, <3>4
    <3> QED BY <3>3, <3>5 DEF q
  <2>4. m_ready' \in [Workers -> Seq(Rec)]
    BY <1>4, <2>1, <2>3
  <2>5. \A w \in Workers : m_ready'[w] = IF w = at THEN Append(m_ready[at], NoWork) ELSE m_ready[w]
    BY <1>4, <2>1
  <2>6. \A w \in Workers : \A i \in 1 .. Len(m_ready'[w]) : m_ready'[w][i].task = NoTask
    BY <1>3, <2>3, <2>5
  <2> QED BY <1>2, <1>4, <1>5, <2>1, <2>4, <2>6, AwayPool
<1>9. CASE Join
  <2>1. at' \in Workers /\ m_ready' = m_ready /\ m_exiting' = m_exiting
    BY <1>1, <1>9 DEF Join, MainPlace
  <2> QED BY <1>2, <1>3, <1>4, <1>5, <2>1, AwayPool
<1> QED BY <1>6, <1>7, <1>8, <1>9

LEMMA EvalPool ==
  ASSUME ScheduleInv, PoolInv, Eval
  PROVE  PoolInv'
<1>1. /\ ThreadTypes /\ MainPlace /\ WorkerPlace /\ OwnChain /\ Progress /\ ChainClosed /\ ToSignal
      /\ Queued /\ Pending
  BY DEF PoolInv
<1>2. /\ UNCHANGED <<packVars, toSignal>>
      /\ work' = work /\ m_exiting' = m_exiting /\ m_ready' = m_ready /\ at' = at
      /\ even_cycle' = ~even_cycle /\ finished' = {}
      /\ pc[Main] = "idle" /\ ~packing /\ pc' = [pc EXCEPT ![Main] = "launch"]
  BY DEF Eval, Goto, poolVars
<1>3. /\ packing' = packing /\ packNext' = packNext /\ thread' = thread /\ toSignal' = toSignal
      /\ pc' \in [Threads -> Places] /\ pc'[Main] = "launch"
      /\ \A w \in Workers : pc'[w] = pc[w]
  BY <1>2, MainMoves DEF MainPlaces
<1>4. ~Busy /\ Busy' /\ \A x \in Threads : ~Carries(x) /\ ~Carries(x)'
  BY <1>1, <1>2, <1>3 DEF Busy, Carries, OwnChain
<1>5. \A w \in Workers : m_ready[w] = <<>>
  BY <1>1, <1>2, <1>4 DEF Queued
<1>6. ThreadTypes'
  BY <1>1, <1>2, <1>3 DEF ThreadTypes
<1>7. MainPlace'
  BY <1>1, <1>2, <1>3, <1>4, WhoIsWho DEF MainPlace, MainPlaces
<1>8. WorkerPlace' /\ OwnChain' /\ Progress'
  BY <1>1, <1>2, <1>3, <1>4, WhoIsWho DEF WorkerPlace, OwnChain, Progress
<1>9. ChainClosed'
  BY <1>2 DEF ChainClosed
<1>10. ToSignal'
  BY <1>1, <1>2, <1>3, SameSchedule, WhoIsWho DEF ToSignal
<1>11. Queued' /\ Pending'
  BY <1>2, <1>4, <1>5, WhoIsWho DEF Queued, Pending
<1> QED BY <1>6, <1>7, <1>8, <1>9, <1>10, <1>11 DEF PoolInv

LEMMA AwaitPool ==
  ASSUME ScheduleInv, PoolInv, Through, Await \/ Return
  PROVE  PoolInv'
<1>1. /\ ThreadTypes /\ MainPlace /\ WorkerPlace /\ OwnChain /\ Progress /\ ChainClosed /\ ToSignal
      /\ Queued /\ Pending
  BY DEF PoolInv
<1>2. /\ UNCHANGED <<packVars, toSignal>>
      /\ work' = work /\ m_exiting' = m_exiting /\ m_ready' = m_ready /\ at' = at
      /\ even_cycle' = even_cycle /\ finished' = finished
  BY DEF Await, Return, poolVars, taskVars
<1>3. \/ pc[Main] = "await" /\ pc' = [pc EXCEPT ![Main] = "process"]
      \/ /\ pc[Main] = "process" /\ pc' = [pc EXCEPT ![Main] = "idle"]
         /\ \A x \in Threads : ~Carries(x)
         /\ \A w \in Workers : m_ready[w] = <<>>
  BY DEF Await, Return, Goto, Through
<1>4. /\ packing' = packing /\ packNext' = packNext /\ thread' = thread /\ toSignal' = toSignal
      /\ pc' \in [Threads -> Places]
      /\ pc'[Main] = IF pc[Main] = "await" THEN "process" ELSE "idle"
      /\ \A w \in Workers : pc'[w] = pc[w]
      /\ RootsForPool' = RootsForPool
      /\ \A x \in Threads : RootOf(x)' = RootOf(x) /\ (Has(x)' <=> Has(x))
  BY <1>2, <1>3, MainMoves DEF MainPlaces
<1>5. /\ Busy /\ (Busy' \/ pc'[Main] = "idle") /\ (Busy' <=> pc[Main] = "await")
      /\ \A x : Carries(x)' <=> Carries(x)
  BY <1>2, <1>3, <1>4 DEF Busy, Carries
<1>6. ThreadTypes'
  BY <1>1, <1>2, <1>4 DEF ThreadTypes
<1>7. MainPlace'
  BY <1>1, <1>2, <1>3, <1>4, <1>5 DEF MainPlace, MainPlaces
<1>8. WorkerPlace'
  BY <1>1, <1>2, <1>4, <1>5 DEF WorkerPlace
<1>9. OwnChain'
  BY <1>1, <1>2, <1>3, <1>4, <1>5 DEF OwnChain
<1>10. Progress' /\ ChainClosed'
  BY <1>1, <1>2, <1>3, <1>4, <1>5, WhoIsWho DEF Progress, ChainClosed
<1>11. ToSignal'
  BY <1>1, <1>2, <1>3, <1>4, SameSchedule, WhoIsWho DEF ToSignal
<1>12. Queued'
  <2>1. CASE pc[Main] = "await"
    BY <1>1, <1>2, <1>4, <1>5, <2>1, WhoIsWho DEF Queued
  <2>2. CASE pc[Main] # "await"
    BY <1>2, <1>3, <1>5, <2>2 DEF Queued
  <2> QED BY <2>1, <2>2
<1>13. Pending'
  BY <1>3, <1>4 DEF Pending, ToLaunch
<1> QED BY <1>6, <1>7, <1>8, <1>9, <1>10, <1>11, <1>12, <1>13 DEF PoolInv

LEMMA CompilePool ==
  ASSUME ScheduleInv, PoolInv, CompileStep
  PROVE  PoolInv'
<1>1. /\ ThreadTypes /\ MainPlace /\ WorkerPlace /\ OwnChain /\ Progress /\ ChainClosed /\ ToSignal
      /\ Queued /\ Pending
  BY DEF PoolInv
<1>2. /\ packing
      /\ even_cycle' = even_cycle /\ pc' = pc /\ work' = work /\ toSignal' = toSignal
      /\ m_ready' = m_ready /\ m_exiting' = m_exiting /\ at' = at /\ finished' = finished
  BY DEF CompileStep, PackNext, Pack, Packed, poolVars, taskVars
<1>3. pc[Main] = "idle" /\ ~even_cycle /\ finished = {} /\ ~Busy /\ ~Busy'
  BY <1>1, <1>2 DEF MainPlace, Busy
<1>4. \A x \in Threads : ~Carries(x) /\ ~Carries(x)'
  BY <1>1, <1>2, <1>3 DEF OwnChain, Carries
<1>5. \A x \in Threads : pc[x] # "after"
  BY <1>1, <1>3, <1>4, WhoIsWho DEF WorkerPlace
<1>6. ThreadTypes'
  BY <1>1, <1>2 DEF ThreadTypes
<1>7. MainPlace' /\ WorkerPlace' /\ OwnChain'
  BY <1>1, <1>2, <1>3, <1>4, WhoIsWho DEF MainPlace, WorkerPlace, OwnChain
<1>8. Progress' /\ ChainClosed' /\ ToSignal'
  BY <1>1, <1>2, <1>3, <1>4, <1>5 DEF Progress, ChainClosed, ToSignal
<1>9. Queued' /\ Pending'
  BY <1>1, <1>2, <1>3 DEF Queued, Pending, ToLaunch
<1> QED BY <1>6, <1>7, <1>8, <1>9 DEF PoolInv

LEMMA PoolInitial == Init => PoolInv
<1> SUFFICES ASSUME Init PROVE PoolInv
  OBVIOUS
<1> USE DEF Init, EvalInit
<1>1. /\ pc \in [Threads -> Places] /\ pc[Main] = "idle" /\ \A w \in Workers : pc[w] = "dequeue"
  BY WhoIsWho DEF Places, MainPlaces
<1>2. ~Busy /\ \A x \in Threads : ~Carries(x)
  BY <1>1 DEF Busy, Carries, NoWork
<1>3. ThreadTypes
  <2>1. work \in [Threads -> Rec] /\ toSignal \in [Threads -> SUBSET Tasks]
    BY DEF NoWork, Rec
  <2>2. <<>> \in Seq(Rec) /\ m_ready = [w \in Workers |-> <<>>]
    BY EmptySeq
  <2>3. m_ready \in [Workers -> Seq(Rec)]
    BY <2>2
  <2>4. m_exiting \in [Workers -> BOOLEAN] /\ at \in 0 .. nThreads - 1
    BY PackAssumption
  <2> QED BY <1>1, <2>1, <2>3, <2>4 DEF ThreadTypes
<1>4. MainPlace /\ WorkerPlace /\ OwnChain
  BY <1>1, <1>2, WhoIsWho DEF MainPlace, MainPlaces, WorkerPlace, OwnChain
<1>5. Progress /\ ChainClosed /\ ToSignal
  BY <1>1, <1>2 DEF Progress, ChainClosed, ToSignal, Threads
<1>6. Queued /\ Pending
  BY <1>1, <1>2 DEF Queued, Pending, ToLaunch
<1> QED BY <1>3, <1>4, <1>5, <1>6 DEF PoolInv

LEMMA PoolInductive ==
  ASSUME ScheduleInv, PoolInv, Through, [Next]_vars
  PROVE  PoolInv'
<1>1. CASE UNCHANGED vars
  BY <1>1, PoolSame DEF vars, poolVars, taskVars
<1>2. ASSUME NEW th \in Threads, MTaskStep(th) PROVE PoolInv'
  <2>1. CASE Flush(th)
    BY <2>1, PoolSame DEF Flush, poolVars
  <2> QED
    BY <1>2, <2>1, RunBodyPool, SignalPool, RunNextPool, SignalFinalPool DEF MTaskStep
<1>3. CASE MainStep
  <2>1. CASE Process
    BY <2>1, PoolSame DEF Process, poolVars
  <2> QED
    BY <1>2, <1>3, <2>1, WhoIsWho, NotifyPool, LaunchPool, InlinePool, AwaitPool, DestroyPool
    DEF MainStep
<1>4. ASSUME NEW w \in Workers, WorkerStep(w) \/ WakeUpSpuriously(w) PROVE PoolInv'
  <2>1. CASE WakeUpSpuriously(w)
    BY <2>1, PoolSame DEF WakeUpSpuriously, taskVars
  <2> QED
    BY <1>2, <1>4, <2>1, WhoIsWho, DequeuePool, CheckPool DEF WorkerStep
<1> QED
  BY <1>1, <1>3, <1>4, CompilePool, EvalPool, DestroyPool DEF Next

-----------------------------------------------------------------------------
(* The counters.                                                             *)

LEMMA AtWork ==
  ASSUME PoolInv, NEW th \in Threads, pc[th] \in {"run", "after"}
  PROVE  Carries(th)
BY WhoIsWho DEF PoolInv, MainPlace, WorkerPlace

Tellers(t) == IF t = Final THEN LastOfThreads ELSE CrossUpstream(t)

LEMMA ToldFacts ==
  ASSUME NEW t
  PROVE  /\ Told(t) \subseteq Tellers(t) \cap finished
         /\ Cardinality(Told(t)) \in Nat /\ upstreamDepCount(t) \in Nat
         /\ Cardinality(Told(t)) <= upstreamDepCount(t)
         /\ Cardinality(Told(t)) = upstreamDepCount(t) => Told(t) = Tellers(t)
<1>1. Told(t) \in SUBSET Tellers(t) /\ Told(t) \subseteq finished
  BY DEF Told, Tellers
<1>2. Tellers(t) \in SUBSET Tasks
  BY DEF Tellers, LastOfThreads, CrossUpstream, Upstream
<1>3. IsFiniteSet(Tellers(t))
  BY <1>2, FS_Subset, PackAssumption
<1>4. upstreamDepCount(t) = Cardinality(Tellers(t))
  BY DEF upstreamDepCount, Tellers
<1> QED BY <1>1, <1>3, <1>4, FS_Subset, FS_CardinalityType

\* Nobody has been told anything new.
LEMMA CountedSame ==
  ASSUME ScheduleInv, Counted,
         UNCHANGED <<packVars, even_cycle, upstreamDepsDone>>, Busy' <=> Busy,
         Busy => \A t \in Tasks \cup {Final} : Told(t)' = Told(t)
  PROVE  Counted'
<1>1. \A t : upstreamDepCount(t)' = upstreamDepCount(t)
  BY SameSchedule
<1> QED BY <1>1 DEF Counted, areUpstreamDepsDone, Final

LEMMA ToldSame ==
  ASSUME UNCHANGED <<packVars, work, toSignal, finished>>
  PROVE  \A t : Told(t)' = Told(t)
<1>1. (\A t : CrossUpstream(t)' = CrossUpstream(t)) /\ LastOfThreads' = LastOfThreads
  BY SameSchedule
<1> QED BY <1>1 DEF Told, Final

\* An mtask that starts has told nobody.
LEMMA ToldByOthers ==
  ASSUME ScheduleInv, PoolInv, UNCHANGED <<packVars, toSignal, finished>>,
         NEW th \in Threads, \A x \in Threads : x # th => work'[x] = work[x],
         ~Carries(th) \/ (toSignal[th] = {} /\ packNext[work[th].task] # NoTask),
         work'[th].task \notin finished
  PROVE  \A t : Told(t)' = Told(t)
<1>1. (\A t : CrossUpstream(t)' = CrossUpstream(t)) /\ LastOfThreads' = LastOfThreads
  BY SameSchedule
<1>2. ASSUME NEW t, NEW u \in Tasks \cap finished,
             ~Carries(th) \/ t # Final \/ packNext[u] = NoTask
      PROVE  IF t = Final
             THEN (\A x \in Threads : work'[x].task # u) <=> (\A x \in Threads : work[x].task # u)
             ELSE (\A x \in Threads : work'[x].task = u => t \notin toSignal[x])
                    <=> (\A x \in Threads : work[x].task = u => t \notin toSignal[x])
  <2>1. work'[th].task # u
    BY <1>2
  <2>2. CASE ~Carries(th)
    <3>1. work[th].task # u
      BY <1>2, <2>2, PackAssumption DEF Carries
    <3> QED BY <2>1, <3>1
  <2>3. CASE toSignal[th] = {} /\ packNext[work[th].task] # NoTask
    <3>1. CASE t = Final
      <4>1. ~Carries(th) \/ work[th].task # u
        BY <1>2, <2>3, <3>1
      <4>2. work[th].task # u
        BY <1>2, <4>1, PackAssumption DEF Carries
      <4> QED BY <2>1, <3>1, <4>2
    <3>2. CASE t # Final
      BY <2>1, <2>3, <3>2
    <3> QED BY <3>1, <3>2
  <2> QED BY <2>2, <2>3
<1>3. \A t : CrossUpstream(t) \subseteq Tasks
  BY DEF CrossUpstream, Upstream
<1>4. LastOfThreads \subseteq Tasks /\ \A u \in LastOfThreads : packNext[u] = NoTask
  BY DEF LastOfThreads
<1> SUFFICES ASSUME NEW t PROVE Told(t)' = Told(t)
  OBVIOUS
<1>5. CASE t = Final
  <2>1. \A u \in LastOfThreads \cap finished :
          (\A x \in Threads : work'[x].task # u) <=> (\A x \in Threads : work[x].task # u)
    BY <1>2, <1>4, <1>5
  <2> QED BY <1>1, <1>5, <2>1 DEF Told, Final
<1>6. CASE t # Final
  <2>1. \A u \in CrossUpstream(t) \cap finished :
          (\A x \in Threads : work'[x].task = u => t \notin toSignal[x])
            <=> (\A x \in Threads : work[x].task = u => t \notin toSignal[x])
    BY <1>2, <1>3, <1>6
  <2> QED BY <1>1, <1>6, <2>1 DEF Told, Final
<1> QED BY <1>5, <1>6

LEMMA RunBodyCounted ==
  ASSUME ScheduleInv, PoolInv, Counted, NEW th \in Threads, RunBody(th)
  PROVE  Counted'
<1> DEFINE r == work[th].task
<1>1. /\ UNCHANGED packVars /\ work' = work
      /\ finished' = finished \cup {r}
      /\ \A x \in Threads : toSignal'[x] = IF x = th THEN CrossDownstream(r) ELSE toSignal[x]
      /\ even_cycle' = even_cycle /\ upstreamDepsDone' = upstreamDepsDone
      /\ pc[th] = "run"
      /\ pc'[Main] = (IF Main = th THEN "after" ELSE pc[Main])
  BY WhoIsWho DEF RunBody, Goto, PoolInv, ThreadTypes
<1>2. Carries(th)
  BY <1>1, AtWork
<1>3. /\ r \in Tasks /\ Busy /\ r \notin finished
      /\ \A x \in Threads : x # th => work[x].task # r
  BY <1>1, <1>2, Carried, CarriedApart, PackAssumption DEF PoolInv, Progress, Carries
<1>4. (\A t : CrossUpstream(t)' = CrossUpstream(t)) /\ LastOfThreads' = LastOfThreads
  BY <1>1, SameSchedule
<1>5. ASSUME NEW t \in Tasks PROVE Told(t)' = Told(t)
  <2>1. t # Final
    BY PackAssumption DEF Final
  <2>2. r \in CrossUpstream(t) => t \in CrossDownstream(r)
    BY <1>3 DEF CrossUpstream, CrossDownstream, Upstream, Downstream, OtherThread
  <2>3. r \notin Told(t)' /\ r \notin Told(t)
    BY <1>1, <1>3, <1>4, <2>1, <2>2 DEF Told, Final
  <2>4. ASSUME NEW u, u # r PROVE u \in Told(t)' <=> u \in Told(t)
    BY <1>1, <1>3, <1>4, <2>1, <2>4 DEF Told, Final
  <2> QED BY <2>3, <2>4
<1>6. Told(Final)' = Told(Final)
  <2>1. r \notin Told(Final)' /\ r \notin Told(Final)
    BY <1>1, <1>3, <1>4 DEF Told, Final
  <2>2. ASSUME NEW u, u # r PROVE u \in Told(Final)' <=> u \in Told(Final)
    BY <1>1, <1>3, <1>4, <2>2 DEF Told, Final
  <2> QED BY <2>1, <2>2 DEF Final
<1>7. Busy'
  BY <1>1, <1>3 DEF Busy
<1> QED BY <1>1, <1>3, <1>5, <1>6, <1>7, CountedSame DEF Final

LEMMA OneToldMore ==
  ASSUME ScheduleInv, Counted, upstreamDepsDone \in [Tasks \cup {Final} -> Int],
         Busy, Busy', UNCHANGED <<packVars, even_cycle>>,
         NEW t \in Tasks \cup {Final}, NEW u, u \notin Told(t),
         Told(t)' = Told(t) \cup {u},
         \A s \in Tasks \cup {Final} : s # t => Told(s)' = Told(s),
         upstreamDepsDone' = signalled(t, even_cycle)
  PROVE  Counted' /\ upstreamDepsDone' \in [Tasks \cup {Final} -> Int]
<1> DEFINE n == Cardinality(Told(t))
<1>1. \A s : upstreamDepCount(s)' = upstreamDepCount(s)
  BY SameSchedule
<1>2. n \in Nat /\ upstreamDepCount(t) \in Nat
  BY ToldFacts
<1>3. IsFiniteSet(Told(t))
  <2>1. Told(t) \in SUBSET Tasks
    BY ToldFacts DEF Tellers, LastOfThreads, CrossUpstream, Upstream
  <2> QED BY <2>1, FS_Subset, PackAssumption
<1>4. Cardinality(Told(t)') = n + 1
  BY <1>3, FS_AddElement
<1>5. /\ upstreamDepsDone'[t] = IF even_cycle THEN upstreamDepsDone[t] + 1 ELSE upstreamDepsDone[t] - 1
      /\ \A s \in Tasks \cup {Final} : s # t => upstreamDepsDone'[s] = upstreamDepsDone[s]
      /\ upstreamDepsDone' \in [Tasks \cup {Final} -> Int]
  BY DEF signalled, Final
<1> HIDE DEF n
<1>6. upstreamDepsDone[t] = IF even_cycle THEN n ELSE upstreamDepCount(t) - n
  BY DEF Counted, n
<1>7. upstreamDepsDone'[t] = IF even_cycle THEN n + 1 ELSE upstreamDepCount(t) - (n + 1)
  BY <1>2, <1>5, <1>6
<1> SUFFICES ASSUME NEW s \in Tasks \cup {Final}
             PROVE  upstreamDepsDone'[s] = IF even_cycle THEN Cardinality(Told(s)')
                                           ELSE upstreamDepCount(s) - Cardinality(Told(s)')
  BY <1>1, <1>5 DEF Counted, Final
<1>8. CASE s = t
  BY <1>4, <1>7, <1>8
<1>9. CASE s # t
  BY <1>5, <1>9 DEF Counted
<1> QED BY <1>8, <1>9

LEMMA SignalCounted ==
  ASSUME ScheduleInv, PoolInv, CounterInv, NEW th \in Threads, NEW t \in Tasks, Signal(th, t)
  PROVE  Counted' /\ upstreamDepsDone' \in [Tasks \cup {Final} -> Int]
<1> DEFINE r == work[th].task
<1>1. /\ UNCHANGED <<packVars, even_cycle>> /\ work' = work /\ finished' = finished /\ pc' = pc
      /\ \A x \in Threads : toSignal'[x] = IF x = th THEN toSignal[th] \ {t} ELSE toSignal[x]
      /\ upstreamDepsDone' = signalled(t, work[th].even)
      /\ pc[th] = "after" /\ t \in toSignal[th]
  BY DEF Signal, PoolInv, ThreadTypes
<1>2. Carries(th)
  BY <1>1, AtWork
<1>3. /\ r \in Tasks /\ Busy /\ r \in finished /\ t \in CrossDownstream(r)
      /\ work[th].even = even_cycle
      /\ \A x \in Threads : x # th => work[x].task # r
  BY <1>1, <1>2, Carried, CarriedApart, PackAssumption DEF PoolInv, Progress, ToSignal, Carries
<1>4. (\A s : CrossUpstream(s)' = CrossUpstream(s)) /\ LastOfThreads' = LastOfThreads
  BY <1>1, SameSchedule
<1>5. t # Final
  BY PackAssumption DEF Final
<1>6. r \in CrossUpstream(t)
  BY <1>3 DEF CrossUpstream, CrossDownstream, Upstream, Downstream, OtherThread
<1>7. r \notin Told(t)
  BY <1>1, <1>5 DEF Told, Final
<1>8. Told(t)' = Told(t) \cup {r}
  <2>1. r \in Told(t)'
    BY <1>1, <1>3, <1>4, <1>5, <1>6 DEF Told, Final
  <2>2. ASSUME NEW u, u # r PROVE u \in Told(t)' <=> u \in Told(t)
    BY <1>1, <1>4, <1>5, <2>2 DEF Told, Final
  <2> QED BY <2>1, <2>2
<1>9. ASSUME NEW s \in Tasks \cup {Final}, s # t PROVE Told(s)' = Told(s)
  BY <1>1, <1>4, <1>9 DEF Told, Final
<1>10. Busy'
  BY <1>1, <1>3 DEF Busy
<1> QED BY <1>1, <1>3, <1>7, <1>8, <1>9, <1>10, OneToldMore DEF CounterInv

LEMMA SignalFinalCounted ==
  ASSUME ScheduleInv, PoolInv, CounterInv, NEW th \in Threads, SignalFinal(th)
  PROVE  Counted' /\ upstreamDepsDone' \in [Tasks \cup {Final} -> Int]
<1> DEFINE r == work[th].task
<1>1. /\ UNCHANGED <<packVars, even_cycle>> /\ finished' = finished /\ toSignal' = toSignal
      /\ \A x \in Threads : work'[x] = IF x = th THEN NoWork ELSE work[x]
      /\ pc'[Main] = IF th = Main THEN "await" ELSE pc[Main]
      /\ upstreamDepsDone' = signalled(Final, work[th].even)
      /\ pc[th] = "after" /\ toSignal[th] = {} /\ packNext[r] = NoTask
  BY WhoIsWho DEF SignalFinal, Goto, PoolInv, ThreadTypes
<1>2. Carries(th)
  BY <1>1, AtWork
<1>3. /\ r \in Tasks /\ Busy /\ r \in finished
      /\ work[th].even = even_cycle
      /\ \A x \in Threads : x # th => work[x].task # r
  BY <1>1, <1>2, Carried, CarriedApart, PackAssumption DEF PoolInv, Progress, ToSignal, Carries
<1>4. (\A s : CrossUpstream(s)' = CrossUpstream(s)) /\ LastOfThreads' = LastOfThreads
  BY <1>1, SameSchedule
<1>5. r \in LastOfThreads /\ \A u \in LastOfThreads : u # NoTask
  BY <1>1, <1>3, PackAssumption DEF LastOfThreads
<1>6. r \notin Told(Final)
  BY <1>1 DEF Told, Final
<1>7. Told(Final)' = Told(Final) \cup {r}
  <2>1. r \in Told(Final)'
    BY <1>1, <1>3, <1>4, <1>5 DEF Told, Final, NoWork
  <2>2. ASSUME NEW u, u # r PROVE u \in Told(Final)' <=> u \in Told(Final)
    BY <1>1, <1>4, <1>5, <2>2 DEF Told, Final, NoWork
  <2> QED BY <2>1, <2>2
<1>8. ASSUME NEW s \in Tasks \cup {Final}, s # Final PROVE Told(s)' = Told(s)
  <2>1. \A u \in CrossUpstream(s) : u # NoTask
    BY PackAssumption DEF CrossUpstream, Upstream
  <2>2. \A u \in CrossUpstream(s) : \A x \in Threads :
          (work'[x].task = u => s \notin toSignal'[x]) <=> (work[x].task = u => s \notin toSignal[x])
    BY <1>1, <2>1 DEF NoWork
  <2> QED BY <1>1, <1>4, <1>8, <2>2 DEF Told, Final
<1>9. Busy'
  BY <1>1, <1>3 DEF Busy
<1> QED BY <1>1, <1>3, <1>6, <1>7, <1>8, <1>9, OneToldMore DEF CounterInv

LEMMA EvalCounted ==
  ASSUME ScheduleInv, CounterInv, PoolInv, Eval
  PROVE  Counted'
<1>1. /\ UNCHANGED <<packVars, upstreamDepsDone>> /\ even_cycle' = ~even_cycle /\ finished' = {}
      /\ pc[Main] = "idle" /\ pc'[Main] = "launch"
  BY WhoIsWho DEF Eval, Goto, PoolInv, ThreadTypes
<1>2. \A s : upstreamDepCount(s)' = upstreamDepCount(s)
  BY <1>1, SameSchedule
<1>3. ~Busy /\ Busy'
  BY <1>1 DEF Busy
<1>4. \A s : Told(s)' = {}
  BY <1>1 DEF Told
<1>5. Cardinality({}) = 0 /\ \A s : upstreamDepCount(s) \in Nat
  BY FS_EmptySet, ToldFacts
<1>6. even_cycle \in BOOLEAN
  BY DEF PoolInv, ThreadTypes
<1> SUFFICES ASSUME NEW s \in Tasks \cup {Final}
             PROVE  upstreamDepsDone[s] = IF even_cycle' THEN 0 ELSE upstreamDepCount(s) - 0
  BY <1>1, <1>2, <1>3, <1>4, <1>5 DEF Counted, Final
<1>7. upstreamDepsDone[s] = IF even_cycle THEN upstreamDepCount(s) ELSE 0
  BY <1>3 DEF CounterInv, Counted, areUpstreamDepsDone
<1>8. upstreamDepCount(s) - 0 = upstreamDepCount(s)
  BY <1>5
<1>9. CASE even_cycle
  BY <1>1, <1>7, <1>8, <1>9
<1>10. CASE ~even_cycle
  BY <1>1, <1>7, <1>10
<1> QED BY <1>9, <1>10

LEMMA ReturnCounted ==
  ASSUME ScheduleInv, CounterInv, PoolInv, Return
  PROVE  Counted'
<1>1. /\ UNCHANGED <<packVars, upstreamDepsDone, even_cycle>>
      /\ pc[Main] = "process" /\ pc'[Main] = "idle"
  BY WhoIsWho DEF Return, Goto, taskVars, PoolInv, ThreadTypes
<1>2. \A s : upstreamDepCount(s)' = upstreamDepCount(s)
  BY <1>1, SameSchedule
<1>3. Busy /\ ~Busy'
  BY <1>1 DEF Busy
<1>4. finished = Tasks /\ \A x \in Threads : work[x].task = NoTask
  BY <1>1 DEF CounterInv, Through, Carries
<1>5. ASSUME NEW s \in Tasks \cup {Final} PROVE Told(s) = Tellers(s)
  <2>1. Tellers(s) \subseteq Tasks
    BY DEF Tellers, LastOfThreads, CrossUpstream, Upstream
  <2>2. \A u \in Tellers(s) : u \in finished /\ \A x \in Threads : work[x].task # u
    BY <1>4, <2>1, PackAssumption
  <2> QED BY <2>2 DEF Told, Tellers
<1>6. \A s \in Tasks \cup {Final} :
        Cardinality(Told(s)) = upstreamDepCount(s) /\ upstreamDepCount(s) \in Nat
  BY <1>5, ToldFacts DEF upstreamDepCount, Tellers
<1> SUFFICES ASSUME NEW s \in Tasks \cup {Final}
             PROVE  upstreamDepsDone[s] = IF even_cycle THEN upstreamDepCount(s) ELSE 0
  BY <1>1, <1>2, <1>3 DEF Counted, areUpstreamDepsDone, Final
<1>7. upstreamDepsDone[s] = IF even_cycle THEN Cardinality(Told(s))
                            ELSE upstreamDepCount(s) - Cardinality(Told(s))
  BY <1>3 DEF CounterInv, Counted
<1> QED BY <1>6, <1>7

LEMMA CompileCounted ==
  ASSUME ScheduleInv, CounterInv, PoolInv, CompileStep
  PROVE  Counted'
<1>1. /\ packing /\ upstreamDepsDone' = upstreamDepsDone /\ even_cycle' = even_cycle /\ pc' = pc
  BY DEF CompileStep, PackNext, Pack, Packed, taskVars
<1>2. pc[Main] = "idle" /\ ~even_cycle /\ ~Busy /\ ~Busy'
  BY <1>1 DEF PoolInv, MainPlace, Busy
<1> QED BY <1>1, <1>2 DEF CounterInv, Counted, areUpstreamDepsDone, Final

\* When __Vm_mt_final has heard of the last of every chain, all have run.
LEMMA AwaitThrough ==
  ASSUME ScheduleInv, PoolInv, Counted, Await
  PROVE  Through'
<1>1. /\ UNCHANGED packVars /\ finished' = finished /\ work' = work /\ m_ready' = m_ready
      /\ areUpstreamDepsDone(Final, even_cycle) /\ pc[Main] = "await"
  BY DEF Await, poolVars, taskVars
<1>2. Busy
  BY <1>1 DEF Busy
<1>3. Told(Final) = LastOfThreads
  <2>1. upstreamDepsDone[Final] = IF even_cycle THEN Cardinality(Told(Final))
                                  ELSE upstreamDepCount(Final) - Cardinality(Told(Final))
    BY <1>2 DEF Counted, Final
  <2>2. upstreamDepsDone[Final] = IF even_cycle THEN upstreamDepCount(Final) ELSE 0
    BY <1>1 DEF areUpstreamDepsDone
  <2>3. Cardinality(Told(Final)) \in Nat /\ upstreamDepCount(Final) \in Nat
    BY ToldFacts
  <2>4. Cardinality(Told(Final)) = upstreamDepCount(Final)
    BY <2>1, <2>2, <2>3
  <2> QED BY <2>4, ToldFacts DEF Tellers
<1>4. LastOfThreads \subseteq finished /\ \A u \in LastOfThreads, x \in Threads : work[x].task # u
  BY <1>3 DEF Told, Final
<1>5. finished = Tasks
  <2> DEFINE Left == Tasks \ finished
  <2> SUFFICES ASSUME Left # {} PROVE FALSE
    BY DEF PoolInv, ThreadTypes
  <2>1. HasNoCycle(Tasks, graph.edges \cup Chain)
    BY DEF ScheduleInv, PackInv, NoCircularWait
  <2>2. PICK t \in Left : \A u \in Left : <<t, u>> \notin graph.edges \cup Chain
    <3> HIDE DEF Left
    <3>1. Left \in SUBSET Tasks
      BY DEF Left
    <3> QED BY <2>1, <3>1, SomeLast, PackAssumption
  <2>3. packNext[t] # NoTask
    BY <1>4 DEF LastOfThreads
  <2>4. packNext[t] \in Tasks
    BY <2>3, NextOnChain
  <2>5. <<t, packNext[t]>> \in Chain
    BY <2>4 DEF Chain
  <2>6. packNext[t] \in finished
    BY <2>2, <2>4, <2>5
  <2> QED BY <2>6 DEF PoolInv, ChainClosed
<1>6. \A x \in Threads : ~Carries(x)
  <2> SUFFICES ASSUME NEW x \in Threads, Carries(x) PROVE FALSE
    OBVIOUS
  <2>1. work[x].task \in Tasks /\ packNext[work[x].task] \in Tasks \cup {NoTask}
    BY Carried
  <2>2. packNext[work[x].task] = NoTask
    BY <1>5, <2>1 DEF PoolInv, Progress
  <2> QED BY <1>4, <2>1, <2>2 DEF LastOfThreads
<1>7. \A w \in Workers : m_ready[w] = <<>>
  <2> SUFFICES ASSUME NEW w \in Workers, m_ready[w] # <<>> PROVE FALSE
    OBVIOUS
  <2>1. Has(w) /\ RootOf(w) \notin finished
    BY <1>2 DEF PoolInv, Queued
  <2> QED BY <1>5, <2>1, RootFacts, WhoIsWho
<1> QED BY <1>1, <1>5, <1>6, <1>7 DEF Through, Carries

\* From then on no mtask is left to run.
LEMMA ThroughStays ==
  ASSUME ScheduleInv, PoolInv, Through, Next, ~Await, pc'[Main] = "process"
  PROVE  /\ pc[Main] = "process" /\ finished' = finished /\ work' = work /\ m_ready' = m_ready
<1>1. pc \in [Threads -> Places] /\ WorkerPlace /\ MainPlace
  BY DEF PoolInv, ThreadTypes
<1>2. CASE CompileStep
  BY <1>1, <1>2 DEF CompileStep, PackNext, Pack, Packed, MainPlace
<1>3. ASSUME NEW th \in Threads, MTaskStep(th) PROVE FALSE
  <2>1. pc[th] \in {"run", "after"}
    BY <1>3 DEF MTaskStep, RunBody, Flush, Signal, RunNext, SignalFinal
  <2>2. Carries(th)
    BY <2>1, AtWork
  <2>3. pc[Main] # "process"
    BY <2>2 DEF Through
  <2>4. CASE th = Main
    BY <1>1, <1>3, <2>4, WhoIsWho
    DEF MTaskStep, RunBody, Flush, Signal, RunNext, SignalFinal, Goto
  <2>5. CASE th # Main
    BY <1>1, <1>3, <2>3, <2>5, WhoIsWho
    DEF MTaskStep, RunBody, Flush, Signal, RunNext, SignalFinal, Goto
  <2> QED BY <2>4, <2>5
<1>4. CASE Process
  BY <1>4 DEF Process, poolVars
<1>5. CASE Eval \/ Destroy \/ Notify \/ LaunchOnWorker \/ RunInline \/ Return
           \/ Delete \/ WakeUp \/ Join
  BY <1>1, <1>5, WhoIsWho
  DEF Eval, Destroy, Notify, LaunchOnWorker, RunInline, Return, Delete, WakeUp, Join, Goto
<1>6. ASSUME NEW w \in Workers, Dequeue(w) \/ Check(w) \/ WakeUpSpuriously(w)
      PROVE  /\ pc[Main] = "process" /\ finished' = finished /\ work' = work /\ m_ready' = m_ready
  <2>1. pc'[Main] = pc[Main] /\ finished' = finished
    BY <1>1, <1>6, WhoIsWho DEF Dequeue, Check, WakeUpSpuriously, Goto, taskVars
  <2>2. m_ready[w] = <<>> /\ ~Carries(w)
    BY <2>1, WhoIsWho DEF Through
  <2>3. ~Check(w)
    BY <1>1, <2>1, <2>2 DEF Check, WorkerPlace, Busy
  <2> QED BY <1>6, <2>1, <2>2, <2>3 DEF Dequeue, WakeUpSpuriously
<1> QED
  BY <1>2, <1>3, <1>4, <1>5, <1>6, WhoIsWho DEF Next, MainStep, WorkerStep

LEMMA ThroughInductive ==
  ASSUME ScheduleInv, PoolInv, CounterInv, [Next]_vars
  PROVE  Through'
<1>1. CASE UNCHANGED vars
  BY <1>1 DEF CounterInv, Through, Carries, vars, poolVars, taskVars
<1>2. CASE Await
  BY <1>2, AwaitThrough DEF CounterInv
<1>3. CASE Next /\ ~Await /\ pc'[Main] = "process"
  BY <1>3, ThroughStays DEF CounterInv, Through, Carries
<1> QED BY <1>1, <1>2, <1>3 DEF Through

LEMMA StartCounted ==
  ASSUME ScheduleInv, PoolInv, CounterInv,
         RunInline \/ (\E w \in Workers : Dequeue(w)) \/ (\E th \in Threads : RunNext(th))
  PROVE  Counted'
<1>0. pc \in [Threads -> Places] /\ work \in [Threads -> Rec]
  BY DEF PoolInv, ThreadTypes
<1>1. CASE RunInline
  <2>1. /\ UNCHANGED <<packVars, even_cycle, upstreamDepsDone, toSignal, finished>>
        /\ work' = [work EXCEPT ![Main] = [task |-> execMTasks[at + 1], even |-> even_cycle]]
        /\ pc[Main] = "launch" /\ pc'[Main] = "run" /\ at = RootsForPool
    BY <1>0, <1>1, WhoIsWho DEF RunInline, Goto, taskVars
  <2>2. work'[Main].task = execMTasks[at + 1] /\ \A x \in Threads : x # Main => work'[x] = work[x]
    BY <1>0, <2>1, WhoIsWho
  <2>3. Has(Main) /\ RootOf(Main) = execMTasks[at + 1] /\ ToLaunch(Main)
    BY <2>1, PackAssumption DEF PoolInv, ThreadTypes, Has, RootOf, PlaceOf, ToLaunch
  <2>4. work'[Main].task \notin finished /\ ~Carries(Main)
    BY <2>2, <2>3, WhoIsWho DEF PoolInv, Pending
  <2>5. \A t : Told(t)' = Told(t)
    BY <2>1, <2>2, <2>4, WhoIsWho, ToldByOthers
  <2>6. Busy' <=> Busy
    BY <2>1 DEF Busy
  <2> QED BY <2>1, <2>5, <2>6, CountedSame DEF CounterInv
<1>2. ASSUME NEW w \in Workers, Dequeue(w) PROVE Counted'
  <2>1. /\ UNCHANGED <<packVars, even_cycle, upstreamDepsDone, toSignal, finished>>
        /\ pc'[Main] = pc[Main] /\ pc[w] = "dequeue"
    BY <1>0, <1>2, WhoIsWho DEF Dequeue, Goto, taskVars
  <2>2. Busy' <=> Busy
    BY <2>1 DEF Busy
  <2>3. CASE m_ready[w] = <<>>
    <3>1. \A t : Told(t)' = Told(t)
      BY <1>2, <2>1, <2>3, ToldSame DEF Dequeue
    <3> QED BY <2>1, <2>2, <3>1, CountedSame DEF CounterInv
  <2>4. CASE m_ready[w] # <<>> /\ Busy
    <3>1. work' = [work EXCEPT ![w] = Head(m_ready[w])]
      BY <1>2, <2>4 DEF Dequeue
    <3>2. /\ ~Carries(w) /\ RootOf(w) \notin finished
          /\ m_ready[w] = <<[task |-> RootOf(w), even |-> even_cycle]>>
      BY <2>4 DEF PoolInv, Queued
    <3>3. work'[w].task = RootOf(w) /\ \A x \in Threads : x # w => work'[x] = work[x]
      BY <1>0, <3>1, <3>2, WhoIsWho
    <3>4. \A t : Told(t)' = Told(t)
      BY <2>1, <3>2, <3>3, WhoIsWho, ToldByOthers
    <3> QED BY <2>1, <2>2, <3>4, CountedSame DEF CounterInv
  <2>5. CASE ~Busy
    BY <2>1, <2>2, <2>5, CountedSame DEF CounterInv
  <2> QED BY <2>3, <2>4, <2>5
<1>3. ASSUME NEW th \in Threads, RunNext(th) PROVE Counted'
  <2>1. /\ UNCHANGED <<packVars, even_cycle, upstreamDepsDone, toSignal, finished>>
        /\ pc'[Main] = (IF th = Main THEN "run" ELSE pc[Main]) /\ pc[th] = "after"
        /\ toSignal[th] = {} /\ packNext[work[th].task] # NoTask
        /\ work'[th].task = packNext[work[th].task]
        /\ \A x \in Threads : x # th => work'[x] = work[x]
    BY <1>0, <1>3, WhoIsWho DEF RunNext, Goto, taskVars
  <2>2. Carries(th)
    BY <2>1, AtWork
  <2>3. work'[th].task \notin finished /\ Busy
    BY <2>1, <2>2 DEF PoolInv, Progress, OwnChain
  <2>4. \A t : Told(t)' = Told(t)
    BY <2>1, <2>3, ToldByOthers
  <2>5. Busy' <=> Busy
    BY <2>1, <2>3 DEF Busy
  <2> QED BY <2>1, <2>4, <2>5, CountedSame DEF CounterInv
<1> QED BY <1>1, <1>2, <1>3

LEMMA CounterInductive ==
  ASSUME ScheduleInv, PoolInv, CounterInv, [Next]_vars
  PROVE  CounterInv'
<1>0. pc \in [Threads -> Places] /\ Main \in Threads
  BY WhoIsWho DEF PoolInv, ThreadTypes
<1> DEFINE Kept1 == Counted' /\ upstreamDepsDone' \in [Tasks \cup {Final} -> Int]
<1>1. ASSUME UNCHANGED <<packVars, even_cycle, upstreamDepsDone, work, toSignal, finished>>,
             Busy' <=> Busy
      PROVE  Kept1
  BY <1>1, ToldSame, CountedSame DEF CounterInv, Final
<1>2. ASSUME UNCHANGED upstreamDepsDone, Counted' PROVE Kept1
  BY <1>2 DEF CounterInv, Final
<1> SUFFICES Kept1
  BY ThroughInductive DEF CounterInv, Final
<1>3. CASE UNCHANGED vars
  BY <1>1, <1>3 DEF vars, taskVars, Busy
<1>4. ASSUME NEW th \in Threads, MTaskStep(th) PROVE Kept1
  <2>1. CASE Flush(th)
    BY <1>1, <2>1 DEF Flush, Busy
  <2>2. CASE RunBody(th)
    BY <1>2, <2>2, RunBodyCounted DEF RunBody, CounterInv
  <2>3. CASE RunNext(th)
    BY <1>2, <2>3, StartCounted DEF RunNext, taskVars
  <2> QED
    BY <1>4, <2>1, <2>2, <2>3, SignalCounted, SignalFinalCounted DEF MTaskStep
<1>5. CASE Notify \/ LaunchOnWorker \/ Await \/ Process \/ Delete \/ WakeUp \/ Join \/ Destroy
  <2>1. /\ UNCHANGED <<packVars, even_cycle, upstreamDepsDone, work, toSignal, finished>>
        /\ Busy' <=> Busy
    BY <1>0, <1>5 DEF Notify, LaunchOnWorker, Await, Process, Delete, WakeUp, Join, Destroy,
                      Goto, taskVars, Busy
  <2> QED BY <1>1, <2>1
<1>6. CASE RunInline
  BY <1>2, <1>6, StartCounted DEF RunInline, taskVars
<1>7. CASE Eval
  BY <1>2, <1>7, EvalCounted DEF Eval
<1>8. CASE Return
  BY <1>2, <1>8, ReturnCounted DEF Return, taskVars
<1>9. CASE CompileStep
  BY <1>2, <1>9, CompileCounted DEF CompileStep, taskVars
<1>10. ASSUME NEW w \in Workers, Dequeue(w) \/ Check(w) \/ WakeUpSpuriously(w) PROVE Kept1
  <2>1. CASE Dequeue(w)
    BY <1>2, <2>1, StartCounted DEF Dequeue, taskVars
  <2>2. CASE Check(w) \/ WakeUpSpuriously(w)
    <3>1. /\ UNCHANGED <<packVars, even_cycle, upstreamDepsDone, work, toSignal, finished>>
          /\ Busy' <=> Busy
      BY <1>0, <2>2, WhoIsWho DEF Check, WakeUpSpuriously, Goto, taskVars, Busy
    <3> QED BY <1>1, <3>1
  <2> QED BY <1>10, <2>1, <2>2
<1> QED
  BY <1>3, <1>4, <1>5, <1>6, <1>7, <1>8, <1>9, <1>10, WhoIsWho DEF Next, MainStep, WorkerStep

LEMMA CounterInitial == Init => CounterInv
<1> SUFFICES ASSUME Init PROVE CounterInv
  OBVIOUS
<1>1. pc[Main] = "idle" /\ ~even_cycle /\ upstreamDepsDone = [t \in Tasks \cup {Final} |-> 0]
  BY WhoIsWho DEF Init, EvalInit
<1> QED BY <1>1 DEF CounterInv, Counted, Through, Busy, areUpstreamDepsDone

EvalInv == ScheduleInv /\ PoolInv /\ CounterInv

LEMMA EvalInvariant == Spec => []EvalInv
<1>1. Init => EvalInv
  BY ScheduleInductive, PoolInitial, CounterInitial DEF EvalInv
<1>2. EvalInv /\ [Next]_vars => EvalInv'
  BY ScheduleInductive, PoolInductive, CounterInductive DEF EvalInv, CounterInv
<1> QED BY <1>1, <1>2, PTL DEF Spec

\* The counter of an mtask never leaves the range that signalUpstreamDone
\* asserts, and when eval() has returned each is where the next evaluation, of
\* the other parity, counts from: whatever the graph, the packing, the number
\* of threads and of evaluations, and however the threads are interleaved.
THEOREM CountersAlternate == Spec => []CountersTurn
<1>1. EvalInv => CountersTurn
  <2> SUFFICES ASSUME EvalInv, NEW t \in Tasks \cup {Final}
               PROVE  /\ upstreamDepsDone[t] <= upstreamDepCount(t)
                      /\ pc[Main] = "idle" => areUpstreamDepsDone(t, even_cycle)
    BY DEF CountersTurn
  <2>1. /\ Cardinality(Told(t)) \in Nat /\ upstreamDepCount(t) \in Nat
        /\ Cardinality(Told(t)) <= upstreamDepCount(t)
    BY ToldFacts
  <2>2. CASE Busy
    <3>1. pc[Main] # "idle"
      BY <2>2 DEF Busy
    <3>2. upstreamDepsDone[t] = IF even_cycle THEN Cardinality(Told(t))
                                ELSE upstreamDepCount(t) - Cardinality(Told(t))
      BY <2>2 DEF EvalInv, CounterInv, Counted
    <3> QED BY <2>1, <3>1, <3>2
  <2>3. CASE ~Busy
    <3>1. areUpstreamDepsDone(t, even_cycle)
      BY <2>3 DEF EvalInv, CounterInv, Counted
    <3> QED BY <2>1, <3>1 DEF areUpstreamDepsDone
  <2> QED BY <2>2, <2>3
<1> QED BY <1>1, EvalInvariant, PTL

-----------------------------------------------------------------------------
(* The messages.                                                             *)

LEMMA MessageFacts ==
  ASSUME NEW m
  PROVE  m \in AllMessages <=> /\ m = <<m[1], m[2]>> /\ m[1] \in Tasks
                               /\ m[2] \in 1 .. Messages[m[1]]
BY DEF AllMessages, Evaluation!AllMessages

LEMMA EarlierFacts ==
  ASSUME NEW l \in AllMessages, NEW m \in AllMessages, NEW n \in AllMessages
  PROVE  /\ ~Earlier(m, m)
         /\ m = n \/ Earlier(m, n) \/ Earlier(n, m)
         /\ Earlier(l, m) /\ Earlier(m, n) => Earlier(l, n)
         /\ Earlier(m, n) <=> m[1] < n[1] \/ (m[1] = n[1] /\ m[2] < n[2])
<1>1. /\ m = <<m[1], m[2]>> /\ n = <<n[1], n[2]>>
      /\ m[1] \in Nat /\ m[2] \in Nat /\ n[1] \in Nat /\ n[2] \in Nat /\ l[1] \in Nat /\ l[2] \in Nat
  BY MessageFacts, PackAssumption, ThreadsAssumption
<1> DEFINE a == m[1]
           b == m[2]
           c == n[1]
           d == n[2]
<1>2. m = <<a, b>> /\ n = <<c, d>> /\ a \in Nat /\ b \in Nat /\ c \in Nat /\ d \in Nat
  BY <1>1
<1>3. m = n \/ Earlier(m, n) \/ Earlier(n, m)
  BY <1>1 DEF Earlier, Evaluation!Earlier
<1> QED BY <1>1, <1>3 DEF Earlier, Evaluation!Earlier

\* A set of indices that has all below each of its own begins the sequence.
LEMMA Beginning ==
  ASSUME NEW n \in Nat, NEW B \in SUBSET (1 .. n), \A i \in B, j \in 1 .. n : j < i => j \in B
  PROVE  Cardinality(B) \in 0 .. n /\ B = 1 .. Cardinality(B)
<1> DEFINE C == (1 .. n + 1) \ B
           f == [i \in C |-> i]
<1>1. n + 1 \in C /\ f \in [C -> Nat]
  OBVIOUS
<1>2. PICK k \in C : \A i \in C : k <= i
  <2>1. C # {}
    BY <1>1
  <2>2. \E x \in C : \A y \in C : f[x] <= f[y]
    <3> HIDE DEF C, f
    <3> QED BY <1>1, <2>1, LeastRank
  <2> QED BY <2>2
<1>3. k \in 1 .. n + 1 /\ k - 1 \in 0 .. n
  OBVIOUS
<1>4. B = 1 .. k - 1
  <2>1. ASSUME NEW i \in B PROVE i \in 1 .. k - 1
    <3>1. i < k
      <4> SUFFICES ASSUME k <= i PROVE FALSE
        BY <1>3
      <4>1. k # i /\ k \in 1 .. n
        BY <1>3
      <4> QED BY <4>1
    <3> QED BY <1>3, <3>1
  <2>2. ASSUME NEW i \in 1 .. k - 1 PROVE i \in B
    <3>1. i \in 1 .. n + 1 /\ ~(k <= i)
      BY <1>3
    <3>2. i \notin C
      BY <1>2, <3>1
    <3> QED BY <3>1, <3>2
  <2> QED BY <2>1, <2>2
<1>5. Cardinality(1 .. k - 1) = k - 1
  <2>1. 1 \in Int /\ k - 1 \in Int /\ (k - 1) - 1 + 1 = k - 1 /\ (1 > k - 1 => k - 1 = 0)
    BY <1>3
  <2> QED BY <2>1, FS_Interval
<1> QED BY <1>3, <1>4, <1>5

\* post() keeps the queue in order, and loses nothing.
LEMMA InsertedFacts ==
  ASSUME NEW q \in Seq(AllMessages), Sorted(q), NEW m \in AllMessages,
         \A i \in 1 .. Len(q) : q[i][1] = m[1] => q[i][2] < m[2]
  PROVE  /\ Inserted(q, m) \in Seq(AllMessages) /\ Sorted(Inserted(q, m))
         /\ Range(Inserted(q, m)) = Range(q) \cup {m}
<1> DEFINE n == Len(q)
           B == {i \in DOMAIN q : q[i][1] <= m[1]}
           k == Cardinality(B)
           r == Inserted(q, m)
<1>1. n \in Nat /\ DOMAIN q = 1 .. n /\ \A i \in 1 .. n : q[i] \in AllMessages
  OBVIOUS
<1>2. \A i \in 1 .. n : q[i][1] \in Nat /\ q[i][2] \in Nat
  BY <1>1, MessageFacts, PackAssumption, ThreadsAssumption
<1>3. m[1] \in Nat /\ m[2] \in Nat
  BY MessageFacts, PackAssumption, ThreadsAssumption
<1>4. \A i, j \in 1 .. n : i < j => q[i][1] <= q[j][1]
  BY <1>1, <1>2, EarlierFacts DEF Sorted
<1>5. k \in 0 .. n /\ B = 1 .. k
  <2>1. B \in SUBSET (1 .. n)
    BY <1>1
  <2>2. \A i \in B, j \in 1 .. n : j < i => j \in B
    <3> SUFFICES ASSUME NEW i \in B, NEW j \in 1 .. n, j < i PROVE q[j][1] <= m[1]
      BY <1>1
    <3>1. q[j][1] <= q[i][1] /\ q[i][1] <= m[1] /\ q[i][1] \in Nat /\ q[j][1] \in Nat
      BY <1>1, <1>2, <1>4
    <3> QED BY <1>3, <3>1
  <2> HIDE DEF B
  <2> QED BY <1>1, <2>1, <2>2, Beginning
<1>6. \A i \in 1 .. n : i <= k <=> q[i][1] <= m[1]
  <2>1. \A i \in 1 .. n : i \in B <=> q[i][1] <= m[1]
    BY <1>1
  <2> HIDE DEF B, k
  <2> QED BY <1>5, <2>1
<1>7. r = InsertAt(q, k + 1, m)
  BY DEF Inserted
<1> HIDE DEF B, k, r
<1>8. /\ r \in Seq(AllMessages) /\ Len(r) = n + 1
      /\ \A i \in 1 .. n + 1 : r[i] = IF i <= k THEN q[i] ELSE IF i = k + 1 THEN m ELSE q[i - 1]
  <2> DEFINE a == SubSeq(q, 1, k)
             b == SubSeq(q, k + 1, n)
  <2>1. r = (a \o <<m>>) \o b
    <3>1. (k + 1) - 1 = k
      BY <1>5
    <3> QED BY <1>7, <3>1 DEF InsertAt
  <2>2. a \in Seq(AllMessages) /\ Len(a) = k /\ \A i \in 1 .. k : a[i] = q[i]
    BY <1>1, <1>5
  <2>3. b \in Seq(AllMessages) /\ Len(b) = n - k /\ \A i \in 1 .. n - k : b[i] = q[k + i]
    <3>1. k + 1 \in Int /\ n \in Int /\ \A i \in k + 1 .. n : q[i] \in AllMessages
      BY <1>1, <1>5
    <3>2. /\ b \in Seq(AllMessages)
          /\ Len(b) = IF k + 1 <= n THEN n - (k + 1) + 1 ELSE 0
          /\ \A i \in 1 .. n - (k + 1) + 1 : b[i] = q[(k + 1) + i - 1]
      BY <3>1, SubSeqProperties
    <3>3. /\ n - (k + 1) + 1 = n - k /\ (~(k + 1 <= n) => n - k = 0)
          /\ \A i \in 1 .. n - k : (k + 1) + i - 1 = k + i
      <4>1. \A x \in Nat, y \in Nat :
              /\ x - (y + 1) + 1 = x - y /\ (y <= x /\ ~(y + 1 <= x) => x - y = 0)
              /\ \A i \in 1 .. x - y : (y + 1) + i - 1 = y + i
        OBVIOUS
      <4>2. n \in Nat /\ k \in Nat /\ k <= n
        BY <1>1, <1>5
      <4> HIDE DEF n, a, b
      <4> QED BY <4>1, <4>2
    <3> QED BY <3>2, <3>3
  <2> HIDE DEF a, b
  <2>4. /\ a \o <<m>> \in Seq(AllMessages) /\ Len(a \o <<m>>) = k + 1
        /\ \A i \in 1 .. k : (a \o <<m>>)[i] = q[i]
        /\ (a \o <<m>>)[k + 1] = m
    BY <1>5, <2>2
  <2> DEFINE c == a \o <<m>>
  <2>8. c \in Seq(AllMessages) /\ Len(c) = k + 1 /\ (\A i \in 1 .. k : c[i] = q[i]) /\ c[k + 1] = m
    BY <2>4
  <2> HIDE DEF c
  <2>5. /\ c \o b \in Seq(AllMessages) /\ Len(c \o b) = (k + 1) + (n - k)
        /\ \A i \in 1 .. (k + 1) + (n - k) : (c \o b)[i] = IF i <= k + 1 THEN c[i] ELSE b[i - (k + 1)]
    <3>1. /\ c \o b \in Seq(AllMessages) /\ Len(c \o b) = Len(c) + Len(b)
          /\ \A i \in 1 .. Len(c) + Len(b) :
               (c \o b)[i] = IF i <= Len(c) THEN c[i] ELSE b[i - Len(c)]
      BY <2>3, <2>8, ConcatProperties
    <3>2. Len(c) = k + 1 /\ Len(b) = n - k
      BY <2>3, <2>8
    <3> QED BY <3>1, <3>2, Zenon
  <2>6. (k + 1) + (n - k) = n + 1
    BY <1>1, <1>5
  <2>7. ASSUME NEW i \in 1 .. n + 1
        PROVE  (c \o b)[i] = IF i <= k THEN q[i] ELSE IF i = k + 1 THEN m ELSE q[i - 1]
    <3>1. CASE i <= k
      <4>1. i \in 1 .. k /\ i <= k + 1
        BY <1>5, <3>1
      <4> QED BY <2>8, <2>5, <2>6, <3>1, <4>1
    <3>2. CASE i = k + 1
      <4>1. ~(i <= k) /\ i <= k + 1
        BY <1>5, <3>2
      <4> QED BY <2>8, <2>5, <2>6, <3>2, <4>1
    <3>3. CASE i > k + 1
      <4>1. i - (k + 1) \in 1 .. n - k /\ k + (i - (k + 1)) = i - 1 /\ ~(i <= k + 1) /\ ~(i <= k) /\ i # k + 1
        BY <1>1, <1>5, <3>3
      <4> QED BY <2>3, <2>5, <2>6, <4>1
    <3>4. i <= k \/ i = k + 1 \/ i > k + 1
      BY <1>5
    <3> QED BY <3>1, <3>2, <3>3, <3>4
  <2> QED BY <2>1, <2>5, <2>6, <2>7 DEF c
<1>9. \A i \in 1 .. n : i <= k => Earlier(q[i], m)
  <2> SUFFICES ASSUME NEW i \in 1 .. n, i <= k PROVE Earlier(q[i], m)
    OBVIOUS
  <2>1. q[i][1] <= m[1] /\ (q[i][1] = m[1] => q[i][2] < m[2])
    BY <1>6
  <2>2. q[i][1] < m[1] \/ (q[i][1] = m[1] /\ q[i][2] < m[2])
    BY <1>2, <1>3, <2>1
  <2> QED BY <1>1, <2>2, EarlierFacts
<1>10. \A i \in 1 .. n : i > k => Earlier(m, q[i])
  <2> SUFFICES ASSUME NEW i \in 1 .. n, i > k PROVE Earlier(m, q[i])
    OBVIOUS
  <2>1. m[1] < q[i][1]
    BY <1>2, <1>3, <1>5, <1>6
  <2> QED BY <1>1, <2>1, EarlierFacts
<1>11. Sorted(r)
  <2> SUFFICES ASSUME NEW i \in 1 .. n + 1, NEW j \in 1 .. n + 1, i < j PROVE Earlier(r[i], r[j])
    BY <1>8 DEF Sorted
  <2>0. \A x, y \in 1 .. n : x < y => Earlier(q[x], q[y])
    BY DEF Sorted
  <2>1. CASE j <= k
    <3>1. i \in 1 .. n /\ j \in 1 .. n /\ i <= k
      BY <1>1, <1>5, <2>1
    <3> QED BY <1>8, <2>0, <2>1, <3>1
  <2>2. CASE j = k + 1
    <3>1. i \in 1 .. n /\ i <= k /\ ~(j <= k)
      BY <1>1, <1>5, <2>2
    <3> QED BY <1>8, <1>9, <2>2, <3>1
  <2>3. CASE j > k + 1
    <3>1. j - 1 \in 1 .. n /\ j - 1 > k /\ ~(j <= k) /\ j # k + 1 /\ r[j] = q[j - 1]
      BY <1>1, <1>5, <1>8, <2>3
    <3>2. CASE i <= k
      <4>1. i \in 1 .. n /\ i < j - 1 /\ r[i] = q[i]
        BY <1>1, <1>5, <1>8, <2>3, <3>2
      <4> QED BY <2>0, <3>1, <4>1
    <3>3. CASE i = k + 1
      <4>1. r[i] = m
        BY <1>5, <1>8, <3>3
      <4> QED BY <1>10, <3>1, <4>1
    <3>4. CASE i > k + 1
      <4>1. i - 1 \in 1 .. n /\ i - 1 < j - 1 /\ r[i] = q[i - 1]
        BY <1>1, <1>5, <1>8, <3>4
      <4> QED BY <2>0, <3>1, <4>1
    <3> QED BY <1>5, <3>2, <3>3, <3>4
  <2> QED BY <1>5, <2>1, <2>2, <2>3
<1>12. Range(r) = Range(q) \cup {m}
  <2>1. DOMAIN r = 1 .. n + 1
    BY <1>8
  <2>2. ASSUME NEW i \in 1 .. n + 1 PROVE r[i] \in Range(q) \cup {m}
    <3>1. i <= k => i \in 1 .. n
      BY <1>1, <1>5
    <3>2. ~(i <= k) /\ i # k + 1 => i - 1 \in 1 .. n
      BY <1>1, <1>5
    <3> QED BY <1>1, <1>8, <3>1, <3>2 DEF Range
  <2>3. m \in Range(r)
    <3>1. k + 1 \in 1 .. n + 1 /\ ~(k + 1 <= k)
      BY <1>1, <1>5
    <3>2. r[k + 1] = m
      BY <1>8, <3>1
    <3> QED BY <2>1, <3>1, <3>2 DEF Range
  <2>4. ASSUME NEW i \in 1 .. n PROVE q[i] \in Range(r)
    <3>1. CASE i <= k
      <4>1. i \in 1 .. n + 1 /\ r[i] = q[i]
        BY <1>1, <1>8, <3>1
      <4> QED BY <2>1, <4>1 DEF Range
    <3>2. CASE i > k
      <4>1. i + 1 \in 1 .. n + 1 /\ ~(i + 1 <= k) /\ i + 1 # k + 1 /\ (i + 1) - 1 = i
        BY <1>1, <1>5, <3>2
      <4>2. r[i + 1] = q[i]
        BY <1>8, <4>1
      <4> QED BY <2>1, <4>1, <4>2 DEF Range
    <3> QED BY <1>5, <3>1, <3>2
  <2> QED BY <1>1, <2>1, <2>2, <2>3, <2>4 DEF Range
<1> QED BY <1>8, <1>11, <1>12 DEF r


\* Whatever gives a thread an mtask gives it one that has not run.
LEMMA FlownSame ==
  ASSUME MessageInv, UNCHANGED <<t_queue, finished>>, finished \subseteq Tasks,
         \A th \in Threads :
           work'[th].task # work[th].task => t_queue[th] = <<>> /\ work'[th].task \notin finished
  PROVE  Flown' = Flown
<1> SUFFICES ASSUME NEW m \in AllMessages, m[1] \in finished, NEW th \in Threads
             PROVE  (work'[th].task = m[1] => m[2] <= Messages[m[1]] - Len(t_queue[th]))
                    <=> (work[th].task = m[1] => m[2] <= Messages[m[1]] - Len(t_queue[th]))
  BY DEF Flown, AllMessages, Evaluation!AllMessages
<1>1. CASE work'[th].task = work[th].task
  BY <1>1
<1>2. CASE work'[th].task # work[th].task
  <2>1. Len(t_queue[th]) = 0 /\ work'[th].task # m[1]
    BY <1>2, EmptySeq
  <2>2. m[1] \in Tasks /\ m[2] \in 1 .. Messages[m[1]]
    BY MessageFacts
  <2>3. Messages[m[1]] \in Nat
    BY <2>2, ThreadsAssumption
  <2> QED BY <2>1, <2>2, <2>3
<1> QED BY <1>1, <1>2

\* The steps that leave the queues of messages alone.
LEMMA QuietStep ==
  ASSUME MessageInv, UNCHANGED <<t_queue, m_queue, printed>>,
         \A th \in Threads :
           /\ pc'[th] = "after" => pc[th] = "after" /\ work'[th].task = work[th].task
           /\ pc'[th] # "after" => t_queue[th] = <<>>,
         Busy' => /\ Busy /\ finished' = finished /\ finished \subseteq Tasks
                  /\ pc'[Main] # "process" => pc[Main] # "process"
                  /\ \A th \in Threads :
                       work'[th].task # work[th].task => work'[th].task \notin finished,
         ~Busy' => m_queue = <<>>
  PROVE  MessageInv'
<1>1. Held'
  BY DEF MessageInv, Held, AllMessages, Evaluation!AllMessages
<1>2. Kept'
  <2>1. m_queue \in Seq(AllMessages) /\ Sorted(m_queue) /\ printed \in Seq(AllMessages)
    BY DEF MessageInv, Kept
  <2>2. /\ (m_queue \in Seq(AllMessages))' /\ Sorted(m_queue)' /\ (printed \in Seq(AllMessages))'
    BY <2>1 DEF Sorted, Earlier, Evaluation!Earlier, AllMessages, Evaluation!AllMessages
  <2>3. ASSUME Busy'
        PROVE  /\ Range(m_queue) \cap Range(printed) = {}
               /\ Range(m_queue) \cup Range(printed) = Flown'
               /\ pc'[Main] # "process" => printed = <<>>
    <3>1. ASSUME NEW th \in Threads, work'[th].task # work[th].task
          PROVE  t_queue[th] = <<>> /\ work'[th].task \notin finished
      BY <2>3, <3>1
    <3>2. Flown' = Flown
      BY <2>3, <3>1, FlownSame
    <3> QED BY <2>3, <3>2 DEF MessageInv, Kept
  <2> QED BY <2>2, <2>3 DEF Kept, Range
<1> QED BY <1>1, <1>2 DEF MessageInv

LEMMA QuietSteps ==
  ASSUME EvalInv, MessageInv,
         \/ CompileStep \/ Notify \/ LaunchOnWorker \/ RunInline \/ Await \/ Return \/ Destroy
         \/ Delete \/ WakeUp \/ Join
         \/ \E w \in Workers : Dequeue(w) \/ Check(w) \/ WakeUpSpuriously(w)
         \/ \E th \in Threads : (\E t \in Tasks : Signal(th, t)) \/ RunNext(th) \/ SignalFinal(th)
  PROVE  MessageInv'
<1>1. /\ pc \in [Threads -> Places] /\ work \in [Threads -> Rec] /\ finished \subseteq Tasks
      /\ WorkerPlace /\ MainPlace /\ Progress /\ ScheduleInv /\ PoolInv
  BY DEF EvalInv, PoolInv, ThreadTypes
<1>2. /\ \A th \in Threads : pc[th] # "after" => t_queue[th] = <<>>
      /\ ~Busy => m_queue = <<>>
  BY DEF MessageInv, Held, Kept
<1>3. NoTask \notin finished
  BY <1>1, PackAssumption
<1>4. CASE CompileStep
  <2>1. UNCHANGED <<t_queue, m_queue, printed, pc, work, finished>>
    BY <1>4 DEF CompileStep, taskVars
  <2>2. Busy' <=> Busy
    BY <2>1 DEF Busy
  <2> QED BY <1>1, <1>2, <2>1, <2>2, QuietStep
<1>5. CASE Notify \/ LaunchOnWorker \/ Await \/ Return \/ Destroy \/ Delete \/ WakeUp \/ Join
  <2>1. UNCHANGED <<t_queue, m_queue, printed, work, finished>>
    BY <1>5 DEF Notify, LaunchOnWorker, Await, Return, Destroy, Delete, WakeUp, Join, taskVars
  <2>2. /\ pc[Main] # "after" /\ \A x \in Threads : pc'[x] = IF x = Main THEN pc'[Main] ELSE pc[x]
        /\ pc'[Main] # "after" /\ (Busy' => Busy)
        /\ pc'[Main] # "process" => pc[Main] # "process" \/ ~Busy'
        /\ ~Busy' => m_queue = <<>>
    BY <1>1, <1>2, <1>5, WhoIsWho
    DEF Notify, LaunchOnWorker, Await, Return, Destroy, Delete, WakeUp, Join, Goto, Busy
  <2> QED BY <1>1, <1>2, <2>1, <2>2, WhoIsWho, QuietStep
<1>6. CASE RunInline
  <2>1. /\ UNCHANGED <<t_queue, m_queue, printed, finished>>
        /\ pc[Main] = "launch" /\ pc' = [pc EXCEPT ![Main] = "run"]
    BY <1>6 DEF RunInline, Goto, taskVars
  <2>2. Busy /\ Busy' /\ \A x \in Threads : pc'[x] = IF x = Main THEN "run" ELSE pc[x]
    BY <1>1, <2>1, WhoIsWho DEF Busy
  <2>3. \A x \in Threads : work'[x].task # work[x].task => work'[x].task \notin finished
    <3>1. at = RootsForPool /\ work' = [work EXCEPT ![Main] = [task |-> execMTasks[at + 1], even |-> even_cycle]]
      BY <1>6 DEF RunInline
    <3>2. RootOf(Main) = execMTasks[at + 1] /\ ToLaunch(Main)
      BY <2>1, <3>1 DEF RootOf, PlaceOf, ToLaunch
    <3>3. Has(Main)
      BY <1>1, <3>1, PackAssumption DEF Has, PoolInv, ThreadTypes
    <3>4. RootOf(Main) \notin finished
      BY <1>1, <3>2, <3>3, WhoIsWho DEF PoolInv, Pending
    <3> QED BY <1>1, <3>1, <3>2, <3>4, WhoIsWho
  <2>4. \A x \in Threads : (pc'[x] # "after" /\ pc[x] # "after") \/ (pc'[x] = pc[x] /\ work'[x] = work[x])
    BY <1>1, <1>6, <2>1, <2>2, WhoIsWho DEF RunInline
  <2> QED BY <1>1, <1>2, <2>1, <2>2, <2>3, <2>4, WhoIsWho, QuietStep
<1>7. ASSUME NEW w \in Workers, Dequeue(w) PROVE MessageInv'
  <2>1. /\ UNCHANGED <<t_queue, m_queue, printed, finished>>
        /\ pc[w] = "dequeue" /\ pc' \in {pc, [pc EXCEPT ![w] = "check"]}
    BY <1>7 DEF Dequeue, Goto, taskVars
  <2>2. /\ pc'[Main] = pc[Main] /\ (Busy' <=> Busy)
        /\ \A x \in Threads : pc'[x] = pc[x] \/ (x = w /\ pc'[x] = "check")
    BY <1>1, <2>1, WhoIsWho DEF Busy
  <2>3. ASSUME Busy, NEW x \in Threads, work'[x].task # work[x].task PROVE work'[x].task \notin finished
    <3>1. m_ready[w] # <<>> /\ work' = [work EXCEPT ![w] = Head(m_ready[w])]
      BY <1>7, <2>3 DEF Dequeue
    <3>2. RootOf(w) \notin finished /\ m_ready[w] = <<[task |-> RootOf(w), even |-> even_cycle]>>
      BY <1>1, <2>3, <3>1 DEF PoolInv, Queued
    <3>3. Head(m_ready[w]).task = RootOf(w)
      BY <3>2
    <3>4. work'[x] = IF x = w THEN Head(m_ready[w]) ELSE work[x]
      BY <1>1, <3>1
    <3> QED BY <2>3, <3>2, <3>3, <3>4
  <2>4. \A x \in Threads : (pc'[x] # "after" /\ pc[x] # "after") \/ (pc'[x] = pc[x] /\ work'[x] = work[x])
    BY <1>1, <1>7, <2>1, <2>2 DEF Dequeue
  <2> QED BY <1>1, <1>2, <2>1, <2>2, <2>3, <2>4, QuietStep
<1>8. ASSUME NEW w \in Workers, Check(w) \/ WakeUpSpuriously(w) PROVE MessageInv'
  <2>1. /\ UNCHANGED <<t_queue, m_queue, printed, work, finished>>
        /\ pc'[Main] = pc[Main] /\ (Busy' <=> Busy)
        /\ \A x \in Threads : pc'[x] = pc[x] \/ (pc[x] # "after" /\ pc'[x] # "after")
    BY <1>1, <1>8, WhoIsWho DEF Check, WakeUpSpuriously, Goto, taskVars, Busy
  <2> QED BY <1>1, <1>2, <2>1, QuietStep
<1>9. ASSUME NEW th \in Threads, NEW t \in Tasks, Signal(th, t) PROVE MessageInv'
  <2>1. UNCHANGED <<t_queue, m_queue, printed, work, finished, pc>> /\ (Busy' <=> Busy)
    BY <1>9 DEF Signal, Busy
  <2> QED BY <1>1, <1>2, <2>1, QuietStep
<1>10. ASSUME NEW th \in Threads, RunNext(th) \/ SignalFinal(th) PROVE MessageInv'
  <2>1. /\ UNCHANGED <<t_queue, m_queue, printed, finished>>
        /\ pc[th] = "after" /\ t_queue[th] = <<>>
        /\ pc' = [pc EXCEPT ![th] = pc'[th]] /\ pc'[th] \in {"run", "await", "dequeue"}
        /\ th = Main => pc'[th] \in {"run", "await"}
        /\ \/ work' = [work EXCEPT ![th] = NoWork]
           \/ work' = [work EXCEPT ![th] = [task |-> packNext[work[th].task], even |-> work[th].even]]
    BY <1>1, <1>10 DEF RunNext, SignalFinal, Goto, Flushed, taskVars
  <2>2. /\ \A x \in Threads : x # th => pc'[x] = pc[x] /\ work'[x] = work[x]
        /\ work'[th].task \in {NoTask, packNext[work[th].task]}
    BY <1>1, <2>1 DEF NoWork
  <2>3. Carries(th)
    BY <1>1, <2>1, AtWork
  <2>4. Busy /\ packNext[work[th].task] \notin finished
    BY <1>1, <2>1, <2>3, Carried DEF Progress
  <2>5. Busy' /\ (pc'[Main] # "process" => pc[Main] # "process")
    BY <1>1, <2>1, <2>2, <2>4, WhoIsWho DEF Busy
  <2> QED BY <1>1, <1>2, <1>3, <2>1, <2>2, <2>4, <2>5, QuietStep
<1> QED BY <1>4, <1>5, <1>6, <1>7, <1>8, <1>9, <1>10

LEMMA RangeFacts ==
  ASSUME NEW S, NEW q \in Seq(S)
  PROVE  /\ q = <<>> => Range(q) = {}
         /\ \A x \in S : Append(q, x) \in Seq(S) /\ Range(Append(q, x)) = Range(q) \cup {x}
         /\ q # <<>> => /\ Head(q) \in S /\ Tail(q) \in Seq(S)
                        /\ Range(q) = {Head(q)} \cup Range(Tail(q))
                        /\ Len(q) \in Nat \ {0} /\ Len(Tail(q)) = Len(q) - 1 /\ Head(q) = q[1]
                        /\ \A i \in 1 .. Len(q) - 1 : Tail(q)[i] = q[i + 1]
<1>1. Len(q) \in Nat /\ DOMAIN q = 1 .. Len(q) /\ Range(q) = {q[i] : i \in 1 .. Len(q)}
  BY DEF Range
<1>2. q = <<>> => Range(q) = {}
  BY DEF Range
<1>3. ASSUME NEW x \in S PROVE Append(q, x) \in Seq(S) /\ Range(Append(q, x)) = Range(q) \cup {x}
  <2>1. /\ Append(q, x) \in Seq(S) /\ Len(Append(q, x)) = Len(q) + 1
        /\ \A i \in 1 .. Len(q) : Append(q, x)[i] = q[i]
        /\ Append(q, x)[Len(q) + 1] = x
    BY AppendProperties
  <2>2. DOMAIN Append(q, x) = 1 .. Len(q) + 1
    BY <2>1
  <2>3. Range(Append(q, x)) = {Append(q, x)[i] : i \in 1 .. Len(q) + 1}
    BY <2>2 DEF Range
  <2>4. \A i : i \in 1 .. Len(q) + 1 <=> i \in 1 .. Len(q) \/ i = Len(q) + 1
    BY <1>1
  <2> QED BY <1>1, <2>1, <2>3, <2>4
<1>4. ASSUME q # <<>>
      PROVE  /\ Head(q) \in S /\ Tail(q) \in Seq(S)
             /\ Range(q) = {Head(q)} \cup Range(Tail(q))
             /\ Len(q) \in Nat \ {0} /\ Len(Tail(q)) = Len(q) - 1 /\ Head(q) = q[1]
             /\ \A i \in 1 .. Len(q) - 1 : Tail(q)[i] = q[i + 1]
  <2>1. /\ Head(q) \in S /\ Tail(q) \in Seq(S) /\ Len(Tail(q)) = Len(q) - 1
        /\ Len(q) \in Nat \ {0} /\ Head(q) = q[1]
        /\ \A i \in 1 .. Len(q) - 1 : Tail(q)[i] = q[i + 1]
    BY <1>4, HeadTailProperties, EmptySeq
  <2>2. DOMAIN Tail(q) = 1 .. Len(q) - 1
    BY <2>1
  <2>3. Range(Tail(q)) = {Tail(q)[i] : i \in 1 .. Len(q) - 1}
    BY <2>2 DEF Range
  <2>4. ASSUME NEW i \in 1 .. Len(q) PROVE q[i] \in {Head(q)} \cup Range(Tail(q))
    <3>1. CASE i = 1
      BY <2>1, <3>1
    <3>2. CASE i # 1
      <4>1. i - 1 \in 1 .. Len(q) - 1 /\ (i - 1) + 1 = i
        BY <1>1, <3>2
      <4>2. Tail(q)[i - 1] = q[i]
        BY <2>1, <4>1
      <4> QED BY <2>3, <4>1, <4>2
    <3> QED BY <3>1, <3>2
  <2>5. Head(q) \in Range(q)
    BY <1>1, <2>1
  <2>6. ASSUME NEW i \in 1 .. Len(q) - 1 PROVE Tail(q)[i] \in Range(q)
    <3>1. i + 1 \in 1 .. Len(q)
      BY <1>1
    <3> QED BY <1>1, <2>1, <3>1
  <2> QED BY <1>1, <2>1, <2>3, <2>4, <2>5, <2>6
<1> QED BY <1>2, <1>3, <1>4

LEMMA SortedTail ==
  ASSUME NEW q \in Seq(AllMessages), Sorted(q), q # <<>>
  PROVE  /\ Sorted(Tail(q)) /\ Head(q) \notin Range(Tail(q))
         /\ \A m \in Range(Tail(q)) : Earlier(Head(q), m)
<1>1. /\ Len(q) \in Nat \ {0} /\ Len(Tail(q)) = Len(q) - 1 /\ Head(q) = q[1]
      /\ \A i \in 1 .. Len(q) - 1 : Tail(q)[i] = q[i + 1]
      /\ Tail(q) \in Seq(AllMessages) /\ Head(q) \in AllMessages
  BY RangeFacts
<1>2. \A i \in 1 .. Len(q) - 1 : i + 1 \in 1 .. Len(q) /\ 1 < i + 1
  BY <1>1
<1>3. Range(Tail(q)) = {Tail(q)[i] : i \in 1 .. Len(q) - 1}
  <2>1. DOMAIN Tail(q) = 1 .. Len(q) - 1
    BY <1>1
  <2> QED BY <2>1 DEF Range
<1>4. \A i, j \in 1 .. Len(q) : i < j => Earlier(q[i], q[j])
  BY DEF Sorted
<1>5. 1 \in 1 .. Len(q)
  BY <1>1
<1>6. \A m \in Range(Tail(q)) : Earlier(Head(q), m)
  BY <1>1, <1>2, <1>3, <1>4, <1>5
<1>7. Sorted(Tail(q))
  <2> SUFFICES ASSUME NEW i \in 1 .. Len(q) - 1, NEW j \in 1 .. Len(q) - 1, i < j
               PROVE  Earlier(Tail(q)[i], Tail(q)[j])
    BY <1>1 DEF Sorted
  <2>1. i + 1 < j + 1
    OBVIOUS
  <2> QED BY <1>1, <1>2, <1>4, <2>1
<1> QED BY <1>1, <1>6, <1>7, EarlierFacts

\* A body leaves all its messages on its thread: none has left it yet.
LEMMA RunBodyMessages ==
  ASSUME EvalInv, MessageInv, NEW th \in Threads, RunBody(th)
  PROVE  MessageInv'
<1> DEFINE t == work[th].task
           q == [i \in 1 .. Messages[t] |-> <<t, i>>]
<1>1. /\ pc \in [Threads -> Places] /\ ScheduleInv /\ PoolInv /\ MainPlace
      /\ t_queue \in [Threads -> Seq(AllMessages)]
  BY DEF EvalInv, PoolInv, ThreadTypes, MessageInv, Held
<1>2. /\ UNCHANGED <<m_queue, printed, work>> /\ finished' = finished \cup {t}
      /\ pc[th] = "run" /\ \A x \in Threads : pc'[x] = IF x = th THEN "after" ELSE pc[x]
      /\ t_queue' = [t_queue EXCEPT ![th] = t_queue[th] \o q]
  BY <1>1 DEF RunBody, Goto, MessagesOf
<1>3. Carries(th)
  BY <1>1, <1>2, AtWork
<1>4. t \in Tasks /\ Busy /\ t \notin finished
  BY <1>1, <1>2, <1>3, Carried DEF PoolInv, Progress
<1>5. \A x \in Threads : x # th => work[x].task # t
  BY <1>1, <1>3, CarriedApart DEF Carries
<1>6. Messages[t] \in Nat
  BY <1>4, ThreadsAssumption
<1>7. q \in Seq(AllMessages) /\ Len(q) = Messages[t]
  <2>1. \A i \in 1 .. Messages[t] : <<t, i>> \in AllMessages
    BY <1>4, MessageFacts
  <2>2. q \in [1 .. Messages[t] -> AllMessages]
    BY <2>1
  <2> HIDE DEF q, t
  <2>3. q \in Seq(AllMessages) /\ DOMAIN q = 1 .. Messages[t]
    BY <1>6, <2>2
  <2> QED BY <1>6, <2>3, LenProperties
<1>8. /\ t_queue' \in [Threads -> Seq(AllMessages)]
      /\ \A x \in Threads : t_queue'[x] = IF x = th THEN q ELSE t_queue[x]
  <2>1. t_queue[th] = <<>>
    BY <1>2 DEF MessageInv, Held
  <2>2. t_queue[th] \o q = q
    BY <1>7, <2>1, ConcatEmptySeq
  <2> HIDE DEF q
  <2> QED BY <1>1, <1>2, <1>7, <2>2
<1>9. Held'
  <2> SUFFICES ASSUME NEW x \in Threads
      PROVE IF pc'[x] = "after"
            THEN LET u == work[x].task
                     n == Len(t_queue'[x])
                 IN /\ n <= Messages[u]
                    /\ \A i \in 1 .. n : t_queue'[x][i] = <<u, (Messages[u] - n) + i>>
            ELSE t_queue'[x] = <<>>
    BY <1>2, <1>8 DEF Held, AllMessages, Evaluation!AllMessages
  <2>1. CASE x = th
    <3>1. \A i \in 1 .. Messages[t] : (Messages[t] - Messages[t]) + i = i
      BY <1>6
    <3>2. t_queue'[th] = q /\ Len(q) = Messages[t] /\ \A i \in 1 .. Messages[t] : q[i] = <<t, i>>
      BY <1>7, <1>8
    <3>3. work[x].task = t /\ pc'[x] = "after" /\ t_queue'[x] = t_queue'[th]
      BY <1>2, <2>1
    <3> HIDE DEF t, q
    <3>4. Messages[t] <= Messages[t]
      BY <1>6
    <3> QED BY <3>1, <3>2, <3>3, <3>4
  <2>2. CASE x # th
    BY <1>2, <1>8, <2>2 DEF MessageInv, Held
  <2> QED BY <2>1, <2>2
<1>10. Flown' = Flown
  <2> SUFFICES ASSUME NEW m \in AllMessages
      PROVE (/\ m[1] \in finished'
             /\ \A x \in Threads : work[x].task = m[1] => m[2] <= Messages[m[1]] - Len(t_queue'[x]))
            <=> /\ m[1] \in finished
                /\ \A x \in Threads : work[x].task = m[1] => m[2] <= Messages[m[1]] - Len(t_queue[x])
    BY <1>2 DEF Flown, AllMessages, Evaluation!AllMessages
  <2>1. m[2] \in 1 .. Messages[m[1]]
    BY MessageFacts
  <2>2. CASE m[1] = t
    <3>1. ~(m[2] <= Messages[t] - Messages[t])
      BY <1>6, <2>1, <2>2
    <3>2. Len(t_queue'[th]) = Messages[t]
      BY <1>7, <1>8
    <3> QED BY <1>4, <2>2, <3>1, <3>2
  <2>3. CASE m[1] # t
    BY <1>2, <1>8, <2>3
  <2> QED BY <2>2, <2>3
<1>11. Busy' /\ (pc'[Main] # "process" => pc[Main] # "process")
  BY <1>2, <1>4, WhoIsWho DEF Busy
<1>12. Kept'
  <2>1. /\ m_queue \in Seq(AllMessages) /\ Sorted(m_queue) /\ printed \in Seq(AllMessages)
        /\ Range(m_queue) \cap Range(printed) = {}
        /\ Range(m_queue) \cup Range(printed) = Flown'
        /\ pc'[Main] # "process" => printed = <<>>
    BY <1>4, <1>10, <1>11 DEF MessageInv, Kept
  <2>2. /\ (m_queue \in Seq(AllMessages))' /\ Sorted(m_queue)' /\ (printed \in Seq(AllMessages))'
    BY <1>2, <2>1 DEF Sorted, Earlier, Evaluation!Earlier, AllMessages, Evaluation!AllMessages
  <2> QED BY <1>2, <1>11, <2>1, <2>2 DEF Kept, Range
<1> QED BY <1>9, <1>12 DEF MessageInv

\* A message on its way from a thread's queue to the common one.
LEMMA FlushMessages ==
  ASSUME EvalInv, MessageInv, NEW th \in Threads, Flush(th)
  PROVE  MessageInv'
<1> DEFINE t == work[th].task
           q == t_queue[th]
           n == Len(q)
           h == Head(q)
<1>1. /\ ScheduleInv /\ PoolInv /\ MainPlace /\ Progress /\ Through
      /\ t_queue \in [Threads -> Seq(AllMessages)]
      /\ m_queue \in Seq(AllMessages) /\ Sorted(m_queue)
  BY DEF EvalInv, PoolInv, CounterInv, MessageInv, Held, Kept
<1>2. /\ UNCHANGED <<printed, work, finished, pc>> /\ pc[th] = "after" /\ q # <<>>
      /\ m_queue' = Inserted(m_queue, h)
      /\ t_queue' = [t_queue EXCEPT ![th] = Tail(q)]
  BY <1>1 DEF Flush
<1>3. Carries(th)
  BY <1>1, <1>2, AtWork
<1>4. t \in Tasks /\ Busy /\ t \in finished
  BY <1>1, <1>2, <1>3, Carried DEF Progress
<1>5. \A x \in Threads : x # th => work[x].task # t
  BY <1>1, <1>3, CarriedApart DEF Carries
<1>6. Messages[t] \in Nat
  BY <1>4, ThreadsAssumption
<1>7. /\ q \in Seq(AllMessages) /\ h \in AllMessages /\ Tail(q) \in Seq(AllMessages)
      /\ n \in Nat \ {0} /\ Len(Tail(q)) = n - 1 /\ h = q[1]
      /\ \A i \in 1 .. n - 1 : Tail(q)[i] = q[i + 1]
  BY <1>1, <1>2, RangeFacts
<1>8. n <= Messages[t] /\ \A i \in 1 .. n : q[i] = <<t, (Messages[t] - n) + i>>
  BY <1>2 DEF MessageInv, Held
<1>9. h = <<t, (Messages[t] - n) + 1>>
  <2>1. 1 \in 1 .. n
    BY <1>7
  <2> QED BY <1>7, <1>8, <2>1
<1> HIDE DEF t, q, n, h
<1>10. \A x \in Threads : t_queue'[x] = IF x = th THEN Tail(q) ELSE t_queue[x]
  BY <1>1, <1>2
<1>11. Held'
  <2>1. t_queue' \in [Threads -> Seq(AllMessages)]
    BY <1>1, <1>2, <1>7
  <2> SUFFICES ASSUME NEW x \in Threads
      PROVE IF pc[x] = "after"
            THEN LET u == work[x].task
                     k == Len(t_queue'[x])
                 IN /\ k <= Messages[u]
                    /\ \A i \in 1 .. k : t_queue'[x][i] = <<u, (Messages[u] - k) + i>>
            ELSE t_queue'[x] = <<>>
    BY <1>2, <2>1 DEF Held, AllMessages, Evaluation!AllMessages
  <2>2. CASE x = th
    <3>1. /\ n - 1 <= Messages[t]
          /\ \A i \in 1 .. n - 1 : /\ i + 1 \in 1 .. n
                                   /\ (Messages[t] - n) + (i + 1) = (Messages[t] - (n - 1)) + i
      <4>1. \A b, y \in Nat : y \in 1 .. b =>
              /\ y - 1 <= b
              /\ \A i \in 1 .. y - 1 : i + 1 \in 1 .. y /\ (b - y) + (i + 1) = (b - (y - 1)) + i
        OBVIOUS
      <4>2. n \in 1 .. Messages[t] /\ n \in Nat
        BY <1>6, <1>7, <1>8
      <4> QED BY <1>6, <4>1, <4>2
    <3>2. \A i \in 1 .. n - 1 : Tail(q)[i] = <<t, (Messages[t] - (n - 1)) + i>>
      BY <1>7, <1>8, <3>1
    <3>3. t_queue'[x] = Tail(q) /\ pc[x] = "after" /\ work[x].task = t
      BY <1>2, <1>10, <2>2 DEF t
    <3> QED BY <1>7, <3>1, <3>2, <3>3
  <2>3. CASE x # th
    BY <1>10, <2>3 DEF MessageInv, Held
  <2> QED BY <2>2, <2>3
<1>12. \A m \in AllMessages : m \in Flown' <=> m \in Flown \/ m = h
  <2> SUFFICES ASSUME NEW m \in AllMessages
      PROVE (/\ m[1] \in finished
             /\ \A x \in Threads : work[x].task = m[1] => m[2] <= Messages[m[1]] - Len(t_queue'[x]))
            <=> \/ /\ m[1] \in finished
                   /\ \A x \in Threads : work[x].task = m[1] => m[2] <= Messages[m[1]] - Len(t_queue[x])
                \/ m = h
    BY <1>2 DEF Flown, AllMessages, Evaluation!AllMessages
  <2>1. m[2] \in 1 .. Messages[m[1]] /\ m = <<m[1], m[2]>>
    BY MessageFacts
  <2>2. CASE m[1] = t
    <3>1. m[2] <= Messages[t] - (n - 1) <=> m[2] <= Messages[t] - n \/ m[2] = (Messages[t] - n) + 1
      BY <1>6, <1>7, <1>8, <2>1, <2>2
    <3>2. Len(t_queue'[th]) = n - 1 /\ Len(t_queue[th]) = n /\ work[th].task = t
      BY <1>7, <1>10 DEF n, q, t
    <3>3. m = h <=> m[2] = (Messages[t] - n) + 1
      BY <1>9, <2>1, <2>2
    <3>4. \A x \in Threads : work[x].task = m[1] <=> x = th
      BY <1>5, <2>2, <3>2
    <3> QED BY <1>4, <2>2, <3>1, <3>2, <3>3, <3>4
  <2>3. CASE m[1] # t
    <3>1. m # h /\ \A x \in Threads : work[x].task = m[1] => x # th
      BY <1>9, <2>3 DEF t
    <3> QED BY <1>10, <2>3, <3>1
  <2> QED BY <2>2, <2>3
<1>13. /\ Range(m_queue) \cap Range(printed) = {} /\ Range(m_queue) \cup Range(printed) = Flown
       /\ pc[Main] # "process" /\ printed = <<>>
  <2>1. pc[Main] # "process"
    BY <1>1, <1>3 DEF Through
  <2> QED BY <1>4, <2>1 DEF MessageInv, Kept
<1>14. Range(m_queue) = Flown /\ Range(printed) = {}
  BY <1>13 DEF Range
<1>15. \A i \in 1 .. Len(m_queue) : m_queue[i][1] = h[1] => m_queue[i][2] < h[2]
  <2> SUFFICES ASSUME NEW i \in 1 .. Len(m_queue), m_queue[i][1] = h[1]
               PROVE  m_queue[i][2] < h[2]
    OBVIOUS
  <2>1. m_queue[i] \in Flown
    <3>1. i \in DOMAIN m_queue
      BY <1>1
    <3> QED BY <1>14, <3>1 DEF Range
  <2>2. m_queue[i][2] <= Messages[t] - n
    BY <1>9, <2>1 DEF Flown, t, n, q
  <2>3. m_queue[i][2] \in Nat
    BY <1>1, MessageFacts
  <2> QED BY <1>6, <1>7, <1>9, <2>2, <2>3
<1>16. /\ m_queue' \in Seq(AllMessages) /\ Sorted(m_queue') /\ Range(m_queue') = Flown \cup {h}
  BY <1>1, <1>2, <1>7, <1>14, <1>15, InsertedFacts
<1>17. Flown' = Flown \cup {h}
  <2>1. \A m \in Flown' : m \in AllMessages
    BY DEF Flown, AllMessages, Evaluation!AllMessages
  <2>2. \A m \in Flown : m \in AllMessages
    BY DEF Flown
  <2> QED BY <1>7, <1>12, <2>1, <2>2
<1>18. Kept'
  <2>1. /\ Sorted(m_queue') <=> Sorted(m_queue)'
        /\ (m_queue \in Seq(AllMessages))' <=> m_queue' \in Seq(AllMessages)
        /\ (printed \in Seq(AllMessages))' <=> printed' \in Seq(AllMessages)
    BY DEF Sorted, Earlier, Evaluation!Earlier, AllMessages, Evaluation!AllMessages
  <2>2. Busy' /\ pc'[Main] # "process"
    BY <1>2, <1>4, <1>13 DEF Busy
  <2>3. Range(m_queue)' = Range(m_queue') /\ Range(printed)' = Range(printed)
    BY <1>2 DEF Range
  <2> QED BY <1>2, <1>13, <1>14, <1>16, <1>17, <2>1, <2>2, <2>3 DEF Kept, MessageInv
<1> QED BY <1>11, <1>18 DEF MessageInv

LEMMA ProcessMessages ==
  ASSUME EvalInv, MessageInv, Process
  PROVE  MessageInv'
<1>1. /\ UNCHANGED <<pc, work, finished, t_queue>> /\ pc[Main] = "process" /\ m_queue # <<>>
      /\ m_queue' = Tail(m_queue) /\ printed' = Append(printed, Head(m_queue))
  BY DEF Process
<1>2. Busy /\ Busy'
  BY <1>1 DEF Busy
<1>3. /\ m_queue \in Seq(AllMessages) /\ Sorted(m_queue) /\ printed \in Seq(AllMessages)
      /\ Range(m_queue) \cap Range(printed) = {} /\ Range(m_queue) \cup Range(printed) = Flown
  BY <1>2 DEF MessageInv, Kept
<1>4. /\ m_queue' \in Seq(AllMessages) /\ Head(m_queue) \in AllMessages
      /\ Range(m_queue) = {Head(m_queue)} \cup Range(m_queue')
  BY <1>1, <1>3, RangeFacts
<1>5. Sorted(m_queue') /\ Head(m_queue) \notin Range(m_queue')
  BY <1>1, <1>3, SortedTail
<1>6. printed' \in Seq(AllMessages) /\ Range(printed') = Range(printed) \cup {Head(m_queue)}
  BY <1>1, <1>3, <1>4, RangeFacts
<1>7. Flown' = Flown
  BY <1>1 DEF Flown, AllMessages, Evaluation!AllMessages
<1>8. Held'
  BY <1>1 DEF MessageInv, Held, AllMessages, Evaluation!AllMessages
<1>9. Kept'
  <2>1. /\ Sorted(m_queue') <=> Sorted(m_queue)'
        /\ (m_queue \in Seq(AllMessages))' <=> m_queue' \in Seq(AllMessages)
        /\ (printed \in Seq(AllMessages))' <=> printed' \in Seq(AllMessages)
    BY DEF Sorted, Earlier, Evaluation!Earlier, AllMessages, Evaluation!AllMessages
  <2>2. Range(m_queue)' = Range(m_queue') /\ Range(printed)' = Range(printed')
    BY DEF Range
  <2> QED BY <1>1, <1>2, <1>3, <1>4, <1>5, <1>6, <1>7, <2>1, <2>2 DEF Kept
<1> QED BY <1>8, <1>9 DEF MessageInv

LEMMA EvalMessages ==
  ASSUME EvalInv, MessageInv, Eval
  PROVE  MessageInv'
<1>1. pc \in [Threads -> Places]
  BY DEF EvalInv, PoolInv, ThreadTypes
<1>2. /\ UNCHANGED <<work, t_queue, m_queue>> /\ finished' = {} /\ printed' = <<>>
      /\ pc[Main] = "idle" /\ \A x \in Threads : pc'[x] = IF x = Main THEN "launch" ELSE pc[x]
  BY <1>1, WhoIsWho DEF Eval, Goto
<1>3. ~Busy /\ Busy' /\ pc'[Main] # "process"
  BY <1>2, WhoIsWho DEF Busy
<1>4. m_queue = <<>>
  BY <1>3 DEF MessageInv, Kept
<1>5. Flown' = {}
  BY <1>2 DEF Flown
<1>6. Held'
  BY <1>2 DEF MessageInv, Held, AllMessages, Evaluation!AllMessages
<1>7. Kept'
  <2>1. <<>> \in Seq(AllMessages)' /\ Range(m_queue)' = {} /\ Range(printed)' = {}
    BY <1>2, <1>4, EmptySeq DEF Range
  <2>2. Sorted(m_queue)'
    BY <1>2, <1>4 DEF Sorted
  <2> QED BY <1>2, <1>3, <1>4, <1>5, <2>1, <2>2 DEF Kept
<1> QED BY <1>6, <1>7 DEF MessageInv

LEMMA MessageInitial == Init => MessageInv
<1> SUFFICES ASSUME Init PROVE MessageInv
  OBVIOUS
<1>1. /\ t_queue = [th \in Threads |-> <<>>] /\ m_queue = <<>> /\ printed = <<>>
      /\ pc[Main] = "idle" /\ \A th \in Threads : pc[th] # "after"
  BY WhoIsWho DEF Init, EvalInit
<1>2. <<>> \in Seq(AllMessages) /\ Sorted(<<>>)
  BY EmptySeq DEF Sorted
<1>3. t_queue \in [Threads -> Seq(AllMessages)]
  BY <1>1, <1>2
<1> QED BY <1>1, <1>2, <1>3 DEF MessageInv, Held, Kept, Busy

LEMMA MessageInductive ==
  ASSUME EvalInv, MessageInv, [Next]_vars
  PROVE  MessageInv'
<1>1. CASE UNCHANGED vars
  <2>1. UNCHANGED <<t_queue, m_queue, printed, finished, pc, work>>
    BY <1>1 DEF vars, taskVars
  <2>2. /\ Busy' <=> Busy
        /\ Busy => finished \subseteq Tasks
        /\ ~Busy => m_queue = <<>>
        /\ \A th \in Threads : pc[th] # "after" => t_queue[th] = <<>>
    BY <2>1 DEF Busy, EvalInv, PoolInv, ThreadTypes, MessageInv, Held, Kept
  <2> QED BY <2>1, <2>2, QuietStep
<1>2. ASSUME NEW th \in Threads, MTaskStep(th) PROVE MessageInv'
  BY <1>2, QuietSteps, RunBodyMessages, FlushMessages DEF MTaskStep
<1>3. CASE Process \/ Eval
  BY <1>3, ProcessMessages, EvalMessages
<1> QED
  BY <1>1, <1>2, <1>3, QuietSteps, WhoIsWho DEF Next, MainStep, WorkerStep

-----------------------------------------------------------------------------
(* Seen from outside, one evaluation after the other.                        *)

\* An mtask starts when all that it depends on have run: those of other threads
\* because its counter says so, those of its own because the chain does.
LEMMA RunsInOrder ==
  ASSUME EvalInv, NEW th \in Threads, RunBody(th)
  PROVE  Upstream(work[th].task) \subseteq finished
<1> DEFINE t == work[th].task
<1>1. /\ ScheduleInv /\ PoolInv /\ Progress /\ ChainClosed /\ Counted
      /\ NoCircularWait /\ ThreadOrder
  BY DEF EvalInv, PoolInv, CounterInv, ScheduleInv, PackInv
<1>2. pc[th] = "run" /\ MayRun(th)
  BY DEF RunBody
<1>3. Carries(th)
  BY <1>1, <1>2, AtWork
<1>4. t \in Tasks /\ t # Final /\ Busy /\ work[th].even = even_cycle /\ thread[t] \in CpuThreads
  BY <1>1, <1>3, Carried DEF Final
<1>5. \A u \in Tasks : packNext[u] = t => u \in finished
  BY <1>1, <1>2, <1>3 DEF Progress
<1>6. ASSUME NEW u \in CrossUpstream(t) PROVE u \in finished
  <2>1. areUpstreamDepsDone(t, even_cycle)
    BY <1>2, <1>4, <1>6 DEF MayRun
  <2>2. upstreamDepsDone[t] = IF even_cycle THEN upstreamDepCount(t) ELSE 0
    BY <2>1 DEF areUpstreamDepsDone
  <2>3. upstreamDepsDone[t] = IF even_cycle THEN Cardinality(Told(t))
                              ELSE upstreamDepCount(t) - Cardinality(Told(t))
    BY <1>1, <1>4 DEF Counted
  <2>4. Cardinality(Told(t)) \in Nat /\ upstreamDepCount(t) \in Nat
    BY ToldFacts
  <2>5. Cardinality(Told(t)) = upstreamDepCount(t)
    BY <2>2, <2>3, <2>4
  <2>6. Told(t) = CrossUpstream(t) /\ Told(t) \subseteq finished
    BY <1>4, <2>5, ToldFacts DEF Tellers
  <2> QED BY <1>6, <2>6
<1>7. ASSUME NEW u \in Upstream(t), thread[u] = thread[t] PROVE u \in finished
  <2> DEFINE Left == Tasks \ (finished \cup {t})
  <2> SUFFICES ASSUME u \notin finished PROVE FALSE
    OBVIOUS
  <2>1. u \in Tasks /\ <<u, t>> \in graph.edges
    BY <1>7 DEF Upstream
  <2>2. Before(Tasks, Chain, u, t)
    <3>1. thread[u] # Unassigned
      BY <1>4, <1>7, PackAssumption DEF CpuThreads, Unassigned
    <3> QED BY <1>1, <1>4, <1>7, <2>1, <3>1 DEF ThreadOrder
  <2>3. u # t
    BY <1>1, <2>1, NoLoop DEF NoCircularWait
  <2>4. Left \in SUBSET Tasks /\ u \in Left
    BY <2>1, <2>3
  <2>5. \A e \in Chain : e[1] \in Left => e[2] \in Left
    BY <1>1, <1>5 DEF Chain, ChainClosed
  <2>6. t \in Left
    <3> HIDE DEF Left
    <3> QED BY <2>2, <2>4, <2>5 DEF Before
  <2> QED BY <2>6
<1>8. \A u \in Upstream(t) : u \in CrossUpstream(t) \/ thread[u] = thread[t]
  BY DEF CrossUpstream, OtherThread, Upstream
<1> QED BY <1>6, <1>7, <1>8

\* While the messages are run, those still queued are those still to be run.
LEMMA AllFlown ==
  ASSUME EvalInv, MessageInv, pc[Main] = "process"
  PROVE  /\ finished = Tasks /\ Busy
         /\ Evaluation!Unprinted = Range(m_queue)
<1>1. finished = Tasks /\ \A th \in Threads : work[th].task = NoTask
  BY DEF EvalInv, CounterInv, Through, Carries
<1>2. Busy
  BY DEF Busy
<1>3. Flown = AllMessages
  <2>1. \A m \in AllMessages : m[1] \in Tasks /\ m[1] # NoTask
    BY MessageFacts, PackAssumption
  <2> QED BY <1>1, <2>1 DEF Flown
<1>4. Range(m_queue) \cap Range(printed) = {} /\ Range(m_queue) \cup Range(printed) = AllMessages
  BY <1>2, <1>3 DEF MessageInv, Kept
<1>5. Evaluation!Unprinted = AllMessages \ Range(printed)
  BY DEF Evaluation!Unprinted, AllMessages, Range, Evaluation!Range
<1> QED BY <1>1, <1>2, <1>4, <1>5

LEMMA StutterOutside ==
  ASSUME UNCHANGED <<graph, finished, printed>>, Busy' <=> Busy
  PROVE  UNCHANGED Evaluation!vars
<1>1. (pc[Main] \in {"launch", "notify_task", "run", "after", "await", "process"})'
      = (pc[Main] \in {"launch", "notify_task", "run", "after", "await", "process"})
  BY DEF Busy
<1> QED BY <1>1 DEF Evaluation!vars

LEMMA StepOutside ==
  ASSUME EvalInv, MessageInv, [Next]_vars
  PROVE  [Evaluation!Next]_Evaluation!vars
<1>0. pc \in [Threads -> Places] /\ Main \in Threads
  BY WhoIsWho DEF EvalInv, PoolInv, ThreadTypes
<1>1. CASE UNCHANGED vars
  BY <1>1, StutterOutside DEF vars, packVars, taskVars, Busy
<1>2. CASE CompileStep
  <2>1. UNCHANGED <<graph, finished, printed, pc>>
    BY <1>2 DEF CompileStep, PackNext, Pack, Packed, taskVars
  <2> QED BY <2>1, StutterOutside DEF Busy
<1>3. CASE Eval
  <2>1. /\ pc[Main] = "idle" /\ pc'[Main] = "launch" /\ UNCHANGED graph
        /\ finished' = {} /\ printed' = <<>>
    BY <1>0, <1>3 DEF Eval, Goto, packVars
  <2>2. Evaluation!Call
    BY <2>1 DEF Evaluation!Call
  <2> QED BY <2>2 DEF Evaluation!Next
<1>4. CASE Process
  <2>1. /\ UNCHANGED <<graph, finished, pc>> /\ pc[Main] = "process" /\ m_queue # <<>>
        /\ printed' = Append(printed, Head(m_queue))
    BY <1>4 DEF Process, packVars
  <2>2. finished = Tasks /\ Busy /\ Evaluation!Unprinted = Range(m_queue)
    BY <2>1, AllFlown
  <2>3. m_queue \in Seq(AllMessages) /\ Sorted(m_queue)
    BY DEF MessageInv, Kept
  <2>4. /\ Head(m_queue) \in Range(m_queue)
        /\ \A n \in Range(m_queue) \ {Head(m_queue)} : Earlier(Head(m_queue), n)
    BY <2>1, <2>3, RangeFacts, SortedTail
  <2>5. Evaluation!RunMessage(Head(m_queue))
    BY <2>1, <2>2, <2>4 DEF Evaluation!RunMessage, Earlier, Busy
  <2> QED BY <2>2, <2>4, <2>5 DEF Evaluation!Next
<1>5. CASE Return
  <2>1. /\ UNCHANGED <<graph, finished, printed>> /\ pc[Main] = "process" /\ m_queue = <<>>
        /\ pc'[Main] = "idle"
    BY <1>0, <1>5 DEF Return, Goto, packVars, taskVars
  <2>2. finished = Tasks /\ Busy /\ Evaluation!Unprinted = {}
    <3>1. Range(m_queue) = {}
      BY <2>1 DEF Range
    <3> QED BY <2>1, <3>1, AllFlown
  <2>3. Evaluation!Return
    BY <2>1, <2>2 DEF Evaluation!Return, Busy
  <2> QED BY <2>3 DEF Evaluation!Next
<1>6. ASSUME NEW th \in Threads, RunBody(th) PROVE Evaluation!Next
  <2> DEFINE t == work[th].task
  <2>1. /\ ScheduleInv /\ PoolInv /\ Progress /\ pc[th] = "run" /\ UNCHANGED <<graph, printed>>
        /\ finished' = finished \cup {t} /\ pc' = [pc EXCEPT ![th] = "after"]
    BY <1>6 DEF EvalInv, PoolInv, RunBody, packVars, Goto
  <2>2. Carries(th)
    BY <2>1, AtWork
  <2>3. t \in Tasks /\ Busy /\ t \notin finished
    BY <2>1, <2>2, Carried DEF Progress
  <2>4. Busy'
    BY <1>0, <2>1, <2>3, WhoIsWho DEF Busy
  <2>5. {u \in Tasks : <<u, t>> \in graph.edges} \subseteq finished
    BY <1>6, RunsInOrder DEF Upstream
  <2>6. (pc[Main] \in {"launch", "notify_task", "run", "after", "await", "process"})'
        = (pc[Main] \in {"launch", "notify_task", "run", "after", "await", "process"})
    BY <2>3, <2>4 DEF Busy
  <2>7. Evaluation!Run(t)
    BY <2>1, <2>3, <2>5, <2>6 DEF Evaluation!Run, Busy
  <2> QED BY <2>3, <2>7 DEF Evaluation!Next
<1>7. ASSUME NEW th \in Threads, MTaskStep(th), ~RunBody(th) PROVE UNCHANGED Evaluation!vars
  <2>1. UNCHANGED <<graph, finished, printed>>
    BY <1>7 DEF MTaskStep, Flush, Signal, RunNext, SignalFinal, packVars, taskVars
  <2>2. /\ pc[th] = "after" /\ \A x \in Threads : x # th => pc'[x] = pc[x]
        /\ th = Main => pc'[th] \in {"after", "run", "await"}
    BY <1>0, <1>7 DEF MTaskStep, Flush, Signal, RunNext, SignalFinal, Goto
  <2>3. Busy' <=> Busy
    BY <1>0, <2>2 DEF Busy
  <2> QED BY <2>1, <2>3, StutterOutside
<1>8. CASE Notify \/ LaunchOnWorker \/ RunInline \/ Await \/ Destroy \/ Delete \/ WakeUp \/ Join
  <2>1. UNCHANGED <<graph, finished, printed>>
    BY <1>8 DEF Notify, LaunchOnWorker, RunInline, Await, Destroy, Delete, WakeUp, Join, packVars,
                taskVars
  <2>2. Busy' <=> Busy
    BY <1>0, <1>8
    DEF Notify, LaunchOnWorker, RunInline, Await, Destroy, Delete, WakeUp, Join, Goto, Busy
  <2> QED BY <2>1, <2>2, StutterOutside
<1>9. ASSUME NEW w \in Workers, Dequeue(w) \/ Check(w) \/ WakeUpSpuriously(w)
      PROVE  UNCHANGED Evaluation!vars
  <2>1. UNCHANGED <<graph, finished, printed>>
    BY <1>9 DEF Dequeue, Check, WakeUpSpuriously, packVars, taskVars
  <2>2. pc'[Main] = pc[Main]
    BY <1>0, <1>9, WhoIsWho DEF Dequeue, Check, WakeUpSpuriously, Goto
  <2> QED BY <2>1, <2>2, StutterOutside DEF Busy
<1> QED
  BY <1>1, <1>2, <1>3, <1>4, <1>5, <1>6, <1>7, <1>8, <1>9, WhoIsWho DEF Next, MainStep, WorkerStep

\* To whoever calls it, eval() of a multi-threaded model is MTaskEval: one
\* evaluation runs every mtask once, each after all that it depends on, and
\* then every message once, by the ids of the mtasks, however the workers of
\* VlThreadPool and their VerilatedThreadMsgQueues are interleaved.
THEOREM ThreadsImplementEvaluation == Spec => EvalSpec
<1>1. Init => EvalInv /\ MessageInv
  BY ScheduleInductive, PoolInitial, CounterInitial, MessageInitial DEF EvalInv
<1>2. EvalInv /\ [Next]_vars => EvalInv'
  BY ScheduleInductive, PoolInductive, CounterInductive DEF EvalInv, CounterInv
<1>3. EvalInv /\ MessageInv /\ [Next]_vars => MessageInv'
  BY MessageInductive
<1>4. Init => Evaluation!Init
  <2> SUFFICES ASSUME Init PROVE Evaluation!Init
    OBVIOUS
  <2>1. graph.edges \subseteq Tasks \X Tasks
    BY PackAssumption DEF Init, PackInit
  <2>2. finished = {} /\ printed = <<>> /\ pc[Main] = "idle"
    BY WhoIsWho DEF Init, EvalInit
  <2> QED BY <2>1, <2>2 DEF Evaluation!Init
<1>5. EvalInv /\ MessageInv /\ [Next]_vars => [Evaluation!Next]_Evaluation!vars
  BY StepOutside
<1> QED BY <1>1, <1>2, <1>3, <1>4, <1>5, PTL DEF Spec, EvalSpec, Evaluation!Spec
=============================================================================
