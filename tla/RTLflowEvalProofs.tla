-------------------------- MODULE RTLflowEvalProofs --------------------------
(***************************************************************************)
(* Theorems of RTLflowEval, for every design, batch and launch grid.        *)
(***************************************************************************)
EXTENDS RTLflowEvalSolo, WellFoundedInduction, TLAPS

-----------------------------------------------------------------------------
(* The functions of one stimulus stay within Valuation.                     *)

LEMMA SettleType ==
  ASSUME NEW v \in Valuation
  PROVE  EvalSettle(v) \in Valuation
BY LogicAssumption DEF EvalSettle, Valuation

LEMMA TriggerType ==
  ASSUME NEW v \in Valuation, NEW c \in Clocks
  PROVE  Trigger(v, c) \in Value
BY SignalsAssumption DEF Trigger, Valuation, SigState

LEMMA InitialType ==
  ASSUME NEW v \in Valuation
  PROVE  EvalInitial(v) \in Valuation
<1> DEFINE w == [v EXCEPT !.sig = InitialLogic(v.sig)]
           Last(x) == IF XInitialEdge THEN IF x = 0 THEN 1 ELSE 0 ELSE x
<1>1. w \in Valuation
  BY LogicAssumption DEF Valuation
<1>2. EvalInitial(v) = [w EXCEPT !.clklast = [c \in Clocks |-> Last(Trigger(w, c))]]
  BY DEF EvalInitial
<1> HIDE DEF w
<1>3. \A c \in Clocks : Last(Trigger(w, c)) \in Value
  <2>1. \A c \in Clocks : Trigger(w, c) \in Value
    BY <1>1, TriggerType
  <2>2. \A x \in Value : Last(x) \in Value
    BY SignalsAssumption
  <2> QED BY <2>1, <2>2
<1> HIDE DEF Last
<1>4. [c \in Clocks |-> Last(Trigger(w, c))] \in [Clocks -> Value]
  BY <1>3
<1> QED BY <1>1, <1>2, <1>4 DEF Valuation

LEMMA LastAssignType ==
  ASSUME NEW v \in Valuation
  PROVE  LastAssign(v) \in Valuation
<1>1. [c \in Clocks |-> Trigger(v, c)] \in [Clocks -> Value]
  BY TriggerType
<1>2. [c \in GenClocks |-> v.sig[c]] \in [GenClocks -> Value]
  BY SignalsAssumption DEF Valuation, SigState, GenClocks
<1> QED BY <1>1, <1>2 DEF LastAssign, Valuation

LEMMA StoreType ==
  ASSUME NEW v \in Valuation
  PROVE  ChangeStore(v) \in Valuation
BY SignalsAssumption DEF ChangeStore, Valuation, SigState

\* What the code of mtask m computes from v, and the signals after it.
CodeOf(m, v) == MTaskCode(m, [x \in Reach(m) |-> v.sig[x]], FiringSenses(v) \cap MTaskSenses(m))
SigAfter(m, v) == [x \in Signals |-> IF x \in Writes[m] THEN CodeOf(m, v)[x] ELSE v.sig[x]]

LEMMA BodyType ==
  ASSUME NEW v \in Valuation, NEW m \in MTasks
  PROVE  MTaskBody(m, v) \in Valuation
<1>1. FiringSenses(v) \cap MTaskSenses(m) \in SUBSET Senses
  BY DEF FiringSenses
<1>2. v.sig \in SigState
  BY DEF Valuation
<1>3. \A x \in Writes[m] : CodeOf(m, v)[x] \in Domain(x)
  BY <1>1, <1>2, LogicAssumption DEF CodeOf
<1>4. SigAfter(m, v) \in SigState
  BY <1>2, <1>3, SignalsAssumption DEF SigAfter, SigState
<1>5. MTaskBody(m, v) = [v EXCEPT !.sig = SigAfter(m, v)]
  BY DEF MTaskBody, SigAfter, CodeOf
<1> QED BY <1>4, <1>5 DEF Valuation

LEMMA WriteType ==
  ASSUME NEW v \in Valuation, NEW i \in Inputs, NEW x \in Domain(i)
  PROVE  [v EXCEPT !.sig[i] = x] \in Valuation
<1>1. i \in Signals /\ x \in Value
  BY SignalsAssumption
<1>2. [v.sig EXCEPT ![i] = x] \in SigState
  BY <1>1 DEF SigState, Valuation
<1> QED
  BY <1>2 DEF Valuation

-----------------------------------------------------------------------------
(* The convergence counter passes its limit only in the fatal state.        *)

LoopOK == pc # "fatal" => loop <= LoopLimit
TypeInv == TypeOK /\ LoopOK

LEMMA InitTypeInv == Init => TypeInv
<1> SUFFICES ASSUME Init PROVE TypeInv
  OBVIOUS
<1>1. mem \in [Stimuli -> Valuation]
  BY SignalsAssumption DEF Init
<1>2. 0 \in 0 .. LoopLimit + 1
  BY GridAssumption
<1>3. loop \in 0 .. LoopLimit + 1 /\ LoopOK
  BY <1>2, GridAssumption DEF Init, LoopOK
<1> QED
  BY <1>1, <1>3 DEF Init, TypeInv, TypeOK, HostTasks

LEMMA NextTypeInv == TypeInv /\ [Next]_vars => TypeInv'
<1> SUFFICES ASSUME TypeInv, [Next]_vars PROVE TypeInv'
  OBVIOUS
<1> USE GridAssumption DEF TypeInv, TypeOK, LoopOK, HostTasks, InGraph
<1>1. ASSUME NEW s \in Stimuli, NEW i \in Inputs, NEW x \in Domain(i),
             WriteInput(s, i, x)
      PROVE  TypeInv'
  BY <1>1, WriteType DEF WriteInput
<1>2. ASSUME NEW s \in Stimuli, Retire(s) PROVE TypeInv'
  BY <1>2 DEF Retire
<1>3. CASE Run
  BY <1>3 DEF Run
<1>4. CASE Start
  BY <1>4, InitialType DEF Start
<1>5. CASE InitSim
  BY <1>5, SettleType DEF InitSim
<1>6. CASE Sim
  BY <1>6 DEF Sim
<1>7. ASSUME NEW again \in {"init_sim_t", "sim_t"}, Detect(again),
             pc \in {"init_detect_t", "detect_t"}
      PROVE  TypeInv'
  <2>1. loop' \in 0 .. LoopLimit + 1 /\ LoopOK'
    BY <1>7 DEF Detect
  <2>2. mem' \in [Stimuli -> Valuation]
    BY <1>7, StoreType DEF Detect
  <2>3. change' \in [Stimuli -> BOOLEAN]
    BY <1>7, Zenon DEF Detect, ChangeReq
  <2> QED
    BY <1>7, <2>1, <2>2, <2>3 DEF Detect
<1>8. CASE InitDetect \/ SimDetect
  BY <1>7, <1>8 DEF InitDetect, SimDetect
<1>9. CASE End
  BY <1>9 DEF End
<1>10. ASSUME NEW s \in Launched, NEW m \in MTasks, MTaskThread(m, s)
       PROVE  TypeInv'
  <2>1. mem' \in [Stimuli -> Valuation]
    BY <1>10, BodyType DEF MTaskThread
  <2> QED
    BY <1>10, <2>1 DEF MTaskThread, Nodes
<1>11. ASSUME NEW s \in Launched, LastAssignThread(s) PROVE TypeInv'
  <2>1. mem' \in [Stimuli -> Valuation]
    BY <1>11, LastAssignType DEF LastAssignThread
  <2> QED
    BY <1>11, <2>1 DEF LastAssignThread, Nodes
<1>12. ASSUME NEW s \in Launched, ChangeThread(s) PROVE TypeInv'
  <2>1. mem' \in [Stimuli -> Valuation]
    BY <1>12, StoreType DEF ChangeThread
  <2>2. change' \in [Stimuli -> BOOLEAN]
    BY <1>12, Zenon DEF ChangeThread, ChangeReq
  <2> QED
    BY <1>12, <2>1, <2>2 DEF ChangeThread, Nodes
<1>13. CASE Reduce
  <2>1. change' \in [Stimuli -> BOOLEAN]
    BY <1>13, Zenon DEF Reduce
  <2> QED
    BY <1>13, <2>1 DEF Reduce
<1>14. CASE UNCHANGED vars
  BY <1>14 DEF vars
<1> QED
  BY <1>1, <1>2, <1>3, <1>4, <1>5, <1>6, <1>8, <1>9, <1>10, <1>11, <1>12,
     <1>13, <1>14 DEF Next, Application, Host, Device

\* Every variable keeps its type: whatever the design's logic computes, what
\* the kernels leave in device memory is a state of the design, and the
\* iteration counter never passes the limit by more than one.
THEOREM TypeCorrect == Spec => []TypeOK
<1>1. TypeInv => TypeOK
  BY DEF TypeInv
<1> QED
  BY InitTypeInv, NextTypeInv, <1>1, PTL DEF Spec

-----------------------------------------------------------------------------
(* The launch grid.                                                         *)

\* Every thread of the grid has a stimulus of the batch, and there is one for
\* stimulus 0: a kernel never reads or writes beyond the batch's memory.
THEOREM GridWithinBatch == Launched \subseteq Stimuli /\ 0 \in Launched
<1>1. num_threads \in Nat \ {0} /\ num_threads <= gpu_threads
  BY GridAssumption DEF num_threads
<1>2. num_blocks \in Nat \ {0} /\ num_threads * num_blocks <= gpu_threads
  <2>1. CASE num_threads < BlockSize
    BY <2>1, <1>1, GridAssumption DEF num_blocks
  <2>2. CASE ~(num_threads < BlockSize)
    <3>1. num_blocks = gpu_threads \div num_threads
      BY <2>2 DEF num_blocks
    <3>2. \A n, d \in Nat \ {0} :
            d <= n => n \div d \in Nat \ {0} /\ d * (n \div d) <= n
      OBVIOUS
    <3> QED
      BY <3>1, <3>2, <1>1, GridAssumption
  <2> QED
    BY <2>1, <2>2
<1>3. ASSUME NEW b \in 0 .. num_blocks - 1, NEW t \in 0 .. num_threads - 1
      PROVE  num_threads * b + t \in Stimuli
  <2>1. \A k, c, d \in Nat : c <= d => k * c <= k * d
    OBVIOUS
  <2>2. num_threads * (b + 1) <= num_threads * num_blocks
    BY <2>1, <1>1, <1>2
  <2>3. num_threads * (b + 1) = num_threads * b + num_threads
    BY <1>1
  <2>4. num_threads * b \in Nat /\ num_threads * num_blocks \in Nat
    BY <1>1, <1>2
  <2> QED
    BY <2>2, <2>3, <2>4, <1>1, <1>2, GridAssumption DEF Stimuli
<1>4. Launched \subseteq Stimuli
  BY <1>3 DEF Launched
<1>5. 0 \in Launched
  <2>1. 0 = num_threads * 0 + 0
    BY <1>1
  <2> QED
    BY <2>1, <1>1, <1>2 DEF Launched
<1> QED
  BY <1>4, <1>5

-----------------------------------------------------------------------------
(* Numbers, and the order in which the mtasks are listed.                   *)

LEMMA LeastNumber ==
  ASSUME NEW B \in SUBSET Nat, B # {}
  PROVE  \E k \in B : \A j \in B : k <= j
<1>1. PICK k \in B : \A j \in B : ~(<<j, k>> \in OpToRel(<, Nat))
  BY NatLessThanWellFounded, WFMin
<1>2. \A j \in B : ~(j < k)
  BY <1>1 DEF OpToRel
<1> QED BY <1>2

\* A set of numbers that counting up to n never leaves holds all of them.
LEMMA Counting ==
  ASSUME NEW n \in Nat, NEW T, 0 \in T, \A k \in 1 .. n : k - 1 \in T => k \in T
  PROVE  \A k \in 0 .. n : k \in T
<1> DEFINE B == {k \in 0 .. n : k \notin T}
<1> SUFFICES ASSUME B # {} PROVE FALSE
  OBVIOUS
<1>1. PICK k \in B : \A j \in B : k <= j
  <2>1. B \in SUBSET Nat
    OBVIOUS
  <2> HIDE DEF B
  <2> QED BY <2>1, LeastNumber
<1>2. k \in 1 .. n /\ k - 1 \in 0 .. n /\ ~(k <= k - 1)
  BY <1>1
<1>3. k - 1 \in T
  BY <1>1, <1>2
<1> QED BY <1>1, <1>2, <1>3

\* Of some mtasks there is one that precedes none of the others.
LEMMA LastMTask ==
  ASSUME NEW S \in SUBSET MTasks, S # {}
  PROVE  \E m \in S : \A n \in S : <<m, n>> \notin MTaskEdges
<1> DEFINE N == Len(MTaskOrder)
           B == {k \in 0 .. N : N - k \in 1 .. N /\ MTaskOrder[N - k] \in S}
<1>1. N \in Nat
  BY GraphAssumption
<1>2. ASSUME NEW m \in S
      PROVE  \E k \in B : MTaskOrder[N - k] = m
  <2>1. PICK i \in 1 .. N : MTaskOrder[i] = m
    BY GraphAssumption
  <2>2. N - i \in 0 .. N /\ N - (N - i) = i
    BY <1>1
  <2> QED BY <2>1, <2>2
<1>3. B \in SUBSET Nat /\ B # {}
  <2>1. PICK m \in S : TRUE
    OBVIOUS
  <2>2. \E k \in B : MTaskOrder[N - k] = m
    BY <1>2
  <2>3. B \in SUBSET Nat
    OBVIOUS
  <2> HIDE DEF B
  <2> QED BY <2>2, <2>3
<1>4. PICK k \in B : \A j \in B : k <= j
  <2> HIDE DEF B
  <2> QED BY <1>3, LeastNumber
<1>5. ASSUME NEW n \in S, <<MTaskOrder[N - k], n>> \in MTaskEdges PROVE FALSE
  <2>1. PICK j \in B : MTaskOrder[N - j] = n
    BY <1>2
  <2>2. N - k \in 1 .. N /\ N - j \in 1 .. N
    BY <1>4, <2>1
  <2>3. N - k < N - j
    BY <1>5, <2>1, <2>2, GraphAssumption
  <2>4. k <= j
    BY <1>4
  <2> QED BY <1>1, <2>3, <2>4
<1> QED BY <1>4, <1>5

-----------------------------------------------------------------------------
(* The order of the kernels.                                                *)

\* A thread of a kernel has run only after all threads of its predecessors.
OrderOK == \A n \in Nodes, s \in Launched :
             <<n, s>> \in ran => \A p \in Preds(n) : KernelDone(p)
\* Between two launches of the graph no kernel counts as run.
NoneRan == pc \notin InGraph => ran = {}
OrderInv == TypeInv /\ NoneRan /\ OrderOK

LEMMA PredsOf ==
  /\ Preds(ChangeNode) = {LastAssignNode}
  /\ Preds(LastAssignNode) = SinkMTasks
  /\ \A m \in MTasks : Preds(m) = {p \in MTasks : <<p, m>> \in MTaskEdges}
BY GraphAssumption DEF Preds, ChangeNode, LastAssignNode

\* If every sink of the mtask graph is done then every mtask is: otherwise a
\* last one of those that are not would have a successor that is done.
LEMMA SinksLast ==
  ASSUME OrderOK, \A m \in SinkMTasks : KernelDone(m)
  PROVE  \A m \in MTasks : KernelDone(m)
<1> DEFINE Late == {m \in MTasks : ~KernelDone(m)}
<1> SUFFICES ASSUME Late # {} PROVE FALSE
  OBVIOUS
<1>1. PICK m \in Late : \A n \in Late : <<m, n>> \notin MTaskEdges
  BY LastMTask
<1>2. PICK n \in MTasks : <<m, n>> \in MTaskEdges
  BY DEF SinkMTasks
<1>3. KernelDone(n)
  BY <1>1, <1>2
<1>4. <<n, 0>> \in ran
  BY <1>3, GridWithinBatch DEF KernelDone
<1>5. m \in Preds(n)
  BY <1>2, PredsOf
<1> QED
  BY <1>4, <1>5, GridWithinBatch DEF OrderOK, Nodes

LEMMA NextOrderInv == OrderInv /\ [Next]_vars => OrderInv'
<1> SUFFICES ASSUME OrderInv, [Next]_vars PROVE OrderInv'
  OBVIOUS
<1>0. TypeInv'
  BY NextTypeInv DEF OrderInv
<1> SUFFICES (NoneRan /\ OrderOK)'
  BY <1>0 DEF OrderInv
<1> USE DEF OrderInv
<1>1. ASSUME ran = {}, ran' = {} PROVE (NoneRan /\ OrderOK)'
  BY <1>1 DEF NoneRan, OrderOK
<1>2. CASE Application \/ Start \/ End
  BY <1>1, <1>2 DEF Application, WriteInput, Retire, Run, Start, End, NoneRan,
     InGraph
<1>3. CASE InitSim \/ Sim \/ InitDetect \/ SimDetect
  BY <1>1, <1>3 DEF InitSim, Sim, InitDetect, SimDetect, Detect, NoneRan, InGraph
<1>4. ASSUME NEW n \in Nodes, NEW s \in Launched, CanRun(n, s),
             ran' = ran \cup {<<n, s>>}, pc' = pc
      PROVE  (NoneRan /\ OrderOK)'
  <2>1. NoneRan'
    BY <1>4 DEF CanRun, NoneRan
  <2>2. \A k \in Nodes : KernelDone(k) => KernelDone(k)'
    BY <1>4 DEF KernelDone
  <2>3. \A k \in Nodes : Preds(k) \subseteq Nodes
    BY PredsOf, Zenon DEF Nodes, SinkMTasks
  <2>4. ASSUME NEW k \in Nodes, NEW t \in Launched, <<k, t>> \in ran',
               NEW p \in Preds(k)
        PROVE  KernelDone(p)
    BY <1>4, <2>4 DEF OrderOK, CanRun
  <2>5. OrderOK'
    BY <2>2, <2>3, <2>4 DEF OrderOK
  <2> QED
    BY <2>1, <2>5
<1>5. ASSUME NEW s \in Launched, NEW m \in MTasks, MTaskThread(m, s)
      PROVE  (NoneRan /\ OrderOK)'
  BY <1>4, <1>5 DEF MTaskThread, Nodes
<1>6. ASSUME NEW s \in Launched, LastAssignThread(s) PROVE (NoneRan /\ OrderOK)'
  BY <1>4, <1>6 DEF LastAssignThread, Nodes
<1>7. ASSUME NEW s \in Launched, ChangeThread(s) PROVE (NoneRan /\ OrderOK)'
  BY <1>4, <1>7 DEF ChangeThread, Nodes
<1>8. CASE Reduce
  BY <1>8 DEF Reduce, NoneRan, OrderOK, InGraph
<1>9. CASE UNCHANGED vars
  BY <1>9 DEF vars, NoneRan, OrderOK, KernelDone
<1> QED
  BY <1>2, <1>3, <1>5, <1>6, <1>7, <1>8, <1>9 DEF Next, Host, Device

LEMMA InitOrderInv == Init => OrderInv
BY InitTypeInv DEF Init, OrderInv, NoneRan, OrderOK

\* A kernel thread that runs moves its own stimulus only.
LEMMA KernelOrder ==
  ASSUME OrderInv, NEW n \in Nodes, NEW s \in Launched, CanRun(n, s)
  PROVE  /\ n # ChangeNode => <<ChangeNode, s>> \notin ran
         /\ n \in MTasks => <<LastAssignNode, s>> \notin ran
         /\ n = ChangeNode => <<LastAssignNode, s>> \in ran
         /\ n \in {LastAssignNode, ChangeNode} => \A m \in MTasks : <<m, s>> \in ran
<1> USE DEF OrderInv
<1>1. <<LastAssignNode, s>> \in ran => \A m \in MTasks : <<m, s>> \in ran
  <2> SUFFICES ASSUME <<LastAssignNode, s>> \in ran PROVE \A m \in MTasks : <<m, s>> \in ran
    OBVIOUS
  <2>1. \A p \in SinkMTasks : KernelDone(p)
    BY PredsOf DEF OrderOK, Nodes
  <2> QED BY <2>1, SinksLast DEF KernelDone
<1>2. <<ChangeNode, s>> \in ran => <<LastAssignNode, s>> \in ran
  BY PredsOf DEF OrderOK, Nodes, KernelDone
<1>3. <<n, s>> \notin ran /\ \A p \in Preds(n) : KernelDone(p)
  BY DEF CanRun
<1>4. CASE n \in MTasks
  BY <1>1, <1>2, <1>3, <1>4, GraphAssumption
<1>5. CASE n = LastAssignNode
  <2>1. \A m \in MTasks : KernelDone(m)
    BY <1>3, <1>5, PredsOf, SinksLast
  <2> QED BY <1>2, <1>3, <1>5, <2>1, GraphAssumption DEF KernelDone, ChangeNode, LastAssignNode
<1>6. CASE n = ChangeNode
  <2>1. <<LastAssignNode, s>> \in ran
    BY <1>3, <1>6, PredsOf DEF KernelDone
  <2> QED BY <1>1, <1>6, <2>1, GraphAssumption DEF ChangeNode, LastAssignNode
<1> QED BY <1>4, <1>5, <1>6 DEF Nodes

-----------------------------------------------------------------------------
(* What a return means.                                                     *)

DetectTasks == {"init_detect_t", "detect_t"}
\* change[0] stands for the whole batch when the host examines it ...
FlagOK == pc \in DetectTasks /\ ~change[0] => \A s \in Stimuli : ~change[s]
\* ... and the flag of a stimulus no thread serves is never cleared.
UnservedOK == \A s \in Stimuli \ Launched : change[s]
QuietInv == TypeInv /\ FlagOK /\ UnservedOK /\ QuietAtReturn

LEMMA NextQuietInv == QuietInv /\ [Next]_vars => QuietInv'
<1> SUFFICES ASSUME QuietInv, [Next]_vars PROVE QuietInv'
  OBVIOUS
<1>0. TypeInv'
  BY NextTypeInv DEF QuietInv
<1> DEFINE Goal == FlagOK /\ UnservedOK /\ QuietAtReturn
<1> SUFFICES Goal'
  BY <1>0 DEF QuietInv
<1> USE DEF QuietInv
<1>1. ASSUME change' = change, pc' \notin DetectTasks \cup {"end_t"}
      PROVE  Goal'
  BY <1>1 DEF DetectTasks, FlagOK, UnservedOK, QuietAtReturn
<1>2. CASE Application \/ Start \/ InitSim \/ Sim
  BY <1>1, <1>2 DEF Application, WriteInput, Retire, Run, Start, InitSim, Sim,
     DetectTasks, UnservedOK, FlagOK, QuietAtReturn
<1>3. ASSUME NEW again \in {"init_sim_t", "sim_t"}, Detect(again),
             pc \in DetectTasks
      PROVE  Goal'
  <2>1. CASE loop + 1 > LoopLimit
    BY <1>3, <2>1 DEF Detect, DetectTasks, FlagOK, UnservedOK, QuietAtReturn
  <2>2. CASE ~(loop + 1 > LoopLimit)
    BY <1>3, <2>2 DEF Detect, DetectTasks, FlagOK, UnservedOK, QuietAtReturn
  <2> QED
    BY <2>1, <2>2
<1>4. CASE InitDetect \/ SimDetect
  BY <1>3, <1>4 DEF InitDetect, SimDetect, DetectTasks
<1>5. CASE End
  BY <1>5 DEF End, DetectTasks, FlagOK, UnservedOK, QuietAtReturn
<1>6. ASSUME NEW s \in Launched,
             (\E m \in MTasks : MTaskThread(m, s)) \/ LastAssignThread(s)
      PROVE  Goal'
  BY <1>1, <1>6 DEF MTaskThread, LastAssignThread, CanRun, InGraph, DetectTasks
<1>7. ASSUME NEW s \in Launched, ChangeThread(s) PROVE Goal'
  <2>1. pc' \notin DetectTasks \cup {"end_t"}
    BY <1>7 DEF ChangeThread, CanRun, InGraph, DetectTasks
  <2>2. \A t \in Stimuli \ Launched : change'[t] = change[t]
    BY <1>7 DEF ChangeThread, TypeInv, TypeOK
  <2> QED
    BY <2>1, <2>2 DEF FlagOK, UnservedOK, QuietAtReturn
<1>8. CASE Reduce
  <2>1. 0 \in Stimuli /\ 0 \in Launched
    BY GridWithinBatch
  <2>2. change' = [change EXCEPT ![0] = \E s \in Stimuli : change[s]]
    BY <1>8 DEF Reduce
  <2>3. \A t \in Stimuli \ {0} : change'[t] = change[t]
    BY <2>2 DEF TypeInv, TypeOK
  <2>4. change'[0] = \E s \in Stimuli : change[s]
    BY <2>1, <2>2 DEF TypeInv, TypeOK
  <2>5. ~change'[0] => \A t \in Stimuli : ~change'[t]
    BY <2>1, <2>3, <2>4
  <2>6. UnservedOK'
    BY <2>1, <2>3 DEF UnservedOK
  <2> QED
    BY <1>8, <2>5, <2>6 DEF Reduce, FlagOK, QuietAtReturn, DetectTasks
<1>9. CASE UNCHANGED vars
  BY <1>9 DEF vars, FlagOK, UnservedOK, QuietAtReturn
<1> QED
  BY <1>2, <1>4, <1>5, <1>6, <1>7, <1>8, <1>9 DEF Next, Host, Device

LEMMA InitQuietInv == Init => QuietInv
BY InitTypeInv
   DEF Init, QuietInv, FlagOK, UnservedOK, QuietAtReturn, DetectTasks

\* run() returns only when no stimulus of the batch still asks for an
\* evaluation: the one flag the host looks at answers for all of them.
THEOREM ReturnsQuiet == Spec => []QuietAtReturn
<1>1. QuietInv => QuietAtReturn
  BY DEF QuietInv
<1> QED
  BY InitQuietInv, NextQuietInv, <1>1, PTL DEF Spec

\* Whatever the size of the batch, run() never returns having left out a
\* stimulus that the launch grid does not reach.
THEOREM ReturnsSkipNobody == Spec => []NobodySkipped
<1>1. QuietInv => NobodySkipped
  BY DEF QuietInv, UnservedOK, QuietAtReturn, NobodySkipped
<1> QED
  BY InitQuietInv, NextQuietInv, <1>1, PTL DEF Spec

-----------------------------------------------------------------------------
(* The clock edges the kernels leave.                                        *)

\* _last_assign has run for s and _change_request has not.
Between(s) == <<LastAssignNode, s>> \in ran /\ <<ChangeNode, s>> \notin ran
\* Once _last_assign has run for s, nothing disturbs its clocks again.
ClocksOK == \A s \in Launched :
              <<LastAssignNode, s>> \in ran =>
                /\ \A c \in Clocks \ GenClocks : mem[s].clklast[c] = mem[s].sig[c]
                /\ \A c \in GenClocks : mem[s].inpclk[c] = mem[s].sig[c]
\* Of a generated clock, what _change_request compares with is what the mtasks
\* are triggered by, and what they were triggered by until then in between.
CopiesOK == pc # "fatal" =>
              \A s \in Launched, c \in GenClocks :
                mem[s].chglast[c] = IF Between(s) THEN mem[s].clklast[c]
                                                  ELSE mem[s].inpclk[c]
\* A generated clock whose edge has still to be seen has asked for it.
AskedForOK == \A s \in Launched, c \in GenClocks :
                <<ChangeNode, s>> \in ran /\ PendingEdge(mem[s], c) => change[s]
EdgeInv == OrderInv /\ QuietInv /\ ClocksOK /\ CopiesOK /\ AskedForOK /\ EdgesConsumed

LEMMA LastAssignClocks ==
  ASSUME NEW v \in Valuation
  PROVE  LET w == LastAssign(v)
         IN /\ \A c \in Clocks \ GenClocks : w.clklast[c] = w.sig[c]
            /\ \A c \in GenClocks : w.clklast[c] = v.inpclk[c] /\ w.inpclk[c] = w.sig[c]
            /\ w.chglast = v.chglast
BY DEF LastAssign, Valuation, Trigger, GenClocks

LEMMA StoreClocks ==
  ASSUME NEW v \in Valuation
  PROVE  LET w == ChangeStore(v)
         IN /\ w.sig = v.sig /\ w.clklast = v.clklast /\ w.inpclk = v.inpclk
            /\ \A c \in GenClocks : w.chglast[c] = v.sig[c]
BY DEF ChangeStore, Valuation, GenClocks

\* A step that moves no clock variable, and no signal once they are stored.
LEMMA ClocksKept ==
  ASSUME EdgeInv, pc # "fatal", ran' \subseteq ran \cup (MTasks \X Launched),
         \A s \in Launched :
           /\ mem'[s].clklast = mem[s].clklast /\ mem'[s].inpclk = mem[s].inpclk
           /\ mem'[s].chglast = mem[s].chglast /\ change'[s] = change[s]
           /\ <<LastAssignNode, s>> \in ran' => mem'[s].sig = mem[s].sig
           /\ Between(s)' <=> Between(s)
  PROVE  ClocksOK' /\ CopiesOK' /\ AskedForOK'
<1>1. \A s \in Launched : (<<LastAssignNode, s>> \in ran' => <<LastAssignNode, s>> \in ran)
                         /\ (<<ChangeNode, s>> \in ran' => <<ChangeNode, s>> \in ran)
  BY GraphAssumption
<1>2. ClocksOK'
  <2> SUFFICES ASSUME NEW s \in Launched, <<LastAssignNode, s>> \in ran'
               PROVE  /\ \A c \in Clocks \ GenClocks : mem'[s].clklast[c] = mem'[s].sig[c]
                      /\ \A c \in GenClocks : mem'[s].inpclk[c] = mem'[s].sig[c]
    BY DEF ClocksOK
  <2>1. /\ mem'[s].sig = mem[s].sig /\ mem'[s].clklast = mem[s].clklast
        /\ mem'[s].inpclk = mem[s].inpclk
    OBVIOUS
  <2>2. <<LastAssignNode, s>> \in ran
    BY <1>1
  <2> QED BY <2>1, <2>2 DEF EdgeInv, ClocksOK
<1>3. CopiesOK'
  <2> SUFFICES ASSUME NEW s \in Launched, NEW c \in GenClocks
               PROVE  mem'[s].chglast[c] = IF Between(s)' THEN mem'[s].clklast[c]
                                                          ELSE mem'[s].inpclk[c]
    BY DEF CopiesOK
  <2>1. /\ mem'[s].chglast = mem[s].chglast /\ mem'[s].clklast = mem[s].clklast
        /\ mem'[s].inpclk = mem[s].inpclk /\ (Between(s)' <=> Between(s))
    OBVIOUS
  <2> QED BY <2>1 DEF EdgeInv, CopiesOK
<1>4. AskedForOK'
  BY <1>1 DEF EdgeInv, AskedForOK, PendingEdge, Trigger
<1> QED BY <1>2, <1>3, <1>4

LEMMA NextEdgeInv == EdgeInv /\ [Next]_vars => EdgeInv'
<1> SUFFICES ASSUME EdgeInv, [Next]_vars PROVE EdgeInv'
  OBVIOUS
<1>0. OrderInv' /\ QuietInv'
  BY NextOrderInv, NextQuietInv DEF EdgeInv
<1> DEFINE Goal == ClocksOK /\ CopiesOK /\ AskedForOK /\ EdgesConsumed
<1> SUFFICES Goal'
  BY <1>0 DEF EdgeInv
<1> USE DEF EdgeInv
<1>a. /\ mem \in [Stimuli -> Valuation] /\ Launched \subseteq Stimuli /\ 0 \in Launched
      /\ change \in [Stimuli -> BOOLEAN]
  BY GridWithinBatch DEF OrderInv, TypeInv, TypeOK
\* Where no kernel has run, and none is about to.
<1>1. ASSUME ran = {}, ran' = {}, pc # "fatal",
             \A s \in Launched : /\ mem'[s].inpclk = mem[s].inpclk
                                 /\ mem'[s].chglast = mem[s].chglast
      PROVE  (ClocksOK /\ CopiesOK /\ AskedForOK)'
  BY <1>1 DEF ClocksOK, CopiesOK, AskedForOK, Between
<1>2. CASE Application \/ Start \/ InitSim \/ Sim
  <2>1. ran = {} /\ ran' = {} /\ pc # "fatal"
    BY <1>2 DEF Application, WriteInput, Retire, Run, Start, InitSim, Sim, OrderInv, NoneRan, InGraph
  <2>2. pc' \notin {"init_detect_t", "detect_t", "end_t"}
    BY <1>2 DEF Application, WriteInput, Retire, Run, Start, InitSim, Sim
  <2>3. \A v \in Valuation :
          /\ EvalInitial(v).inpclk = v.inpclk /\ EvalInitial(v).chglast = v.chglast
          /\ EvalSettle(v).inpclk = v.inpclk /\ EvalSettle(v).chglast = v.chglast
          /\ \A i, x : /\ [v EXCEPT !.sig[i] = x].inpclk = v.inpclk
                       /\ [v EXCEPT !.sig[i] = x].chglast = v.chglast
    BY DEF EvalInitial, EvalSettle, Valuation
  <2>4. \A s \in Launched : mem'[s].inpclk = mem[s].inpclk /\ mem'[s].chglast = mem[s].chglast
    <3>1. CASE Start
      BY <3>1, <1>a, <2>3 DEF Start
    <3>2. CASE InitSim
      BY <3>2, <1>a, <2>3 DEF InitSim
    <3>3. CASE Sim \/ Run \/ \E s \in Stimuli : Retire(s)
      BY <3>3 DEF Sim, Run, Retire
    <3>4. ASSUME NEW t \in Stimuli, NEW i \in Inputs, NEW x \in Domain(i), WriteInput(t, i, x)
          PROVE  \A s \in Launched : /\ mem'[s].inpclk = mem[s].inpclk
                                     /\ mem'[s].chglast = mem[s].chglast
      BY <3>4, <1>a, <2>3 DEF WriteInput
    <3> QED BY <1>2, <3>1, <3>2, <3>3, <3>4 DEF Application
  <2> QED BY <1>1, <2>1, <2>2, <2>4 DEF EdgesConsumed
<1>3. CASE End
  <2>1. ran = {} /\ ran' = {} /\ pc # "fatal" /\ mem' = mem /\ pc' = "idle"
    BY <1>3 DEF End, OrderInv, NoneRan, InGraph
  <2> QED BY <1>1, <2>1 DEF EdgesConsumed
<1>4. ASSUME NEW again \in {"init_sim_t", "sim_t"}, Detect(again), pc \in DetectTasks PROVE Goal'
  <2>1. ran = {} /\ ran' = {} /\ pc # "fatal"
    BY <1>4 DEF Detect, DetectTasks, OrderInv, NoneRan, InGraph
  <2>2. CASE pc' = "fatal"
    BY <2>1, <2>2 DEF ClocksOK, CopiesOK, AskedForOK, EdgesConsumed
  <2>3. CASE pc' # "fatal"
    <3>1. /\ mem' = mem /\ change' = change /\ pc' = IF change[0] THEN again ELSE "end_t"
      BY <1>4, <2>3 DEF Detect
    <3>2. EdgesConsumed'
      BY <1>4, <3>1 DEF EdgesConsumed, DetectTasks, PendingEdge, Trigger
    <3> QED BY <1>1, <2>1, <3>1, <3>2
  <2> QED BY <2>2, <2>3
<1>5. CASE InitDetect \/ SimDetect
  BY <1>4, <1>5 DEF InitDetect, SimDetect, DetectTasks
<1>6. ASSUME NEW n \in Nodes, NEW s \in Launched, CanRun(n, s), ran' = ran \cup {<<n, s>>}, pc' = pc
      PROVE  EdgesConsumed' /\ pc # "fatal"
  BY <1>6 DEF CanRun, EdgesConsumed, InGraph
<1>7. ASSUME NEW s \in Launched, NEW m \in MTasks, MTaskThread(m, s) PROVE Goal'
  <2>1. /\ CanRun(m, s) /\ ran' = ran \cup {<<m, s>>} /\ pc' = pc /\ change' = change
        /\ mem' = IF Skips(s) THEN mem ELSE [mem EXCEPT ![s] = MTaskBody(m, mem[s])]
    BY <1>7 DEF MTaskThread
  <2>2. EdgesConsumed' /\ pc # "fatal"
    BY <1>6, <2>1 DEF Nodes
  <2>3. <<LastAssignNode, s>> \notin ran'
    BY <2>1, KernelOrder, GraphAssumption DEF Nodes
  <2>4. \A v \in Valuation : /\ MTaskBody(m, v).clklast = v.clklast
                             /\ MTaskBody(m, v).inpclk = v.inpclk
                             /\ MTaskBody(m, v).chglast = v.chglast
    BY DEF MTaskBody, Valuation
  <2>5. ASSUME NEW t \in Launched
        PROVE  /\ mem'[t].clklast = mem[t].clklast /\ mem'[t].inpclk = mem[t].inpclk
               /\ mem'[t].chglast = mem[t].chglast /\ change'[t] = change[t]
               /\ <<LastAssignNode, t>> \in ran' => mem'[t].sig = mem[t].sig
               /\ Between(t)' <=> Between(t)
    <3>1. Between(t)' <=> Between(t)
      BY <2>1, GraphAssumption DEF Between
    <3>2. t # s => mem'[t] = mem[t]
      BY <1>a, <2>1
    <3>3. mem'[s] = mem[s] \/ mem'[s] = MTaskBody(m, mem[s])
      BY <1>a, <2>1
    <3> QED BY <1>a, <2>1, <2>3, <2>4, <3>1, <3>2, <3>3
  <2>6. ClocksOK' /\ CopiesOK' /\ AskedForOK'
    BY <2>1, <2>2, <2>5, ClocksKept
  <2> QED BY <2>2, <2>6
<1>8. ASSUME NEW s \in Launched, LastAssignThread(s) PROVE Goal'
  <2>1. /\ CanRun(LastAssignNode, s) /\ ran' = ran \cup {<<LastAssignNode, s>>} /\ pc' = pc
        /\ change' = change /\ mem' = [mem EXCEPT ![s] = LastAssign(mem[s])]
    BY <1>8 DEF LastAssignThread
  <2>2. EdgesConsumed' /\ pc # "fatal"
    BY <1>6, <2>1 DEF Nodes
  <2>3. <<ChangeNode, s>> \notin ran' /\ ~Between(s) /\ Between(s)'
    BY <2>1, KernelOrder DEF Nodes, Between, CanRun, ChangeNode, LastAssignNode
  <2>4. mem'[s] = LastAssign(mem[s]) /\ \A t \in Launched : t # s => mem'[t] = mem[t]
    BY <1>a, <2>1
  <2>5. /\ \A c \in Clocks \ GenClocks : mem'[s].clklast[c] = mem'[s].sig[c]
        /\ \A c \in GenClocks : /\ mem'[s].clklast[c] = mem[s].inpclk[c]
                                /\ mem'[s].inpclk[c] = mem'[s].sig[c]
        /\ mem'[s].chglast = mem[s].chglast
    BY <1>a, <2>4, LastAssignClocks
  <2>6. \A t \in Launched : t # s =>
          /\ <<LastAssignNode, t>> \in ran' <=> <<LastAssignNode, t>> \in ran
          /\ Between(t)' <=> Between(t)
    BY <2>1 DEF Between, ChangeNode, LastAssignNode
  <2>7. \A t \in Launched : <<ChangeNode, t>> \in ran' => t # s /\ <<ChangeNode, t>> \in ran
    BY <2>1, <2>3 DEF ChangeNode, LastAssignNode
  <2>8. ClocksOK'
    BY <2>4, <2>5, <2>6 DEF ClocksOK
  <2>9. CopiesOK'
    <3> SUFFICES ASSUME NEW t \in Launched, NEW c \in GenClocks
                 PROVE  mem'[t].chglast[c] = IF Between(t)' THEN mem'[t].clklast[c]
                                                            ELSE mem'[t].inpclk[c]
      BY DEF CopiesOK
    <3>1. CASE t = s
      <4>1. mem[s].chglast[c] = mem[s].inpclk[c]
        BY <2>2, <2>3 DEF CopiesOK
      <4> QED BY <2>3, <2>5, <3>1, <4>1
    <3>2. CASE t # s
      <4>1. mem'[t] = mem[t] /\ (Between(t)' <=> Between(t))
        BY <2>4, <2>6, <3>2
      <4> QED BY <2>2, <4>1 DEF CopiesOK
    <3> QED BY <3>1, <3>2
  <2>10. AskedForOK'
    BY <2>1, <2>4, <2>7 DEF AskedForOK
  <2> QED BY <2>2, <2>8, <2>9, <2>10
<1>9. ASSUME NEW s \in Launched, ChangeThread(s) PROVE Goal'
  <2>1. /\ CanRun(ChangeNode, s) /\ ran' = ran \cup {<<ChangeNode, s>>} /\ pc' = pc
        /\ change' = [change EXCEPT ![s] = ChangeReq(mem[s])]
        /\ mem' = [mem EXCEPT ![s] = ChangeStore(mem[s])]
    BY <1>9 DEF ChangeThread
  <2>2. EdgesConsumed' /\ pc # "fatal"
    BY <1>6, <2>1 DEF Nodes
  <2>3. <<LastAssignNode, s>> \in ran /\ Between(s) /\ ~Between(s)'
    BY <2>1, KernelOrder DEF Nodes, Between, CanRun
  <2>4. /\ mem'[s] = ChangeStore(mem[s]) /\ change'[s] = ChangeReq(mem[s])
        /\ \A t \in Launched : t # s => mem'[t] = mem[t] /\ change'[t] = change[t]
    BY <1>a, <2>1
  <2>5. /\ mem'[s].sig = mem[s].sig /\ mem'[s].clklast = mem[s].clklast
        /\ mem'[s].inpclk = mem[s].inpclk
        /\ \A c \in GenClocks : mem'[s].chglast[c] = mem[s].sig[c]
    BY <1>a, <2>4, StoreClocks
  <2>6. \A t \in Launched : /\ <<LastAssignNode, t>> \in ran' <=> <<LastAssignNode, t>> \in ran
                            /\ t # s => (Between(t)' <=> Between(t))
                            /\ t # s => (<<ChangeNode, t>> \in ran' <=> <<ChangeNode, t>> \in ran)
    BY <2>1 DEF Between, ChangeNode, LastAssignNode
  <2>7. \A c \in GenClocks : mem[s].inpclk[c] = mem[s].sig[c] /\ mem[s].chglast[c] = mem[s].clklast[c]
    BY <2>2, <2>3 DEF ClocksOK, CopiesOK
  <2>8. ClocksOK'
    <3> SUFFICES ASSUME NEW t \in Launched, <<LastAssignNode, t>> \in ran'
                 PROVE  /\ \A c \in Clocks \ GenClocks : mem'[t].clklast[c] = mem'[t].sig[c]
                        /\ \A c \in GenClocks : mem'[t].inpclk[c] = mem'[t].sig[c]
      BY DEF ClocksOK
    <3>1. /\ mem'[t].sig = mem[t].sig /\ mem'[t].clklast = mem[t].clklast
          /\ mem'[t].inpclk = mem[t].inpclk
      BY <2>4, <2>5
    <3>2. <<LastAssignNode, t>> \in ran
      BY <2>6
    <3> QED BY <3>1, <3>2 DEF ClocksOK
  <2>9. CopiesOK'
    <3> SUFFICES ASSUME NEW t \in Launched, NEW c \in GenClocks
                 PROVE  mem'[t].chglast[c] = IF Between(t)' THEN mem'[t].clklast[c]
                                                            ELSE mem'[t].inpclk[c]
      BY DEF CopiesOK
    <3>1. CASE t = s
      <4>1. /\ mem'[t].chglast[c] = mem[s].sig[c] /\ mem'[t].inpclk = mem[s].inpclk
            /\ ~Between(t)'
        BY <2>3, <2>5, <3>1
      <4>2. mem[s].inpclk[c] = mem[s].sig[c]
        BY <2>7
      <4> QED BY <4>1, <4>2
    <3>2. CASE t # s
      <4>1. mem'[t] = mem[t] /\ (Between(t)' <=> Between(t))
        BY <2>4, <2>6, <3>2
      <4> QED BY <2>2, <4>1 DEF CopiesOK
    <3> QED BY <3>1, <3>2
  <2>10. ASSUME NEW c \in GenClocks, PendingEdge(mem'[s], c) PROVE change'[s]
    <3>1. mem[s].chglast[c] # mem[s].sig[c]
      BY <2>5, <2>7, <2>10 DEF PendingEdge, Trigger
    <3>2. c \in Circular /\ c \notin Quads
      BY SignalsAssumption DEF GenClocks
    <3>3. Differs(c, mem[s].sig[c], mem[s].chglast[c])
      BY <3>1, <3>2 DEF Differs
    <3>4. ChangeReq(mem[s])
      BY <3>2, <3>3 DEF ChangeReq
    <3> QED BY <2>4, <3>4
  <2>11. AskedForOK'
    <3> SUFFICES ASSUME NEW t \in Launched, NEW c \in GenClocks,
                        <<ChangeNode, t>> \in ran', PendingEdge(mem'[t], c)
                 PROVE  change'[t]
      BY Zenon DEF AskedForOK
    <3>1. CASE t # s
      <4>1. mem'[t] = mem[t] /\ change'[t] = change[t] /\ <<ChangeNode, t>> \in ran
        BY <2>4, <2>6, <3>1
      <4> QED BY <4>1 DEF AskedForOK
    <3> QED BY <2>10, <3>1
  <2> QED BY <2>2, <2>8, <2>9, <2>11
<1>10. CASE Reduce
  <2>1. /\ pc # "fatal" /\ mem' = mem /\ ran' = {} /\ KernelDone(ChangeNode) /\ pc' \in DetectTasks
        /\ change' = [change EXCEPT ![0] = \E s \in Stimuli : change[s]]
    BY <1>10 DEF Reduce, InGraph, DetectTasks
  <2>2. KernelDone(LastAssignNode)
    BY <1>a, <2>1, PredsOf DEF OrderInv, OrderOK, Nodes, KernelDone
  <2>3. \A s \in Launched : ~Between(s) /\ ~Between(s)'
    BY <2>1 DEF KernelDone, Between
  <2>4. ClocksOK' /\ CopiesOK' /\ AskedForOK'
    BY <2>1, <2>3 DEF ClocksOK, CopiesOK, AskedForOK
  <2>5. ASSUME NEW s \in Launched, NEW c \in Clocks, PendingEdge(mem[s], c)
        PROVE  c \in GenClocks /\ change'[s] /\ change'[0]
    <3>1. c \in GenClocks
      BY <2>2, <2>5 DEF ClocksOK, KernelDone, PendingEdge, Trigger
    <3>2. change[s] /\ s \in Stimuli
      BY <1>a, <2>1, <2>5, <3>1 DEF AskedForOK, KernelDone
    <3>3. \E t \in Stimuli : change[t]
      BY <3>2
    <3>4. 0 \in Stimuli
      BY <1>a
    <3>5. change'[0]
      BY <1>a, <2>1, <3>3, <3>4
    <3>6. change'[s]
      BY <1>a, <2>1, <3>2, <3>5
    <3> QED BY <3>1, <3>5, <3>6
  <2>6. EdgesConsumed'
    BY <2>1, <2>5 DEF EdgesConsumed, DetectTasks
  <2> QED BY <2>4, <2>6
<1>11. CASE UNCHANGED vars
  BY <1>11 DEF vars, ClocksOK, CopiesOK, AskedForOK, EdgesConsumed, Between, PendingEdge, Trigger
<1> QED
  BY <1>2, <1>3, <1>5, <1>7, <1>8, <1>9, <1>10, <1>11 DEF Next, Host, Device

LEMMA InitEdgeInv ==
  ASSUME ResetsAgree
  PROVE  Init => EdgeInv
<1> SUFFICES ASSUME Init PROVE EdgeInv
  OBVIOUS
<1>1. /\ pc = "idle" /\ ran = {} /\ \A s \in Launched : mem[s] \in ResetStates
  BY GridWithinBatch DEF Init
<1>2. ClocksOK /\ AskedForOK /\ EdgesConsumed
  BY <1>1 DEF ClocksOK, AskedForOK, EdgesConsumed
<1>3. CopiesOK
  BY <1>1 DEF CopiesOK, Between, ResetsAgree
<1> QED BY <1>2, <1>3, InitOrderInv, InitQuietInv DEF EdgeInv

\* When the host decides whether to iterate, no edge of an input clock is left,
\* so that iterating, which the flag of any one stimulus can force on all,
\* never clocks a register twice; and an edge of a generated clock is left only
\* in a stimulus that is going to be evaluated again. It rests on the
\* constructor giving __VinpClk and __Vchglast of a clock the same value, as it
\* does unless it is told to randomize.
THEOREM EdgesAreConsumed ==
  ASSUME ResetsAgree
  PROVE  Spec => []EdgesConsumed
<1>1. EdgeInv => EdgesConsumed
  BY DEF EdgeInv
<1> QED
  BY InitEdgeInv, NextEdgeInv, <1>1, PTL DEF Spec

-----------------------------------------------------------------------------
(* Evaluations of one stimulus, field by field.                             *)

State(s, k, p, h) == [sig |-> s, clklast |-> k, inpclk |-> p, chglast |-> h]

LEMMA StateOf == \A v \in Valuation : v = State(v.sig, v.clklast, v.inpclk, v.chglast)
BY DEF State, Valuation

LEMMA StateFields ==
  \A a, k, p, h : /\ State(a, k, p, h).sig = a /\ State(a, k, p, h).clklast = k
                  /\ State(a, k, p, h).inpclk = p /\ State(a, k, p, h).chglast = h
BY DEF State

LEMMA BodyFields ==
  ASSUME NEW v \in Valuation, NEW m
  PROVE  MTaskBody(m, v) = State(SigAfter(m, v), v.clklast, v.inpclk, v.chglast)
<1>1. MTaskBody(m, v) = [v EXCEPT !.sig = SigAfter(m, v)]
  BY DEF MTaskBody, SigAfter, CodeOf
<1>2. \A x : [v EXCEPT !.sig = x] = State(x, v.clklast, v.inpclk, v.chglast)
  BY DEF State, Valuation
<1> QED BY <1>1, <1>2, Zenon

\* What _last_assign stores, and _change_request.
TriggersIn(a, p) == [c \in Clocks |-> IF c \in GenClocks THEN p[c] ELSE a[c]]
GenIn(a) == [c \in GenClocks |-> a[c]]
CircularIn(a) == [c \in Circular |-> a[c]]

LEMMA LastFields ==
  ASSUME NEW v \in Valuation
  PROVE  LastAssign(v) = State(v.sig, TriggersIn(v.sig, v.inpclk), GenIn(v.sig), v.chglast)
<1> DEFINE w == LastAssign(v)
           k == [c \in Clocks |-> Trigger(v, c)]
           g == [c \in GenClocks |-> v.sig[c]]
<1>1. k = TriggersIn(v.sig, v.inpclk) /\ g = GenIn(v.sig)
  BY DEF Trigger, TriggersIn, GenIn
<1>2. w = [v EXCEPT !.clklast = k, !.inpclk = g]
  BY DEF LastAssign
<1> HIDE DEF k, g
<1>3. w.sig = v.sig /\ w.clklast = k /\ w.inpclk = g /\ w.chglast = v.chglast
  BY <1>2 DEF Valuation
<1>4. w \in Valuation
  BY LastAssignType
<1> HIDE DEF w
<1>5. w = State(w.sig, w.clklast, w.inpclk, w.chglast)
  BY <1>4, StateOf
<1> QED BY <1>1, <1>3, <1>5 DEF w

LEMMA StoreFields ==
  \A a, k, p, h : ChangeStore(State(a, k, p, h)) = State(a, k, p, CircularIn(a))
BY DEF State, ChangeStore, CircularIn

-----------------------------------------------------------------------------
(* The mtasks one after the other.                                           *)

Listed == Len(MTaskOrder)
InTurn(k, D, w) == IF MTaskOrder[k] \in D THEN MTaskBody(MTaskOrder[k], w) ELSE w

\* f[k] is what those of D among the first k mtasks make of v.
IsSequel(f, D, v) == f[0] = v /\ \A k \in 1 .. Listed : f[k] = InTurn(k, D, f[k - 1])

LEMMA SequelExists ==
  ASSUME NEW D, NEW v
  PROVE  \E f : IsSequel(f, D, v)
<1> DEFINE Upto(f, k) == f[0] = v /\ \A i \in 1 .. k : f[i] = InTurn(i, D, f[i - 1])
           T == {k \in Nat : \E f : Upto(f, k)}
<1>1. Listed \in Nat
  BY GraphAssumption DEF Listed
<1>2. 0 \in T
  <2>1. Upto([i \in {0} |-> v], 0)
    OBVIOUS
  <2> QED BY <2>1
<1>3. ASSUME NEW k \in 1 .. Listed, k - 1 \in T PROVE k \in T
  <2>1. PICK f : Upto(f, k - 1)
    BY <1>3
  <2> DEFINE next == InTurn(k, D, f[k - 1])
             g == [i \in 0 .. k |-> IF i = k THEN next ELSE f[i]]
  <2>2. k \in Nat /\ k # 0 /\ k - 1 \in 0 .. k /\ k - 1 # k
    BY <1>1
  <2> HIDE DEF next
  <2>3. g[0] = v
    BY <2>1, <2>2
  <2>4. ASSUME NEW i \in 1 .. k PROVE g[i] = InTurn(i, D, g[i - 1])
    <3>1. i - 1 \in 0 .. k /\ i - 1 # k /\ i \in 0 .. k
      BY <2>2
    <3>2. g[i - 1] = f[i - 1]
      BY <3>1
    <3>3. CASE i = k
      BY <3>1, <3>2, <3>3 DEF next
    <3>4. CASE i # k
      <4>1. i \in 1 .. k - 1
        BY <2>2, <3>4
      <4> QED BY <2>1, <3>1, <3>2, <3>4, <4>1
    <3> QED BY <3>3, <3>4
  <2>5. Upto(g, k)
    BY <2>3, <2>4
  <2> HIDE DEF Upto
  <2> QED BY <2>2, <2>5
<1>4. Listed \in T
  <2> HIDE DEF T
  <2>1. \A k \in 0 .. Listed : k \in T
    BY <1>1, <1>2, <1>3, Counting
  <2> QED BY <1>1, <2>1
<1> QED BY <1>4 DEF IsSequel

LEMMA AfterIsSequel ==
  ASSUME NEW D, NEW v
  PROVE  \E f : IsSequel(f, D, v) /\ AfterMTasks(D, v) = f[Listed]
<1> DEFINE Is(f) == f = [k \in 0 .. Len(MTaskOrder) |->
                          IF k = 0 THEN v
                          ELSE IF MTaskOrder[k] \in D THEN MTaskBody(MTaskOrder[k], f[k - 1])
                          ELSE f[k - 1]]
           after == CHOOSE f : Is(f)
<1>1. PICK f : IsSequel(f, D, v)
  BY SequelExists
<1>2. Listed \in Nat
  BY GraphAssumption DEF Listed
<1>3. Is([k \in 0 .. Listed |-> f[k]])
  <2> DEFINE g == [k \in 0 .. Listed |-> f[k]]
             next(k) == IF k = 0 THEN v
                        ELSE IF MTaskOrder[k] \in D THEN MTaskBody(MTaskOrder[k], g[k - 1])
                        ELSE g[k - 1]
  <2>1. ASSUME NEW k \in 0 .. Listed PROVE g[k] = next(k)
    <3>1. CASE k = 0
      BY <1>1, <1>2, <3>1 DEF IsSequel
    <3>2. CASE k # 0
      <4>1. k \in 1 .. Listed /\ k - 1 \in 0 .. Listed
        BY <1>2, <3>2
      <4>2. g[k] = InTurn(k, D, f[k - 1]) /\ g[k - 1] = f[k - 1]
        BY <1>1, <4>1 DEF IsSequel
      <4> QED BY <3>2, <4>2 DEF InTurn
    <3> QED BY <3>1, <3>2
  <2>2. g = [k \in 0 .. Listed |-> next(k)]
    <3> HIDE DEF next
    <3> QED BY <2>1
  <2> QED BY <2>2 DEF Listed
<1>4. Is(after)
  <2> HIDE DEF Is
  <2> QED BY <1>3
<1>5. AfterMTasks(D, v) = after[Listed]
  BY DEF AfterMTasks, Listed
<1> HIDE DEF after
<1>6. \A k \in 0 .. Listed :
        after[k] = IF k = 0 THEN v
                   ELSE IF MTaskOrder[k] \in D THEN MTaskBody(MTaskOrder[k], after[k - 1])
                   ELSE after[k - 1]
  BY <1>4 DEF Listed
<1>7. after[0] = v /\ \A k \in 1 .. Listed : after[k] = InTurn(k, D, after[k - 1])
  <2>1. 0 \in 0 .. Listed /\ \A k \in 1 .. Listed : k \in 0 .. Listed /\ k # 0
    BY <1>2
  <2> QED BY <1>6, <2>1 DEF InTurn
<1> QED BY <1>5, <1>7 DEF IsSequel

\* What is true of v and is kept by every mtask of D is true after them.
LEMMA SequelKeeps ==
  ASSUME NEW D, NEW v, NEW f, IsSequel(f, D, v), NEW S, v \in S,
         \A m \in MTasks \cap D, w \in S : MTaskBody(m, w) \in S
  PROVE  \A k \in 0 .. Listed : f[k] \in S
<1> DEFINE T == {k \in 0 .. Listed : f[k] \in S}
<1>1. Listed \in Nat /\ \A k \in 1 .. Listed : MTaskOrder[k] \in MTasks
  BY GraphAssumption DEF Listed
<1>2. 0 \in T
  BY <1>1 DEF IsSequel
<1>3. ASSUME NEW k \in 1 .. Listed, k - 1 \in T PROVE k \in T
  <2>1. f[k] = InTurn(k, D, f[k - 1]) /\ k \in 0 .. Listed
    BY <1>1 DEF IsSequel
  <2>2. InTurn(k, D, f[k - 1]) \in S
    BY <1>1, <1>3 DEF InTurn
  <2> QED BY <2>1, <2>2
<1> HIDE DEF T
<1>4. \A k \in 0 .. Listed : k \in T
  BY <1>1, <1>2, <1>3, Counting
<1> QED BY <1>4 DEF T

LEMMA AfterNone ==
  ASSUME NEW v
  PROVE  AfterMTasks({}, v) = v
<1>1. PICK f : IsSequel(f, {}, v) /\ AfterMTasks({}, v) = f[Listed]
  BY AfterIsSequel
<1>2. Listed \in 0 .. Listed
  BY GraphAssumption DEF Listed
<1>3. \A k \in 0 .. Listed : f[k] \in {v}
  <2> DEFINE S == {v}
  <2>1. v \in S /\ \A m \in MTasks \cap {}, w \in S : MTaskBody(m, w) \in S
    OBVIOUS
  <2> HIDE DEF S
  <2>2. \A k \in 0 .. Listed : f[k] \in S
    BY <1>1, <2>1, SequelKeeps
  <2> QED BY <2>2 DEF S
<1> QED BY <1>1, <1>2, <1>3

LEMMA AfterType ==
  ASSUME NEW v \in Valuation, NEW D
  PROVE  /\ AfterMTasks(D, v) \in Valuation
         /\ AfterMTasks(D, v).inpclk = v.inpclk
         /\ AfterMTasks(D, v).chglast = v.chglast
<1> DEFINE S == {w \in Valuation : w.inpclk = v.inpclk /\ w.chglast = v.chglast}
<1>1. PICK f : IsSequel(f, D, v) /\ AfterMTasks(D, v) = f[Listed]
  BY AfterIsSequel
<1>2. Listed \in 0 .. Listed
  BY GraphAssumption DEF Listed
<1>3. ASSUME NEW m \in MTasks, NEW w \in S PROVE MTaskBody(m, w) \in S
  <2>1. MTaskBody(m, w) \in Valuation
    BY BodyType
  <2>2. MTaskBody(m, w) = State(SigAfter(m, w), w.clklast, w.inpclk, w.chglast)
    BY BodyFields
  <2> QED BY <2>1, <2>2, StateFields
<1>4. v \in S
  OBVIOUS
<1> HIDE DEF S
<1>5. \A k \in 0 .. Listed : f[k] \in S
  BY <1>1, <1>3, <1>4, SequelKeeps
<1> QED BY <1>1, <1>2, <1>5 DEF S

\* An mtask computes the same after another that writes nothing it looks at.
LEMMA CodeKept ==
  ASSUME NEW v \in Valuation, NEW m \in MTasks, NEW n \in MTasks, Writes[n] \cap Reach(m) = {}
  PROVE  CodeOf(m, MTaskBody(n, v)) = CodeOf(m, v)
<1> DEFINE w == MTaskBody(n, v)
<1>1. /\ w.sig = SigAfter(n, v) /\ w.clklast = v.clklast /\ w.inpclk = v.inpclk
  BY BodyFields, StateFields
<1> HIDE DEF w
<1>2. \A x \in Reach(m) : w.sig[x] = v.sig[x]
  <2>1. Reach(m) \subseteq Signals
    BY LogicAssumption DEF Reach
  <2> QED BY <1>1, <2>1 DEF SigAfter
<1>3. [x \in Reach(m) |-> w.sig[x]] = [x \in Reach(m) |-> v.sig[x]]
  BY <1>2
<1>4. ASSUME NEW e \in Senses, e \in MTaskSenses(m)
      PROVE  EdgeFires(e, w) <=> EdgeFires(e, v)
  <2>1. e.clk \in GenClocks \/ e.clk \in Reach(m)
    BY <1>4 DEF MTaskSenses, Reach
  <2>2. Trigger(w, e.clk) = Trigger(v, e.clk)
    BY <1>1, <1>2, <2>1 DEF Trigger
  <2> QED BY <1>1, <2>2 DEF EdgeFires
<1>5. FiringSenses(w) \cap MTaskSenses(m) = FiringSenses(v) \cap MTaskSenses(m)
  BY <1>4, Zenon DEF FiringSenses
<1>6. CodeOf(m, w) = CodeOf(m, v)
  BY <1>3, <1>5, Zenon DEF CodeOf
<1> QED BY <1>6 DEF w

LEMMA BodiesCommute ==
  ASSUME NEW v \in Valuation, NEW m \in MTasks, NEW n \in MTasks, ~Conflict(m, n)
  PROVE  MTaskBody(m, MTaskBody(n, v)) = MTaskBody(n, MTaskBody(m, v))
<1> DEFINE mn == MTaskBody(n, v)
           nm == MTaskBody(m, v)
<1>1. /\ Writes[n] \cap Reach(m) = {} /\ Writes[m] \cap Reach(n) = {}
      /\ Writes[n] \cap Writes[m] = {}
  BY DEF Conflict, Reach
<1>2. /\ mn \in Valuation /\ mn.sig = SigAfter(n, v) /\ mn.clklast = v.clklast
      /\ mn.inpclk = v.inpclk /\ mn.chglast = v.chglast
  BY BodyType, BodyFields, StateFields
<1>3. /\ nm \in Valuation /\ nm.sig = SigAfter(m, v) /\ nm.clklast = v.clklast
      /\ nm.inpclk = v.inpclk /\ nm.chglast = v.chglast
  BY BodyType, BodyFields, StateFields
<1>4. CodeOf(m, mn) = CodeOf(m, v) /\ CodeOf(n, nm) = CodeOf(n, v)
  BY <1>1, CodeKept
<1> HIDE DEF mn, nm
<1>5. SigAfter(m, mn) = SigAfter(n, nm)
  BY <1>1, <1>2, <1>3, <1>4 DEF SigAfter
<1>6. /\ MTaskBody(m, mn) = State(SigAfter(m, mn), v.clklast, v.inpclk, v.chglast)
      /\ MTaskBody(n, nm) = State(SigAfter(n, nm), v.clklast, v.inpclk, v.chglast)
  BY <1>2, <1>3, BodyFields
<1> QED BY <1>5, <1>6 DEF mn, nm

\* Of what has run without m, nothing that is listed after m conflicts with it.
LEMMA LaterIsFree ==
  ASSUME RaceFree, NEW D \in SUBSET MTasks, DownClosed(D),
         NEW i \in 1 .. Listed, NEW j \in 1 .. Listed, i < j,
         MTaskOrder[i] \notin D, MTaskOrder[j] \in D
  PROVE  ~Conflict(MTaskOrder[i], MTaskOrder[j])
<1> DEFINE m == MTaskOrder[i]
           n == MTaskOrder[j]
           E == {MTaskOrder[k] : k \in 1 .. i}
<1>1. /\ Listed \in Nat /\ m \in MTasks /\ n \in MTasks /\ m # n
      /\ \A k \in 1 .. i : k \in 1 .. Listed /\ MTaskOrder[k] \in MTasks
  BY GraphAssumption DEF Listed
<1>2. ~Precedes(m, n)
  BY DEF Precedes
<1>3. ~Precedes(n, m)
  <2>1. E \in SUBSET MTasks
    BY <1>1
  <2>2. m \in E
    BY <1>1
  <2>3. n \notin E
    <3> SUFFICES ASSUME NEW k \in 1 .. i, MTaskOrder[j] = MTaskOrder[k] PROVE FALSE
      OBVIOUS
    <3>1. j = k
      BY <1>1, GraphAssumption DEF Listed
    <3> QED BY <3>1
  <2>4. ASSUME NEW x \in E, NEW y \in Upstream(x) PROVE y \in E
    <3>1. PICK k \in 1 .. i : x = MTaskOrder[k]
      OBVIOUS
    <3>2. PICK l \in 1 .. Listed : y = MTaskOrder[l]
      BY GraphAssumption DEF Upstream, Listed
    <3>3. <<MTaskOrder[l], MTaskOrder[k]>> \in MTaskEdges
      BY <3>1, <3>2 DEF Upstream
    <3>4. l < k
      BY <1>1, <3>3, GraphAssumption DEF Listed
    <3>5. l \in 1 .. i
      BY <1>1, <3>4
    <3> QED BY <3>2, <3>5
  <2> HIDE DEF E, m, n
  <2>5. DownClosed(E)
    BY <2>4 DEF DownClosed
  <2> QED BY <2>1, <2>2, <2>3, <2>5 DEF Precedes
<1> HIDE DEF m, n
<1>4. ~Conflict(m, n)
  BY <1>1, <1>2, <1>3 DEF RaceFree
<1> QED BY <1>4 DEF m, n

\* However late an mtask is in the order, it can as well be the last to run.
LEMMA AfterOneMore ==
  ASSUME RaceFree, NEW D \in SUBSET MTasks, DownClosed(D), NEW m \in MTasks \ D,
         NEW v \in Valuation
  PROVE  AfterMTasks(D \cup {m}, v) = MTaskBody(m, AfterMTasks(D, v))
<1>1. PICK f : IsSequel(f, D, v) /\ AfterMTasks(D, v) = f[Listed]
  BY AfterIsSequel
<1>2. PICK g : IsSequel(g, D \cup {m}, v) /\ AfterMTasks(D \cup {m}, v) = g[Listed]
  BY AfterIsSequel
<1>3. PICK p \in 1 .. Listed : MTaskOrder[p] = m
  BY GraphAssumption DEF Listed
<1>4. /\ Listed \in Nat
      /\ \A k \in 1 .. Listed : MTaskOrder[k] \in MTasks /\ (MTaskOrder[k] = m => k = p)
  <2>1. Listed \in Nat /\ \A k \in 1 .. Listed : MTaskOrder[k] \in MTasks
    BY GraphAssumption DEF Listed
  <2>2. \A k \in 1 .. Listed : MTaskOrder[k] = MTaskOrder[p] => k = p
    BY GraphAssumption DEF Listed
  <2> QED BY <1>3, <2>1, <2>2
<1>5. \A k \in 0 .. Listed : f[k] \in Valuation
  BY <1>1, BodyType, SequelKeeps
<1> DEFINE Is(k) == g[k] = IF k < p THEN f[k] ELSE MTaskBody(m, f[k])
           T == {k \in 0 .. Listed : Is(k)}
<1>6. 0 \in T
  BY <1>1, <1>2, <1>3, <1>4 DEF IsSequel
<1>7. ASSUME NEW k \in 1 .. Listed, k - 1 \in T PROVE k \in T
  <2>1. /\ k \in 0 .. Listed /\ k - 1 \in 0 .. Listed
        /\ f[k] = InTurn(k, D, f[k - 1]) /\ g[k] = InTurn(k, D \cup {m}, g[k - 1])
    BY <1>1, <1>2, <1>4 DEF IsSequel
  <2>2. Is(k - 1)
    BY <1>7
  <2>3. CASE k < p
    <3>1. MTaskOrder[k] # m /\ k - 1 < p
      BY <1>3, <1>4, <2>1, <2>3
    <3> QED BY <2>1, <2>2, <2>3, <3>1 DEF InTurn
  <2>4. CASE k = p
    <3>1. k - 1 < p /\ ~(k < p)
      BY <1>3, <1>4, <2>4
    <3> QED BY <1>3, <2>1, <2>2, <2>4, <3>1 DEF InTurn
  <2>5. CASE p < k
    <3>1. MTaskOrder[k] # m /\ MTaskOrder[k] \in MTasks /\ ~(k - 1 < p) /\ ~(k < p)
      BY <1>3, <1>4, <2>1, <2>5
    <3>2. g[k - 1] = MTaskBody(m, f[k - 1])
      BY <2>2, <3>1
    <3>3. CASE MTaskOrder[k] \notin D
      BY <2>1, <3>1, <3>2, <3>3 DEF InTurn
    <3>4. CASE MTaskOrder[k] \in D
      <4>1. ~Conflict(m, MTaskOrder[k])
        BY <1>3, <2>5, <3>4, LaterIsFree
      <4>2. f[k - 1] \in Valuation
        BY <1>5, <2>1
      <4>3. MTaskBody(m, MTaskBody(MTaskOrder[k], f[k - 1])) = MTaskBody(MTaskOrder[k], MTaskBody(m, f[k - 1]))
        BY <3>1, <4>1, <4>2, BodiesCommute
      <4>4. f[k] = MTaskBody(MTaskOrder[k], f[k - 1]) /\ g[k] = MTaskBody(MTaskOrder[k], g[k - 1])
        BY <2>1, <3>4 DEF InTurn
      <4> QED BY <2>1, <3>1, <3>2, <4>3, <4>4
    <3> QED BY <3>3, <3>4
  <2> QED BY <1>3, <1>4, <2>3, <2>4, <2>5
<1>8. Is(Listed)
  <2> HIDE DEF T
  <2>1. \A k \in 0 .. Listed : k \in T
    BY <1>4, <1>6, <1>7, Counting
  <2>2. Listed \in T
    BY <1>4, <2>1
  <2> QED BY <2>2 DEF T
<1>9. ~(Listed < p)
  BY <1>3, <1>4
<1> QED BY <1>1, <1>2, <1>8, <1>9

-----------------------------------------------------------------------------
(* A whole evaluation, and another.                                          *)

\* The signals an evaluation leaves.
Evaluated(v, d) == IF d THEN v.sig ELSE AfterMTasks(MTasks, v).sig

\* An evaluation up to _change_request, and with it.
LEMMA PassFields ==
  ASSUME NEW v \in Valuation, NEW d \in BOOLEAN
  PROVE  LET a == Evaluated(v, d)
             k == TriggersIn(a, v.inpclk)
         IN /\ BeforeChange(v, d) = State(a, k, GenIn(a), v.chglast)
            /\ Pass(v, d) = State(a, k, GenIn(a), CircularIn(a))
<1> DEFINE a == Evaluated(v, d)
           u == IF d THEN v ELSE AllMTasks(v)
           k == TriggersIn(a, v.inpclk)
<1>1. u \in Valuation /\ u.sig = a /\ u.inpclk = v.inpclk /\ u.chglast = v.chglast
  BY AfterType DEF AllMTasks, Evaluated
<1>2. BeforeChange(v, d) = LastAssign(u)
  BY DEF BeforeChange
<1>3. Pass(v, d) = ChangeStore(BeforeChange(v, d))
  BY DEF Pass
<1> HIDE DEF a, u
<1>5. BeforeChange(v, d) = State(a, k, GenIn(a), v.chglast)
  BY <1>1, <1>2, LastFields
<1> HIDE DEF k
<1>6. Pass(v, d) = State(a, k, GenIn(a), CircularIn(a))
  BY <1>3, <1>5, StoreFields, Zenon
<1> QED BY <1>5, <1>6 DEF a, k

\* A stimulus that an evaluation leaves as it is, is left so by one that skips
\* the mtasks as well, and asks for no further one.
LEMMA RestingStays ==
  ASSUME NEW v \in Valuation, NEW d \in BOOLEAN, Pass(v, d) = v, NEW k \in {TRUE, d}
  PROVE  ChangeStore(BeforeChange(v, k)) = v /\ ~ChangeReq(BeforeChange(v, k))
<1> DEFINE a == Evaluated(v, d)
           t == TriggersIn(a, v.inpclk)
<1>1. v = State(a, t, GenIn(a), CircularIn(a))
  BY PassFields
<1> HIDE DEF t
<1>2. v.sig = a /\ v.clklast = t /\ v.inpclk = GenIn(a) /\ v.chglast = CircularIn(a)
  <2> DEFINE w == State(a, t, GenIn(a), CircularIn(a))
  <2>1. w.sig = a /\ w.clklast = t /\ w.inpclk = GenIn(a) /\ w.chglast = CircularIn(a)
    BY StateFields
  <2> HIDE DEF w
  <2>2. v = w
    BY <1>1 DEF w
  <2> QED BY <2>1, <2>2
<1>3. Evaluated(v, k) = a /\ k \in BOOLEAN
  BY <1>2 DEF Evaluated
<1> HIDE DEF a
<1>4. BeforeChange(v, k) = State(a, t, GenIn(a), v.chglast)
  BY <1>3, PassFields DEF t
<1>5. BeforeChange(v, k) = v
  BY <1>1, <1>2, <1>4
<1>6. ChangeStore(v) = v
  BY <1>1, StoreFields, Zenon
<1>7. \A c \in Circular : v.chglast[c] = v.sig[c]
  BY <1>2 DEF CircularIn
<1>8. ~ChangeReq(v)
  BY <1>7 DEF ChangeReq, Differs
<1> QED BY <1>5, <1>6, <1>8

-----------------------------------------------------------------------------
(* Interleaved kernel threads compute what the mtasks compute in sequence.  *)

HistType ==
  /\ base \in [Stimuli -> Valuation]
  /\ unsettled \in SUBSET Stimuli
  /\ passes \in [Stimuli -> Nat]

\* What the kernels that have run for s have made of its state.
Computed(s) == IF Skips(s) THEN Start0(s) ELSE AfterMTasks(MTasksRun(s), Start0(s))
Worked(s) ==
  mem[s] = IF <<LastAssignNode, s>> \in ran THEN LastAssign(Computed(s)) ELSE Computed(s)

BaseOK == pc \notin InGraph => base = mem
WorkedOK == pc \in InGraph =>
              \A s \in Launched : <<ChangeNode, s>> \notin ran => Worked(s)
InterInv == OrderInv /\ HistType /\ BaseOK /\ WorkedOK

LEMMA InitInterInv == InitH => InterInv
<1> SUFFICES ASSUME InitH PROVE InterInv
  OBVIOUS
<1>1. OrderInv
  BY InitOrderInv DEF InitH
<1>2. HistType
  BY <1>1 DEF InitH, HistType, OrderInv, TypeInv, TypeOK
<1> QED BY <1>1, <1>2 DEF InitH, Init, InterInv, BaseOK, WorkedOK, InGraph

LEMMA HistTypeKept ==
  ASSUME OrderInv, HistType, [NextH]_varsH
  PROVE  OrderInv' /\ HistType'
<1>1. OrderInv'
  BY NextOrderInv DEF NextH, varsH
<1>2. CASE Record
  <2>1. base' \in [Stimuli -> Valuation]
    BY <1>1, <1>2 DEF Record, HistType, OrderInv, TypeInv, TypeOK
  <2>2. unsettled' \in SUBSET Stimuli
    BY <1>2 DEF Record, HistType
  <2>3. passes' \in [Stimuli -> Nat]
    BY <1>2 DEF Record, HistType
  <2> QED BY <1>1, <2>1, <2>2, <2>3 DEF HistType
<1>3. CASE UNCHANGED varsH
  BY <1>1, <1>3 DEF varsH, hvars, HistType
<1> QED BY <1>2, <1>3 DEF NextH

LEMMA Start0Type ==
  ASSUME HistType, NEW s \in Stimuli
  PROVE  Start0(s) \in Valuation
BY SettleType DEF Start0, HistType

\* One more mtask of s has run.
LEMMA MTaskWorks ==
  ASSUME RaceFree, InterInv, NEW s \in Launched, NEW m \in MTasks, MTaskThread(m, s), base' = base
  PROVE  Worked(s)'
<1> USE DEF InterInv
<1>1. /\ mem \in [Stimuli -> Valuation] /\ s \in Stimuli /\ mem[s] \in Valuation
      /\ Start0(s) \in Valuation
  BY GridWithinBatch, Start0Type DEF OrderInv, TypeInv, TypeOK
<1>2. /\ pc \in InGraph /\ pc' = pc /\ change' = change /\ done' = done
      /\ ran' = ran \cup {<<m, s>>} /\ CanRun(m, s)
      /\ mem' = IF Skips(s) THEN mem ELSE [mem EXCEPT ![s] = MTaskBody(m, mem[s])]
  BY DEF MTaskThread, CanRun
<1>3. /\ <<ChangeNode, s>> \notin ran /\ <<LastAssignNode, s>> \notin ran
      /\ <<LastAssignNode, s>> \notin ran'
  BY <1>2, KernelOrder, GraphAssumption DEF Nodes
<1>4. Worked(s)
  BY <1>2, <1>3 DEF WorkedOK
<1>5. Start0(s)' = Start0(s) /\ (Skips(s)' <=> Skips(s))
  BY <1>2 DEF Start0, Skips
<1>6. CASE Skips(s)
  <2>1. mem' = mem
    BY <1>2, <1>6
  <2> QED BY <1>3, <1>4, <1>5, <1>6, <2>1 DEF Worked, Computed
<1>7. CASE ~Skips(s)
  <2> DEFINE D == MTasksRun(s)
             v == Start0(s)
  <2>1. D \in SUBSET MTasks /\ m \in MTasks \ D
    BY <1>2 DEF MTasksRun, CanRun
  <2>2. DownClosed(D)
    BY PredsOf DEF DownClosed, Upstream, MTasksRun, OrderInv, OrderOK, Nodes, KernelDone
  <2>3. MTasksRun(s)' = D \cup {m}
    BY <1>2 DEF MTasksRun
  <2>4. mem[s] = AfterMTasks(D, v)
    BY <1>3, <1>4, <1>7 DEF Worked, Computed
  <2> HIDE DEF D, v
  <2>5. AfterMTasks(D \cup {m}, v) = MTaskBody(m, AfterMTasks(D, v))
    BY <1>1, <2>1, <2>2, AfterOneMore DEF v
  <2>6. mem'[s] = AfterMTasks(D \cup {m}, v)
    BY <1>1, <1>2, <1>7, <2>4, <2>5
  <2>7. Computed(s)' = AfterMTasks(D \cup {m}, v)
    BY <1>5, <1>7, <2>3 DEF Computed, v
  <2> QED BY <1>3, <2>6, <2>7 DEF Worked
<1> QED BY <1>6, <1>7

\* _last_assign has run for s.
LEMMA LastAssignWorks ==
  ASSUME InterInv, NEW s \in Launched, LastAssignThread(s), base' = base
  PROVE  Worked(s)'
<1> USE DEF InterInv
<1>1. /\ mem \in [Stimuli -> Valuation] /\ s \in Stimuli /\ mem[s] \in Valuation
  BY GridWithinBatch DEF OrderInv, TypeInv, TypeOK
<1>2. /\ pc \in InGraph /\ pc' = pc /\ change' = change /\ done' = done
      /\ ran' = ran \cup {<<LastAssignNode, s>>} /\ CanRun(LastAssignNode, s)
      /\ mem'[s] = LastAssign(mem[s])
  BY <1>1 DEF LastAssignThread, CanRun
<1>3. <<ChangeNode, s>> \notin ran /\ <<LastAssignNode, s>> \notin ran
  BY <1>2, KernelOrder DEF Nodes, CanRun, ChangeNode, LastAssignNode
<1>4. Worked(s)
  BY <1>2, <1>3 DEF WorkedOK
<1>5. Start0(s)' = Start0(s) /\ (Skips(s)' <=> Skips(s)) /\ MTasksRun(s)' = MTasksRun(s)
  BY <1>2, GraphAssumption DEF Start0, Skips, MTasksRun
<1>6. Computed(s)' = Computed(s)
  BY <1>5 DEF Computed
<1>7. mem[s] = Computed(s) /\ <<LastAssignNode, s>> \in ran'
  BY <1>2, <1>3, <1>4 DEF Worked
<1> QED BY <1>2, <1>6, <1>7 DEF Worked

\* A stimulus no thread of which runs keeps what its threads have made of it.
LEMMA OthersWork ==
  ASSUME WorkedOK, NEW t \in Launched, pc \in InGraph, pc' = pc, done' = done, base' = base,
         mem'[t] = mem[t], change'[t] = change[t],
         \A n \in Nodes : <<n, t>> \in ran' <=> <<n, t>> \in ran,
         <<ChangeNode, t>> \notin ran'
  PROVE  Worked(t)'
<1>1. Worked(t) /\ (<<LastAssignNode, t>> \in ran' <=> <<LastAssignNode, t>> \in ran)
  BY DEF WorkedOK, Nodes
<1>2. Start0(t)' = Start0(t) /\ (Skips(t)' <=> Skips(t)) /\ MTasksRun(t)' = MTasksRun(t)
  BY DEF Start0, Skips, MTasksRun, Nodes
<1> QED BY <1>1, <1>2 DEF Worked, Computed

\* One thread of the graph.
LEMMA ThreadWorks ==
  ASSUME RaceFree, InterInv, Record, NEW s \in Launched,
         \/ \E m \in MTasks : MTaskThread(m, s)
         \/ LastAssignThread(s)
         \/ ChangeThread(s)
  PROVE  BaseOK' /\ WorkedOK'
<1> USE DEF InterInv
<1>1. PICK n \in Nodes :
        /\ CanRun(n, s) /\ ran' = ran \cup {<<n, s>>} /\ pc' = pc /\ done' = done
        /\ \A t \in Stimuli : t # s => mem'[t] = mem[t] /\ change'[t] = change[t]
        /\ \/ n \in MTasks /\ MTaskThread(n, s)
           \/ LastAssignThread(s)
           \/ n = ChangeNode
  <2>1. mem \in [Stimuli -> Valuation] /\ change \in [Stimuli -> BOOLEAN]
    BY DEF OrderInv, TypeInv, TypeOK
  <2>2. CASE \E m \in MTasks : MTaskThread(m, s)
    BY <2>1, <2>2 DEF MTaskThread, Nodes
  <2>3. CASE LastAssignThread(s)
    BY <2>1, <2>3 DEF LastAssignThread, Nodes
  <2>4. CASE ChangeThread(s)
    BY <2>1, <2>4 DEF ChangeThread, Nodes
  <2> QED BY <2>2, <2>3, <2>4
<1>2. pc \in InGraph /\ base' = base
  BY <1>1 DEF CanRun, Record
<1>3. BaseOK'
  BY <1>1, <1>2 DEF BaseOK
<1>4. ASSUME NEW t \in Launched, <<ChangeNode, t>> \notin ran' PROVE Worked(t)'
  <2>1. CASE t # s
    BY <1>1, <1>2, <1>4, <2>1, OthersWork, GridWithinBatch
  <2>2. CASE t = s
    <3>1. n # ChangeNode
      BY <1>1, <1>4, <2>2
    <3> QED BY <1>1, <1>2, <2>2, <3>1, MTaskWorks, LastAssignWorks
  <2> QED BY <2>1, <2>2
<1> QED BY <1>3, <1>4 DEF WorkedOK

\* The graph is launched: nothing has run, and s is where the settle kernel, if
\* any, has left it.
LEMMA LaunchWorks ==
  ASSUME InterInv, Record, InitSim \/ Sim
  PROVE  BaseOK' /\ WorkedOK'
<1> USE DEF InterInv
<1>1. /\ pc' \in InGraph /\ pc \notin InGraph /\ ran' = {}
  BY DEF InitSim, Sim, InGraph
<1>2. base' = base /\ base = mem
  BY <1>1 DEF Record, BaseOK
<1>3. mem \in [Stimuli -> Valuation]
  BY DEF OrderInv, TypeInv, TypeOK
<1>4. ASSUME NEW s \in Launched PROVE Worked(s)'
  <2>1. s \in Stimuli /\ mem[s] \in Valuation
    BY <1>3, GridWithinBatch
  <2>2. mem'[s] = Start0(s)'
    BY <1>2, <2>1 DEF InitSim, Sim, Start0
  <2>3. MTasksRun(s)' = {}
    BY <1>1 DEF MTasksRun
  <2>4. AfterMTasks({}, Start0(s)') = Start0(s)'
    BY AfterNone
  <2>5. Computed(s)' = Start0(s)'
    BY <2>3, <2>4 DEF Computed
  <2> QED BY <1>1, <2>2, <2>5 DEF Worked
<1> QED BY <1>1, <1>4 DEF BaseOK, WorkedOK

LEMMA NextInterInv ==
  ASSUME RaceFree
  PROVE  InterInv /\ [NextH]_varsH => InterInv'
<1> SUFFICES ASSUME InterInv, [NextH]_varsH PROVE InterInv'
  OBVIOUS
<1>0. OrderInv' /\ HistType'
  BY HistTypeKept DEF InterInv
<1> SUFFICES BaseOK' /\ WorkedOK'
  BY <1>0 DEF InterInv
<1>1. ASSUME Record, pc' \notin InGraph PROVE BaseOK' /\ WorkedOK'
  BY <1>1 DEF Record, BaseOK, WorkedOK
<1>2. CASE NextH /\ (Application \/ Start \/ InitDetect \/ SimDetect \/ End \/ Reduce)
  <2>1. pc' \notin InGraph
    BY <1>2 DEF Application, WriteInput, Retire, Run, Start, InitDetect, SimDetect, Detect,
       End, Reduce, InGraph
  <2> QED BY <1>1, <1>2, <2>1 DEF NextH
<1>3. CASE NextH /\ (InitSim \/ Sim)
  BY <1>3, LaunchWorks DEF NextH
<1>4. CASE NextH /\ \E s \in Launched :
              (\E m \in MTasks : MTaskThread(m, s)) \/ LastAssignThread(s) \/ ChangeThread(s)
  BY <1>4, ThreadWorks DEF NextH
<1>5. CASE UNCHANGED varsH
  <2>1. BaseOK'
    BY <1>5 DEF InterInv, varsH, vars, hvars, BaseOK
  <2>2. \A s : (Worked(s)' <=> Worked(s))
    BY <1>5 DEF varsH, vars, hvars, Worked, Computed, Skips, Start0, MTasksRun
  <2> QED BY <1>5, <2>1, <2>2 DEF InterInv, varsH, vars, WorkedOK
<1> QED BY <1>2, <1>3, <1>4, <1>5 DEF NextH, Next, Host, Device

\* Whatever the interleaving of the kernels' threads, a stimulus has at every
\* moment the signals that its mtasks give one after the other: that the graph
\* orders any two that touch a signal one of them writes is enough.
THEOREM ThreadsAreSequential ==
  ASSUME RaceFree
  PROVE  SpecH => []InterleavingIsSequential
<1>1. InterInv => InterleavingIsSequential
  <2> SUFFICES ASSUME InterInv, pc \in InGraph, NEW s \in Launched, <<ChangeNode, s>> \notin ran
               PROVE  mem[s].sig = Computed(s).sig
    BY DEF InterleavingIsSequential, Computed
  <2>1. Computed(s) \in Valuation
    BY GridWithinBatch, Start0Type, AfterType DEF InterInv, Computed
  <2>2. LastAssign(Computed(s)).sig = Computed(s).sig
    BY <2>1 DEF LastAssign, Valuation
  <2> QED BY <2>2 DEF InterInv, WorkedOK, Worked
<1> QED BY InitInterInv, NextInterInv, <1>1, PTL DEF SpecH

-----------------------------------------------------------------------------
(* The batch implements the stimuli evaluated one by one.                   *)

\* What it is sound for: a launch grid that reaches every stimulus.
Covered == Stimuli \subseteq Launched

Running == pc \notin {"idle", "start_t", "end_t", "fatal"}

\* The evaluation of s in this iteration is over, and how many were.
After(s) == pc \in DetectTasks \/ (pc \in InGraph /\ <<ChangeNode, s>> \in ran)
Count(s) == IF After(s) THEN loop + 1 ELSE loop

\* Evaluating s again, with or without the settle logic, would do nothing.
Rested(s) == Pass(Val[s], done[s]) = Val[s] /\ (InInit => EvalSettle(Val[s]) = Val[s])

InitOK == pc \notin {"idle", "start_t"} => init
RestOK == Running \/ pc = "end_t" => \A s \in Stimuli \ unsettled : Rested(s)
StoredOK == Running => \A s \in Stimuli : After(s) => ChangeStore(mem[s]) = mem[s]
\* change[s] says whether s is unsettled, but for what the reduction has put
\* into change[0].
AskedOK ==
  /\ pc \in {"idle", "start_t"} => \A s \in Stimuli : change[s]
  /\ Running => \A s \in unsettled : change[s]
  /\ pc \in InGraph => \A s \in Stimuli : After(s) /\ change[s] => s \in unsettled
  /\ pc \in DetectTasks /\ change[0] => unsettled # {}
  /\ pc \in {"init_sim_t", "sim_t"} => unsettled # {}
  /\ pc = "end_t" => unsettled = {}
\* The loop counts the evaluations of those that need most.
CountOK ==
  /\ Running => \A s \in Stimuli : /\ passes[s] <= Count(s)
                                   /\ s \in unsettled => passes[s] = Count(s)
  /\ pc \in InGraph \cup DetectTasks =>
       \E s \in Stimuli : passes[s] = loop + 1 \/ (s \in unsettled /\ ~After(s))
  /\ pc \in {"idle", "start_t", "end_t"} => passes = [s \in Stimuli |-> 0]
  /\ pc \in {"idle", "start_t"} => loop = 0
  /\ FatalNeedsAStimulus

SoloInv == InterInv /\ QuietInv /\ InitOK /\ RestOK /\ StoredOK /\ AskedOK /\ CountOK
SoloStep == [Solo!Next]_(Solo!vars)

LEMMA InitSoloInv == InitH => SoloInv
<1> SUFFICES ASSUME InitH PROVE SoloInv
  OBVIOUS
<1>1. InterInv /\ QuietInv
  BY InitInterInv, InitQuietInv DEF InitH
<1>2. pc = "idle" /\ loop = 0 /\ passes = [s \in Stimuli |-> 0] /\ \A s \in Stimuli : change[s]
  BY DEF InitH, Init
<1> QED BY <1>1, <1>2 DEF SoloInv, InitOK, RestOK, StoredOK, AskedOK, CountOK, Running, InGraph,
     DetectTasks, FatalNeedsAStimulus

\* The functions of a stimulus are the same in both specifications.
LEMMA SameFunctions ==
  /\ \A v : Solo!EvalInitial(v) = EvalInitial(v) /\ Solo!EvalSettle(v) = EvalSettle(v)
  /\ \A v, d : Solo!Pass(v, d) = Pass(v, d)
  /\ \A v, d : Solo!PassChanges(v, d) <=> PassChanges(v, d)
<1>1. \A v, c : Solo!Trigger(v, c) = Trigger(v, c)
  BY Zenon DEF Solo!Trigger, Trigger, Solo!GenClocks, GenClocks
<1>2. \A v : Solo!EvalInitial(v) = EvalInitial(v) /\ Solo!EvalSettle(v) = EvalSettle(v)
  BY <1>1 DEF Solo!EvalInitial, EvalInitial, Solo!EvalSettle, EvalSettle
<1>3. \A v : Solo!FiringSenses(v) = FiringSenses(v)
  <2>1. ASSUME NEW e, NEW v PROVE Solo!EdgeFires(e, v) <=> EdgeFires(e, v)
    <3>1. Solo!Trigger(v, e.clk) = Trigger(v, e.clk)
      BY <1>1
    <3> QED BY <3>1 DEF Solo!EdgeFires, EdgeFires
  <2> QED BY <2>1 DEF Solo!FiringSenses, FiringSenses
<1>4. \A m : Solo!Reach(m) = Reach(m) /\ Solo!MTaskSenses(m) = MTaskSenses(m)
  BY Zenon DEF Solo!Reach, Reach, Solo!MTaskSenses, MTaskSenses, Solo!GenClocks, GenClocks
<1>5. \A m, v : Solo!MTaskBody(m, v) = MTaskBody(m, v)
  BY <1>3, <1>4, Zenon DEF Solo!MTaskBody, MTaskBody
<1>6. \A D, v : Solo!AfterMTasks(D, v) = AfterMTasks(D, v)
  BY <1>5, Zenon DEF Solo!AfterMTasks, AfterMTasks
<1>7. \A v : Solo!LastAssign(v) = LastAssign(v)
  BY <1>1, Zenon DEF Solo!LastAssign, LastAssign, Solo!GenClocks, GenClocks
<1>8. \A v, d : Solo!BeforeChange(v, d) = BeforeChange(v, d)
  BY <1>6, <1>7, Zenon DEF Solo!BeforeChange, BeforeChange, Solo!AllMTasks, AllMTasks
<1>9. \A v, d : Solo!Pass(v, d) = Pass(v, d)
  BY <1>8, Zenon DEF Solo!Pass, Pass, Solo!ChangeStore, ChangeStore
<1>10. \A v : Solo!ChangeReq(v) <=> ChangeReq(v)
  BY Zenon DEF Solo!ChangeReq, ChangeReq, Solo!Differs, Differs
<1>11. \A v, d : Solo!PassChanges(v, d) <=> PassChanges(v, d)
  BY <1>8, <1>10, Zenon DEF Solo!PassChanges, PassChanges
<1> QED BY <1>2, <1>9, <1>11

LEMMA SoloTypes ==
  ASSUME SoloInv
  PROVE  /\ mem \in [Stimuli -> Valuation] /\ change \in [Stimuli -> BOOLEAN]
         /\ done \in [Stimuli -> BOOLEAN] /\ init \in BOOLEAN /\ loop \in Nat
         /\ pc \in HostTasks \cup InGraph
         /\ base \in [Stimuli -> Valuation] /\ unsettled \in SUBSET Stimuli
         /\ passes \in [Stimuli -> Nat]
         /\ Val \in [Stimuli -> Valuation] /\ 0 \in Stimuli
BY GridWithinBatch DEF SoloInv, InterInv, OrderInv, HistType, TypeInv, TypeOK, Val

\* No thread of _change_request finishes in this step.
LEMMA Untouched ==
  ASSUME HistType, Record, \A s : <<ChangeNode, s>> \in ran' => <<ChangeNode, s>> \in ran
  PROVE  /\ unsettled' = IF pc = "start_t" THEN Stimuli ELSE unsettled
         /\ passes' = IF pc' = "end_t" THEN [s \in Stimuli |-> 0] ELSE passes
<1>1. \A s : ~Finishing(s)
  BY DEF Finishing
<1>2. unsettled' = IF pc = "start_t" THEN Stimuli ELSE unsettled
  BY <1>1 DEF Record
<1>3. passes' = IF pc' = "end_t" THEN [s \in Stimuli |-> 0] ELSE passes
  BY <1>1 DEF Record, HistType
<1> QED BY <1>2, <1>3

LEMMA SoloStutters ==
  ASSUME Phase' = Phase, Fresh' = Fresh, Val' = Val, done' = done,
         unsettled' = unsettled, passes' = passes
  PROVE  SoloStep
BY DEF SoloStep, Solo!vars

SoloRest == InitOK /\ RestOK /\ StoredOK /\ AskedOK /\ CountOK

LEMMA ApplicationSolo ==
  ASSUME SoloInv, Application, Record
  PROVE  SoloRest' /\ SoloStep
<1> USE SoloTypes DEF SoloInv, InterInv
<1>1. /\ pc = "idle" /\ pc' \in {"idle", "start_t"} /\ init' = init /\ loop' = loop /\ ran' = ran
      /\ change' = change
  BY DEF Application, WriteInput, Retire, Run
<1>2. unsettled' = unsettled /\ passes' = passes
  BY <1>1, Untouched
<1>3. SoloRest'
  BY <1>1, <1>2 DEF SoloRest, InitOK, RestOK, StoredOK, AskedOK, CountOK, Running, InGraph,
     DetectTasks, FatalNeedsAStimulus
<1>4. /\ Phase = "idle" /\ Phase' = "idle" /\ Fresh' = Fresh
  BY <1>1 DEF Phase, Fresh, InInit
<1>5. \A s : ~Pending(s) /\ ~Pending(s)'
  BY <1>1 DEF Pending, InGraph
<1>6. Val = mem
  BY <1>5 DEF Val
<1>7. Val' = [s \in Stimuli |-> mem'[s]]
  BY <1>5 DEF Val
<1>8. ASSUME NEW s \in Stimuli, NEW i \in Inputs, NEW x \in Domain(i), WriteInput(s, i, x)
      PROVE  SoloStep
  <2>1. mem' = [mem EXCEPT ![s].sig[i] = x] /\ done' = done
    BY <1>8 DEF WriteInput
  <2>2. Val' = [Val EXCEPT ![s].sig[i] = x]
    BY <1>6, <1>7, <2>1
  <2>3. Solo!Write(s, i, x)
    BY <1>2, <1>4, <2>1, <2>2 DEF Solo!Write
  <2> QED BY <2>3, <1>8 DEF SoloStep, Solo!Next
<1>9. ASSUME NEW s \in Stimuli, Retire(s) PROVE SoloStep
  <2>1. done' = [done EXCEPT ![s] = TRUE] /\ mem' = mem
    BY <1>9 DEF Retire
  <2>2. Val' = Val
    BY <1>6, <1>7, <2>1
  <2>3. Solo!Retire(s)
    BY <1>2, <1>4, <2>1, <2>2 DEF Solo!Retire
  <2> QED BY <2>3 DEF SoloStep, Solo!Next
<1>10. ASSUME Run PROVE SoloStep
  <2>1. Val' = Val /\ done' = done
    BY <1>6, <1>7, <1>10 DEF Run
  <2>2. Phase' = Phase /\ Fresh' = Fresh
    BY <1>4
  <2> QED BY <1>2, <2>1, <2>2, SoloStutters, Zenon
<1> QED BY <1>3, <1>8, <1>9, <1>10 DEF Application

LEMMA StartSolo ==
  ASSUME SoloInv, Start, Record
  PROVE  SoloRest' /\ SoloStep
<1> USE SoloTypes DEF SoloInv, InterInv
<1>1. /\ pc = "start_t" /\ pc' = IF init THEN "sim_t" ELSE "init_sim_t"
      /\ init' = TRUE /\ loop' = loop /\ change' = change /\ done' = done /\ ran' = ran
      /\ mem' = IF init THEN mem ELSE [s \in Stimuli |-> EvalInitial(mem[s])]
  BY DEF Start
<1>2. unsettled' = Stimuli /\ passes' = passes
  BY <1>1, Untouched
<1>3. passes = [s \in Stimuli |-> 0] /\ loop = 0
  BY <1>1 DEF CountOK
<1>4. \A s : ~After(s)'
  BY <1>1 DEF After, InGraph, DetectTasks
<1>5. CountOK'
  BY <1>1, <1>2, <1>3, <1>4 DEF CountOK, Count, InGraph, DetectTasks, FatalNeedsAStimulus
<1>6. \A s \in Stimuli : change[s]
  BY <1>1 DEF AskedOK
<1>7. AskedOK'
  BY <1>1, <1>2, <1>6 DEF AskedOK, InGraph, DetectTasks
<1>8. InitOK' /\ RestOK' /\ StoredOK'
  BY <1>1, <1>2, <1>4 DEF InitOK, RestOK, StoredOK
<1>9. /\ Phase = "idle" /\ Phase' = "running" /\ (Fresh <=> ~init) /\ (Fresh' <=> ~init)
  BY <1>1 DEF Phase, Fresh, InInit
<1>10. \A s : ~Pending(s) /\ ~Pending(s)'
  BY <1>1 DEF Pending, InGraph
<1>11. Val = mem /\ Val' = [s \in Stimuli |-> mem'[s]]
  BY <1>10 DEF Val
<1>12. Val' = IF Fresh THEN [s \in Stimuli |-> EvalInitial(Val[s])] ELSE Val
  BY <1>1, <1>9, <1>11
<1>13. Solo!Begin
  <2>1. Val' = IF Fresh THEN [s \in Stimuli |-> Solo!EvalInitial(Val[s])] ELSE Val
    BY <1>12, SameFunctions
  <2>2. Fresh' = Fresh
    BY <1>9 DEF Fresh
  <2> QED BY <1>1, <1>2, <1>9, <2>1, <2>2, Zenon DEF Solo!Begin
<1> QED BY <1>5, <1>7, <1>8, <1>13 DEF SoloRest, SoloStep, Solo!Next

LEMMA LaunchSolo ==
  ASSUME SoloInv, InitSim \/ Sim, Record
  PROVE  SoloRest' /\ SoloStep
<1> USE SoloTypes DEF SoloInv, InterInv
<1>1. /\ pc \in {"init_sim_t", "sim_t"}
      /\ pc' = IF pc = "init_sim_t" THEN "init_graph" ELSE "graph"
      /\ init' = init /\ loop' = loop /\ change' = change /\ done' = done /\ ran' = {}
  BY DEF InitSim, Sim
<1>2. unsettled' = unsettled /\ passes' = passes
  BY <1>1, Untouched
<1>3. base' = mem
  BY <1>1 DEF Record, BaseOK, InGraph
<1>4. /\ Running /\ Running' /\ pc' \in InGraph /\ pc \notin InGraph \cup DetectTasks
      /\ pc' \notin DetectTasks
  BY <1>1 DEF Running, InGraph, DetectTasks
<1>5. \A s : ~After(s) /\ ~After(s)'
  BY <1>1, <1>4 DEF After
<1>6. Val = mem /\ Val' = mem
  BY <1>1, <1>3, <1>4 DEF Val, Pending
<1>7. (InInit' <=> InInit) /\ Fresh' = Fresh /\ Phase' = Phase
  BY <1>1 DEF InInit, Fresh, Phase
<1>8. unsettled # {}
  BY <1>1 DEF AskedOK
<1>9. CountOK'
  <2>1. \A s \in Stimuli : Count(s)' = Count(s)
    BY <1>1, <1>5 DEF Count
  <2> QED BY <1>1, <1>2, <1>4, <1>5, <1>8, <2>1 DEF CountOK, FatalNeedsAStimulus
<1>10. AskedOK'
  BY <1>1, <1>2, <1>4, <1>5 DEF AskedOK
<1>11. InitOK' /\ StoredOK'
  BY <1>1, <1>5 DEF InitOK, StoredOK
<1>12. RestOK'
  <2>1. \A s \in Stimuli : Rested(s) => Rested(s)'
    BY <1>1, <1>6, <1>7 DEF Rested
  <2> QED BY <1>2, <1>4, <2>1 DEF RestOK
<1>13. SoloStep
  BY <1>1, <1>2, <1>6, <1>7, SoloStutters
<1> QED BY <1>9, <1>10, <1>11, <1>12, <1>13 DEF SoloRest

LEMMA WorkSolo ==
  ASSUME SoloInv, Record, NEW s \in Launched,
         (\E m \in MTasks : MTaskThread(m, s)) \/ LastAssignThread(s)
  PROVE  SoloRest' /\ SoloStep
<1> USE SoloTypes DEF SoloInv, InterInv
<1>1. PICK n \in Nodes :
        /\ n # ChangeNode /\ CanRun(n, s) /\ ran' = ran \cup {<<n, s>>}
        /\ pc' = pc /\ init' = init /\ loop' = loop /\ change' = change /\ done' = done
        /\ \A t \in Stimuli : t # s => mem'[t] = mem[t]
  <2>1. CASE \E m \in MTasks : MTaskThread(m, s)
    BY <2>1, GraphAssumption DEF MTaskThread, Nodes
  <2>2. CASE LastAssignThread(s)
    BY <2>2 DEF LastAssignThread, Nodes, LastAssignNode, ChangeNode
  <2> QED BY <2>1, <2>2
<1>2. pc \in InGraph /\ base' = base /\ pc # "start_t" /\ pc' # "end_t"
  BY <1>1 DEF CanRun, Record, InGraph
<1>3. \A t : <<ChangeNode, t>> \in ran' <=> <<ChangeNode, t>> \in ran
  BY <1>1
<1>4. unsettled' = unsettled /\ passes' = passes
  BY <1>2, <1>3, Untouched
<1>5. <<ChangeNode, s>> \notin ran
  BY <1>1, KernelOrder
<1>6. \A t : (After(t)' <=> After(t)) /\ (Pending(t)' <=> Pending(t))
  BY <1>1, <1>3 DEF After, Pending
<1>7. Val' = Val
  <2>1. \A t \in Stimuli : ~Pending(t) => mem'[t] = mem[t]
    BY <1>1, <1>2, <1>5 DEF Pending
  <2> QED BY <1>2, <1>6, <2>1 DEF Val
<1>8. (InInit' <=> InInit) /\ Fresh' = Fresh /\ Phase' = Phase
  BY <1>1 DEF InInit, Fresh, Phase
<1>9. (Running' <=> Running) /\ Running /\ pc \notin DetectTasks
  BY <1>1, <1>2 DEF Running, InGraph, DetectTasks
<1>10. CountOK'
  <2>1. \A t \in Stimuli : Count(t)' = Count(t)
    BY <1>1, <1>6 DEF Count
  <2> QED BY <1>1, <1>2, <1>4, <1>6, <1>9, <2>1 DEF CountOK, FatalNeedsAStimulus
<1>11. AskedOK'
  BY <1>1, <1>2, <1>4, <1>6, <1>9 DEF AskedOK
<1>12. InitOK' /\ StoredOK'
  <2>1. \A t \in Stimuli : After(t) => mem'[t] = mem[t]
    BY <1>1, <1>5, <1>9 DEF After
  <2> QED BY <1>1, <1>6, <1>9, <2>1 DEF InitOK, StoredOK
<1>13. RestOK'
  <2>1. \A t \in Stimuli : Rested(t) => Rested(t)'
    BY <1>1, <1>7, <1>8 DEF Rested
  <2> QED BY <1>1, <1>4, <1>9, <2>1 DEF RestOK
<1>14. SoloStep
  BY <1>1, <1>4, <1>7, <1>8, SoloStutters
<1> QED BY <1>10, <1>11, <1>12, <1>13, <1>14 DEF SoloRest

\* What the thread of _change_request for s finds, and leaves.
LEMMA ChangeFinds ==
  ASSUME SoloInv, NEW s \in Launched, ChangeThread(s)
  PROVE  /\ mem[s] = BeforeChange(Start0(s), Skips(s)) /\ mem[s] \in Valuation
         /\ mem'[s] = ChangeStore(mem[s]) /\ change'[s] = ChangeReq(mem[s])
         /\ Start0(s) \in Valuation /\ Skips(s) \in BOOLEAN /\ <<ChangeNode, s>> \notin ran
<1> USE SoloTypes DEF SoloInv, InterInv
<1>1. s \in Stimuli /\ mem[s] \in Valuation /\ Start0(s) \in Valuation /\ Skips(s) \in BOOLEAN
  BY GridWithinBatch, Start0Type DEF Skips
<1>2. /\ pc \in InGraph /\ CanRun(ChangeNode, s) /\ <<ChangeNode, s>> \notin ran
      /\ mem'[s] = ChangeStore(mem[s]) /\ change'[s] = ChangeReq(mem[s])
  BY <1>1 DEF ChangeThread, CanRun
<1>3. <<LastAssignNode, s>> \in ran /\ \A m \in MTasks : <<m, s>> \in ran
  BY <1>2, KernelOrder DEF Nodes
<1>4. MTasksRun(s) = MTasks
  BY <1>3 DEF MTasksRun
<1>5. mem[s] = LastAssign(Computed(s))
  BY <1>2, <1>3 DEF WorkedOK, Worked
<1>6. BeforeChange(Start0(s), Skips(s)) = LastAssign(Computed(s))
  BY <1>4 DEF BeforeChange, AllMTasks, Computed
<1> QED BY <1>1, <1>2, <1>5, <1>6

LEMMA StoredTwice ==
  ASSUME NEW v \in Valuation
  PROVE  ChangeStore(ChangeStore(v)) = ChangeStore(v)
<1> DEFINE a == v.sig
           k == v.clklast
           p == v.inpclk
           h == v.chglast
<1>1. v = State(a, k, p, h)
  BY StateOf
<1> HIDE DEF a, k, p, h
<1>2. ChangeStore(v) = State(a, k, p, CircularIn(a))
  BY <1>1, StoreFields, Zenon
<1>3. ChangeStore(State(a, k, p, CircularIn(a))) = State(a, k, p, CircularIn(a))
  BY StoreFields, Zenon
<1> QED BY <1>2, <1>3

\* What holds of a step of _change_request whatever it finds.
LEMMA ChangeFrame ==
  ASSUME SoloInv, Record, NEW s \in Launched, ChangeThread(s)
  PROVE  /\ s \in Stimuli /\ pc \in InGraph /\ pc' = pc /\ init /\ init' = init /\ loop' = loop
         /\ done' = done /\ base' = base
         /\ \A t \in Stimuli : t # s =>
              /\ mem'[t] = mem[t] /\ change'[t] = change[t] /\ passes'[t] = passes[t]
              /\ t \in unsettled' <=> t \in unsettled
              /\ After(t)' <=> After(t)
              /\ Pending(t)' <=> Pending(t)
         /\ After(s)' /\ ~After(s) /\ Pending(s) /\ ~Pending(s)'
         /\ s \in unsettled' <=> s \in unsettled /\ change'[s]
         /\ passes'[s] = IF s \in unsettled THEN passes[s] + 1 ELSE passes[s]
         /\ passes' \in [Stimuli -> Nat] /\ unsettled' \in SUBSET Stimuli
<1> USE SoloTypes DEF SoloInv, InterInv
<1>1. /\ s \in Stimuli /\ pc \in InGraph /\ pc' = pc /\ init' = init /\ loop' = loop
      /\ done' = done /\ <<ChangeNode, s>> \notin ran /\ ran' = ran \cup {<<ChangeNode, s>>}
      /\ \A t \in Stimuli : t # s => mem'[t] = mem[t] /\ change'[t] = change[t]
  BY GridWithinBatch DEF ChangeThread, CanRun
<1>2. pc # "start_t" /\ pc' # "end_t" /\ pc \notin DetectTasks /\ pc # "idle"
  BY <1>1 DEF InGraph, DetectTasks
<1>3. init /\ base' = base
  BY <1>1, <1>2 DEF InitOK, Record
<1>4. \A t \in Stimuli : Finishing(t) <=> t = s
  BY <1>1 DEF Finishing
<1>5. /\ unsettled' = {t \in unsettled : Finishing(t) => change'[t]}
      /\ passes' = [t \in Stimuli |-> IF t \in unsettled /\ Finishing(t) THEN passes[t] + 1 ELSE passes[t]]
  BY <1>2 DEF Record
<1>6. /\ passes' \in [Stimuli -> Nat] /\ unsettled' \in SUBSET Stimuli
      /\ \A t \in Stimuli : passes'[t] = IF t \in unsettled /\ t = s THEN passes[t] + 1 ELSE passes[t]
      /\ \A t \in Stimuli : t \in unsettled' <=> t \in unsettled /\ (t = s => change'[t])
  BY <1>4, <1>5
<1>7. \A t \in Stimuli : t # s => (After(t)' <=> After(t)) /\ (Pending(t)' <=> Pending(t))
  BY <1>1 DEF After, Pending
<1>8. After(s)' /\ ~After(s) /\ Pending(s) /\ ~Pending(s)'
  BY <1>1, <1>2 DEF After, Pending
<1> QED BY <1>1, <1>3, <1>6, <1>7, <1>8

LEMMA ChangeSolo ==
  ASSUME SoloInv, QuietIsStable, Record, NEW s \in Launched, ChangeThread(s)
  PROVE  SoloRest' /\ SoloStep
<1> USE SoloTypes, ChangeFrame
<1>1. /\ mem[s] = BeforeChange(Start0(s), Skips(s)) /\ mem[s] \in Valuation
      /\ mem'[s] = ChangeStore(mem[s]) /\ change'[s] = ChangeReq(mem[s])
      /\ Start0(s) \in Valuation /\ Skips(s) \in BOOLEAN
  BY ChangeFinds
<1>2. /\ Running /\ Running' /\ pc \notin DetectTasks /\ pc' \notin DetectTasks
      /\ Phase = "running" /\ Phase' = "running"
      /\ (InInit' <=> InInit) /\ (InInit <=> pc = "init_graph")
      /\ (Fresh <=> InInit) /\ Fresh' = Fresh
  BY DEF Running, Phase, Fresh, InInit, InGraph, DetectTasks
<1>3. /\ Val[s] = base[s] /\ Val'[s] = mem'[s]
      /\ \A t \in Stimuli : t # s => Val'[t] = Val[t]
  BY DEF Val
<1>4. Start0(s) = IF Fresh THEN EvalSettle(Val[s]) ELSE Val[s]
  BY <1>2, <1>3 DEF Start0
<1>5. ASSUME s \in unsettled
      PROVE  /\ Val'[s] = Pass(Start0(s), done[s])
             /\ change'[s] <=> PassChanges(Start0(s), done[s])
             /\ ~change'[s] => Rested(s)'
  <2>1. change[s]
    BY <1>2, <1>5 DEF SoloInv, AskedOK
  <2>2. Skips(s) = done[s]
    BY <2>1 DEF Skips
  <2>3. /\ Val'[s] = Pass(Start0(s), done[s])
        /\ change'[s] <=> PassChanges(Start0(s), done[s])
    BY <1>1, <1>3, <2>2 DEF Pass, PassChanges
  <2>4. ASSUME ~change'[s] PROVE Rested(s)'
    <3>1. /\ Pass(Val'[s], done[s]) = Val'[s]
          /\ pc = "init_graph" => EvalSettle(Val'[s]) = Val'[s]
      BY <2>3, <2>4 DEF QuietIsStable
    <3> QED BY <1>2, <3>1 DEF Rested
  <2> QED BY <2>3, <2>4
<1>6. ASSUME s \notin unsettled
      PROVE  Val'[s] = Val[s] /\ ~change'[s] /\ Rested(s)'
  <2>1. Pass(Val[s], done[s]) = Val[s] /\ (InInit => EvalSettle(Val[s]) = Val[s])
    BY <1>2, <1>6 DEF SoloInv, RestOK, Rested
  <2>2. Start0(s) = Val[s]
    BY <1>2, <1>4, <2>1
  <2>3. Skips(s) \in {TRUE, done[s]}
    BY <1>1 DEF Skips
  <2>4. ChangeStore(BeforeChange(Val[s], Skips(s))) = Val[s] /\ ~ChangeReq(BeforeChange(Val[s], Skips(s)))
    BY <2>1, <2>3, RestingStays
  <2>5. Val'[s] = Val[s] /\ ~change'[s]
    BY <1>1, <1>3, <2>2, <2>4
  <2> QED BY <1>2, <2>1, <2>5 DEF Rested
<1>7. RestOK'
  <2>1. ASSUME NEW t \in Stimuli, t \notin unsettled' PROVE Rested(t)'
    <3>1. CASE t = s
      BY <1>5, <1>6, <2>1, <3>1
    <3>2. CASE t # s
      BY <1>2, <1>3, <2>1, <3>2 DEF SoloInv, RestOK, Rested
    <3> QED BY <3>1, <3>2
  <2> QED BY <1>2, <2>1 DEF RestOK
<1>8. InitOK'
  BY DEF InitOK
<1>9. StoredOK'
  <2>1. ChangeStore(mem'[s]) = mem'[s]
    BY <1>1, StoredTwice
  <2> QED BY <1>2, <2>1 DEF SoloInv, StoredOK
<1>10. AskedOK'
  <2>1. ~(pc' \in {"idle", "start_t"}) /\ pc' # "end_t" /\ ~(pc' \in {"init_sim_t", "sim_t"})
    BY DEF InGraph
  <2>2. \A t \in unsettled' : change'[t]
    BY <1>2 DEF SoloInv, AskedOK
  <2>3. \A t \in Stimuli : After(t)' /\ change'[t] => t \in unsettled'
    BY <1>2, <1>5, <1>6 DEF SoloInv, AskedOK
  <2> QED BY <1>2, <2>1, <2>2, <2>3 DEF AskedOK
<1>11. CountOK'
  <2>1. Count(s) = loop /\ Count(s)' = loop + 1
    BY DEF Count
  <2>2. \A t \in Stimuli : t # s => Count(t)' = Count(t)
    BY DEF Count
  <2>3. \A t \in Stimuli : passes[t] <= Count(t) /\ (t \in unsettled => passes[t] = Count(t))
    BY <1>2 DEF SoloInv, CountOK
  <2>4. \A t \in Stimuli : passes'[t] <= Count(t)' /\ (t \in unsettled' => passes'[t] = Count(t)')
    <3>1. passes'[s] <= loop + 1 /\ (s \in unsettled => passes'[s] = loop + 1)
      BY <2>1, <2>3
    <3> QED BY <2>1, <2>2, <2>3, <3>1
  <2>5. \E t \in Stimuli : passes'[t] = loop + 1 \/ (t \in unsettled' /\ ~After(t)')
    <3>1. PICK t \in Stimuli : passes[t] = loop + 1 \/ (t \in unsettled /\ ~After(t))
      BY DEF SoloInv, CountOK
    <3>2. CASE t # s
      BY <3>1, <3>2
    <3>3. CASE t = s
      <4>1. s \in unsettled
        BY <2>1, <2>3, <3>1, <3>3
      <4>2. passes'[s] = loop + 1
        BY <2>1, <2>3, <4>1
      <4>3. s \in Stimuli
        BY ChangeFrame
      <4> QED BY <4>2, <4>3, Zenon
    <3> QED BY <3>2, <3>3
  <2>6. pc' \notin {"idle", "start_t", "end_t", "fatal"}
    BY <1>2 DEF Running
  <2> QED BY <2>4, <2>5, <2>6 DEF CountOK, FatalNeedsAStimulus
<1>12. SoloStep
  <2>1. CASE s \in unsettled
    <3>1. Val' = [Val EXCEPT ![s] = Pass(Start0(s), done[s])]
      <4>1. Val' = [t \in Stimuli |-> Val'[t]]
        BY DEF Val
      <4> QED BY <1>3, <1>5, <2>1, <4>1
    <3>2. unsettled' = IF PassChanges(Start0(s), done[s]) THEN unsettled ELSE unsettled \ {s}
      BY <1>5, <2>1
    <3>3. passes' = [passes EXCEPT ![s] = @ + 1]
      BY <2>1
    <3>4. Solo!SoloPass(s)
      <4> DEFINE v == IF Fresh THEN Solo!EvalSettle(Val[s]) ELSE Val[s]
      <4>1. v = Start0(s)
        BY <1>4, SameFunctions
      <4>2. /\ Val' = [Val EXCEPT ![s] = Solo!Pass(v, done[s])]
            /\ unsettled' = IF Solo!PassChanges(v, done[s]) THEN unsettled ELSE unsettled \ {s}
        BY <3>1, <3>2, <4>1, SameFunctions
      <4> QED BY <1>2, <2>1, <3>3, <4>2, Zenon DEF Solo!SoloPass
    <3> QED BY <3>4 DEF SoloStep, Solo!Next
  <2>2. CASE s \notin unsettled
    <3>1. Val' = Val
      <4>1. Val' = [t \in Stimuli |-> Val'[t]] /\ Val = [t \in Stimuli |-> Val[t]]
        BY DEF Val
      <4> QED BY <1>3, <1>6, <2>2, <4>1
    <3>2. unsettled' = unsettled
      <4>1. \A t \in Stimuli : t \in unsettled' <=> t \in unsettled
        BY <2>2
      <4>2. unsettled \in SUBSET Stimuli /\ unsettled' \in SUBSET Stimuli
        OBVIOUS
      <4> QED BY <4>1, <4>2
    <3>3. passes' = passes
      <4>1. \A t \in Stimuli : passes'[t] = passes[t]
        BY <2>2
      <4> QED BY <4>1
    <3>4. Phase' = Phase /\ Fresh' = Fresh /\ done' = done
      BY <1>2
    <3> QED BY <3>1, <3>2, <3>3, <3>4, SoloStutters, Zenon
  <2> QED BY <2>1, <2>2
<1> QED BY <1>7, <1>8, <1>9, <1>10, <1>11, <1>12 DEF SoloRest

LEMMA ReduceSolo ==
  ASSUME SoloInv, Covered, Reduce, Record
  PROVE  SoloRest' /\ SoloStep
<1> USE SoloTypes DEF SoloInv, InterInv
<1>1. /\ pc \in InGraph /\ pc' = IF pc = "init_graph" THEN "init_detect_t" ELSE "detect_t"
      /\ ran' = {} /\ init' = init /\ loop' = loop /\ done' = done /\ mem' = mem
      /\ change' = [change EXCEPT ![0] = \E s \in Stimuli : change[s]]
      /\ \A s \in Stimuli : <<ChangeNode, s>> \in ran
  BY DEF Reduce, KernelDone, Covered
<1>2. unsettled' = unsettled /\ passes' = passes
  BY <1>1, Untouched DEF InGraph
<1>3. /\ Running /\ Running' /\ pc \notin DetectTasks /\ pc' \in DetectTasks /\ pc' \notin InGraph
      /\ Phase' = Phase /\ (InInit' <=> InInit)
  BY <1>1 DEF Running, InGraph, DetectTasks, Phase, InInit
<1>4. \A s \in Stimuli : After(s) /\ After(s)' /\ ~Pending(s) /\ ~Pending(s)'
  BY <1>1, <1>3 DEF After, Pending
<1>5. Val = mem /\ Val' = mem
  BY <1>1, <1>4 DEF Val
<1>6. /\ \A s \in Stimuli : s # 0 => change'[s] = change[s]
      /\ change'[0] = \E s \in Stimuli : change[s]
  BY <1>1
<1>7. \A s \in Stimuli : change[s] => change'[s]
  BY <1>6
<1>8. AskedOK'
  <2>1. change'[0] => unsettled # {}
    BY <1>1, <1>4, <1>6 DEF AskedOK
  <2>2. \A s \in unsettled' : change'[s]
    BY <1>2, <1>3, <1>7 DEF AskedOK
  <2> QED BY <1>2, <1>3, <2>1, <2>2 DEF AskedOK, DetectTasks, InGraph
<1>9. CountOK'
  <2>1. \A s \in Stimuli : Count(s)' = Count(s)
    BY <1>1, <1>4 DEF Count
  <2>2. \E s \in Stimuli : passes[s] = loop + 1
    BY <1>1, <1>4 DEF CountOK
  <2> QED BY <1>1, <1>2, <1>3, <2>1, <2>2 DEF CountOK, FatalNeedsAStimulus, DetectTasks
<1>10. InitOK' /\ StoredOK'
  BY <1>1, <1>3, <1>4 DEF InitOK, StoredOK, InGraph
<1>11. RestOK'
  <2>1. \A s \in Stimuli : Rested(s) => Rested(s)'
    BY <1>1, <1>3, <1>5 DEF Rested
  <2> QED BY <1>2, <1>3, <2>1 DEF RestOK
<1>12. SoloStep
  <2>1. Fresh' = Fresh
    BY <1>1, <1>3 DEF Fresh
  <2> QED BY <1>1, <1>2, <1>3, <1>5, <2>1, SoloStutters
<1> QED BY <1>8, <1>9, <1>10, <1>11, <1>12 DEF SoloRest

\* The host task that examines change[0] is where a run of the batch ends,
\* converged or not, or goes on.
LEMMA DetectSolo ==
  ASSUME SoloInv, Covered, Record, NEW again,
         \/ pc = "init_detect_t" /\ again = "init_sim_t"
         \/ pc = "detect_t" /\ again = "sim_t",
         Detect(again)
  PROVE  SoloRest' /\ SoloStep
<1> USE SoloTypes DEF SoloInv, InterInv
<1>1. /\ pc \in DetectTasks /\ pc \notin InGraph /\ Running /\ init
      /\ loop' = loop + 1 /\ init' = init /\ done' = done /\ ran' = ran
  BY DEF Detect, DetectTasks, InGraph, Running, InitOK
<1>2. /\ unsettled' = unsettled
      /\ passes' = IF pc' = "end_t" THEN [s \in Stimuli |-> 0] ELSE passes
  BY <1>1, Untouched DEF DetectTasks
<1>3. \A s \in Stimuli : After(s) /\ Count(s) = loop + 1
  BY <1>1 DEF After, Count
<1>4. PICK s \in Stimuli : passes[s] = loop + 1
  BY <1>1, <1>3 DEF CountOK
<1>5. \A t \in Stimuli : passes[t] <= loop + 1 /\ (t \in unsettled => passes[t] = loop + 1)
  BY <1>1, <1>3 DEF CountOK
<1>6. pc' \notin InGraph /\ pc' \notin DetectTasks
  BY DEF Detect, InGraph, DetectTasks
<1>7. mem' = mem
  BY <1>1, <1>3 DEF Detect, StoredOK
<1>8. Val = mem /\ Val' = mem
  BY <1>1, <1>6, <1>7 DEF Val, Pending
<1>9. \A t : ~After(t)'
  BY <1>6 DEF After
<1>10. InitOK' /\ StoredOK' /\ Phase = "running"
  BY <1>1, <1>9 DEF InitOK, StoredOK, Phase, Running, DetectTasks
<1>11. CASE loop + 1 > LoopLimit
  <2>1. pc' = "fatal" /\ passes' = passes
    BY <1>2, <1>11 DEF Detect
  <2>2. CountOK' /\ AskedOK' /\ RestOK'
    <3>1. passes'[s] > LoopLimit
      BY <1>4, <1>11, <2>1
    <3> QED BY <2>1, <3>1 DEF CountOK, AskedOK, RestOK, Running, InGraph, DetectTasks,
          FatalNeedsAStimulus
  <2>3. Solo!Diverge
    <3>1. Phase' = "fatal" /\ Fresh' = FALSE
      BY <1>1, <2>1 DEF Phase, Fresh, InInit
    <3>2. \E t \in Stimuli : passes[t] > LoopLimit
      BY <1>4, <1>11
    <3> QED BY <1>1, <1>2, <1>8, <1>10, <2>1, <3>1, <3>2 DEF Solo!Diverge
  <2> QED BY <1>10, <2>2, <2>3 DEF SoloRest, SoloStep, Solo!Next
<1>12. CASE ~(loop + 1 > LoopLimit) /\ change[0]
  <2>1. /\ pc' = again /\ change' = change /\ passes' = passes /\ Running'
        /\ (InInit' <=> InInit) /\ Phase' = "running" /\ Fresh' = Fresh
    BY <1>1, <1>2, <1>12 DEF Detect, Running, InInit, Phase, Fresh
  <2>2. \A t \in Stimuli : Count(t)' = loop + 1
    BY <1>1, <1>9 DEF Count
  <2>3. pc' \in {"init_sim_t", "sim_t"}
    BY <2>1
  <2>4. CountOK'
    BY <1>5, <2>1, <2>2, <2>3, <1>2 DEF CountOK, InGraph, DetectTasks, FatalNeedsAStimulus
  <2>5. AskedOK'
    BY <1>1, <1>2, <1>6, <1>12, <2>1, <2>3 DEF AskedOK
  <2>6. RestOK'
    <3>1. \A t \in Stimuli : Rested(t) => Rested(t)'
      BY <1>1, <1>8, <2>1 DEF Rested
    <3> QED BY <1>1, <1>2, <3>1 DEF RestOK
  <2>7. SoloStep
    BY <1>1, <1>2, <1>8, <1>10, <2>1, SoloStutters
  <2> QED BY <1>10, <2>4, <2>5, <2>6, <2>7 DEF SoloRest
<1>13. CASE ~(loop + 1 > LoopLimit) /\ ~change[0]
  <2>1. pc' = "end_t" /\ passes' = [t \in Stimuli |-> 0]
    BY <1>2, <1>13 DEF Detect
  <2>2. unsettled = {}
    BY <1>1, <1>13 DEF QuietInv, FlagOK, AskedOK
  <2>3. CountOK' /\ AskedOK'
    BY <1>2, <2>1, <2>2 DEF CountOK, AskedOK, Running, InGraph, DetectTasks, FatalNeedsAStimulus
  <2>4. RestOK'
    <3>1. \A t \in Stimuli : Rested(t) => Rested(t)'
      BY <1>1, <1>8, <2>1 DEF Rested, InInit
    <3> QED BY <1>1, <2>2, <3>1 DEF RestOK
  <2>5. Solo!Finish
    <3>1. Phase' = "idle" /\ Fresh' = FALSE
      BY <1>1, <2>1 DEF Phase, Fresh, InInit
    <3>2. \A t \in Stimuli : passes[t] <= LoopLimit
      BY <1>5, <1>13, GridAssumption
    <3> QED BY <1>1, <1>2, <1>8, <1>10, <2>1, <2>2, <3>1, <3>2 DEF Solo!Finish
  <2> QED BY <1>10, <2>3, <2>4, <2>5 DEF SoloRest, SoloStep, Solo!Next
<1> QED BY <1>11, <1>12, <1>13

LEMMA EndSolo ==
  ASSUME SoloInv, End, Record
  PROVE  SoloRest' /\ SoloStep
<1> USE SoloTypes DEF SoloInv, InterInv
<1>1. /\ pc = "end_t" /\ pc' = "idle" /\ loop' = 0 /\ change' = [s \in Stimuli |-> TRUE]
      /\ init /\ init' = init /\ done' = done /\ mem' = mem /\ ran' = ran
  BY DEF End, InitOK
<1>2. unsettled' = unsettled /\ passes' = passes
  BY <1>1, Untouched
<1>3. SoloRest'
  BY <1>1, <1>2 DEF SoloRest, InitOK, RestOK, StoredOK, AskedOK, CountOK, Running, InGraph,
     DetectTasks, FatalNeedsAStimulus
<1>4. Phase' = Phase /\ Fresh' = Fresh
  BY <1>1 DEF Phase, Fresh, InInit
<1>5. Val' = Val
  BY <1>1 DEF Val, Pending, InGraph
<1> QED BY <1>1, <1>2, <1>3, <1>4, <1>5, SoloStutters

LEMMA NextSoloInv ==
  ASSUME RaceFree, Covered, SoloInv, QuietIsStable, [NextH]_varsH
  PROVE  SoloInv' /\ SoloStep
<1>1. InterInv' /\ QuietInv'
  <2>1. InterInv'
    BY NextInterInv DEF SoloInv
  <2>2. [Next]_vars
    BY DEF NextH, varsH
  <2> QED BY <2>1, <2>2, NextQuietInv DEF SoloInv
<1> SUFFICES SoloRest' /\ SoloStep
  BY <1>1 DEF SoloInv, SoloRest
<1>2. ASSUME Record, Application PROVE SoloRest' /\ SoloStep
  BY <1>2, ApplicationSolo
<1>3. ASSUME Record, Host PROVE SoloRest' /\ SoloStep
  BY <1>3, StartSolo, LaunchSolo, DetectSolo, EndSolo DEF Host, InitDetect, SimDetect
<1>4. ASSUME Record, Device PROVE SoloRest' /\ SoloStep
  BY <1>4, WorkSolo, ChangeSolo, ReduceSolo DEF Device
<1>5. CASE UNCHANGED varsH
  <2>1. /\ pc' = pc /\ init' = init /\ loop' = loop /\ change' = change /\ done' = done
        /\ mem' = mem /\ ran' = ran /\ base' = base /\ unsettled' = unsettled /\ passes' = passes
    BY <1>5 DEF varsH, vars, hvars
  <2>2. \A s : (After(s)' <=> After(s)) /\ (Pending(s)' <=> Pending(s))
    BY <2>1 DEF After, Pending
  <2>3. Val' = Val /\ Phase' = Phase /\ Fresh' = Fresh
    BY <2>1, <2>2 DEF Val, Phase, Fresh, InInit
  <2>4. SoloRest'
    <3>1. \A s : (Rested(s)' <=> Rested(s)) /\ Count(s)' = Count(s)
      BY <2>1, <2>2, <2>3 DEF Rested, Count, InInit
    <3> QED BY <2>1, <2>2, <3>1 DEF SoloInv, SoloRest, InitOK, RestOK, StoredOK, AskedOK, CountOK,
          Running, FatalNeedsAStimulus
  <2> QED BY <2>1, <2>3, <2>4, SoloStutters
<1> QED BY <1>2, <1>3, <1>4, <1>5 DEF NextH, Next

LEMMA InitSolo == InitH => Solo!Init
<1> SUFFICES ASSUME InitH PROVE Solo!Init
  OBVIOUS
<1>1. /\ pc = "idle" /\ init = FALSE /\ mem \in [Stimuli -> ResetStates]
      /\ done = [s \in Stimuli |-> FALSE] /\ unsettled = {} /\ passes = [s \in Stimuli |-> 0]
  BY DEF InitH, Init
<1>2. Phase = "idle" /\ Fresh = TRUE
  BY <1>1 DEF Phase, Fresh
<1>3. Val = mem
  BY <1>1 DEF Val, Pending, InGraph
<1> QED BY <1>1, <1>2, <1>3 DEF Solo!Init

\* The lockstep of the batch is invisible to a stimulus: if every stimulus has
\* a kernel thread, the graph orders the mtasks that conflict, and an evaluation that changes no circular variable leaves
\* its stimulus stable, then each passes through the evaluations, rests and
\* fails to converge as it would alone.
THEOREM LockstepIsSolo ==
  ASSUME RaceFree, Covered
  PROVE  SpecH /\ []QuietIsStable => SoloSpec
<1>1. SoloInv /\ QuietIsStable /\ [NextH]_varsH => SoloInv' /\ SoloStep
  BY NextSoloInv
<1> QED BY InitSoloInv, InitSolo, <1>1, PTL DEF SpecH, SoloSpec, SoloStep, Solo!Spec

\* On the same terms, the convergence error is reported only if one stimulus
\* has by itself been evaluated more often than the limit allows.
THEOREM FatalIsOwn ==
  ASSUME RaceFree, Covered
  PROVE  SpecH /\ []QuietIsStable => []FatalNeedsAStimulus
<1>1. SoloInv /\ QuietIsStable /\ [NextH]_varsH => SoloInv'
  BY NextSoloInv
<1>2. SoloInv => FatalNeedsAStimulus
  BY DEF SoloInv, CountOK
<1> QED BY InitSoloInv, <1>1, <1>2, PTL DEF SpecH

\* On the same terms, run() returns only when one more evaluation would change
\* nothing in any stimulus of the batch.
THEOREM ReturnsStable ==
  ASSUME RaceFree, Covered
  PROVE  SpecH /\ []QuietIsStable => []StableAtReturn
<1>1. SoloInv /\ QuietIsStable /\ [NextH]_varsH => SoloInv'
  BY NextSoloInv
<1>2. SoloInv => StableAtReturn
  <2> SUFFICES ASSUME SoloInv, pc = "end_t", NEW s \in Stimuli
               PROVE  Pass(mem[s], done[s]) = mem[s]
    BY DEF StableAtReturn
  <2>1. Rested(s)
    BY DEF SoloInv, AskedOK, RestOK
  <2>2. Val[s] = mem[s]
    BY DEF Val, Pending, InGraph
  <2> QED BY <2>1, <2>2 DEF Rested
<1> QED BY InitSoloInv, <1>1, <1>2, PTL DEF SpecH
=============================================================================
