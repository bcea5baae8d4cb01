---------------------------- MODULE PartitionProofs ----------------------------
(***************************************************************************)
(* Both halves of V3Partition together, for every design: the graph whose   *)
(* mtasks are printed as kernels has no cycle, and orders what V3Order      *)
(* ordered and what writes the same variable.                               *)
(***************************************************************************)
EXTENDS Partition, ContractionProofs

Fine == INSTANCE DataHazardsProofs WITH pc <- finePc, mtask <- fineMTask, edges <- fineEdges

-----------------------------------------------------------------------------
\* The inductive invariant: each half's own, and that the second half works on
\* what the first has left.
HandedOver == pc # "idle" => finePc = "done" /\ graph = HazardsGraph

GoInv == Fine!FineInv /\ PartInv /\ HandedOver

\* The two instances of DataHazards are one.
LEMMA SameCost == \A t : Hazards!cost(t) = Fine!cost(t)
BY Zenon DEF Hazards!cost, Fine!cost, Hazards!MapThenSumSet, Fine!MapThenSumSet,
       Hazards!MapThenFoldSet, Fine!MapThenFoldSet

LEMMA SameInit == Hazards!Init <=> Fine!Init
BY DEF Hazards!Init, Fine!Init, Hazards!RankOf, Fine!RankOf, Hazards!Ranked, Fine!Ranked,
       Hazards!Written, Fine!Written, Hazards!Cardinality, Fine!Cardinality,
       Hazards!IsFiniteSet, Fine!IsFiniteSet

LEMMA SameMerge ==
  ASSUME NEW S PROVE Hazards!MergeSameRankTasks(S) <=> Fine!MergeSameRankTasks(S)
<1>1. \A t, u : Hazards!Outweighs(t, u) <=> Fine!Outweighs(t, u)
  BY SameCost DEF Hazards!Outweighs, Fine!Outweighs
<1>2. \A into : /\ Hazards!MovedLogic(into) = Fine!MovedLogic(into)
                /\ Hazards!MovedEdges(into) = Fine!MovedEdges(into)
  BY Zenon DEF Hazards!MovedLogic, Fine!MovedLogic, Hazards!MovedEdges, Fine!MovedEdges
<1>3. \A M : Hazards!Chain(M) = Fine!Chain(M)
  BY Zenon DEF Hazards!Chain, Fine!Chain, Hazards!Consecutive, Fine!Consecutive
<1>4. \A t, u : Hazards!SameRank(t, u) <=> Fine!SameRank(t, u)
  BY DEF Hazards!SameRank, Fine!SameRank
<1> QED BY <1>1, <1>2, <1>3, <1>4, Zenon DEF Hazards!MergeSameRankTasks, Fine!MergeSameRankTasks

LEMMA SameNext == Hazards!Next <=> Fine!Next
BY SameMerge DEF Hazards!Next, Fine!Next, Hazards!FixVar, Fine!FixVar, Hazards!FixSystemC,
     Fine!FixSystemC, Hazards!FixDpi, Fine!FixDpi, Hazards!AdjacentTasks, Fine!AdjacentTasks

LEMMA FineAssumption ==
  /\ Logic \subseteq Nat /\ Fine!IsFiniteSet(Logic)
  /\ Cost \in [Logic -> Nat]
  /\ SystemCVars \subseteq Vars
  /\ SerializeDpi \in BOOLEAN
  /\ Designs \subseteq [deps : SUBSET (Logic \X Logic),
                        writes : [Logic -> SUBSET Vars],
                        reads : [Logic -> SUBSET Vars],
                        dpi : SUBSET Logic]
BY HazardsAssumption DEF HazardsAssumption, Fine!IsFiniteSet, IsFiniteSet

LEMMA GoInitially == GoInit => GoInv
<1> SUFFICES ASSUME GoInit PROVE GoInv
  OBVIOUS
<1>1. Fine!Init /\ Init
  BY SameInit DEF GoInit
<1>2. Fine!FineInv
  BY <1>1, FineAssumption, Fine!FineInit
<1>3. PartInv
  BY <1>1, InitKeeps
<1>4. HandedOver
  BY <1>1 DEF Init, HandedOver
<1> QED BY <1>2, <1>3, <1>4 DEF GoInv

LEMMA SameClaims ==
  /\ Hazards!Tasks = Fine!Tasks
  /\ Hazards!TypeOK <=> Fine!TypeOK
  /\ Hazards!PreRanked <=> Fine!PreRanked
  /\ Hazards!FineAcyclic <=> Fine!FineAcyclic
  /\ Hazards!WritersSerialized <=> Fine!WritersSerialized
<1>1. Hazards!Tasks = Fine!Tasks
  BY DEF Hazards!Tasks, Fine!Tasks
<1>2. Hazards!TypeOK <=> Fine!TypeOK
  BY DEF Hazards!TypeOK, Fine!TypeOK
<1>3. Hazards!PreRanked <=> Fine!PreRanked
  BY DEF Hazards!PreRanked, Fine!PreRanked, Hazards!Ranked, Fine!Ranked
<1>4. Hazards!FineAcyclic <=> Fine!FineAcyclic
  BY <1>1, Zenon DEF Hazards!FineAcyclic, Fine!FineAcyclic, Hazards!HasNoCycle, Fine!HasNoCycle
<1>5. \A k, l : Hazards!Serialized(k, l) <=> Fine!Serialized(k, l)
  BY Zenon DEF Hazards!Serialized, Fine!Serialized, Hazards!InOrder, Fine!InOrder,
               Hazards!Before, Fine!Before
<1>6. \A k, l : Hazards!MayConflict(k, l) <=> Fine!MayConflict(k, l)
  BY DEF Hazards!MayConflict, Fine!MayConflict
<1>7. Hazards!WritersSerialized <=> Fine!WritersSerialized
  BY <1>5, <1>6 DEF Hazards!WritersSerialized, Fine!WritersSerialized
<1> QED BY <1>1, <1>2, <1>3, <1>4, <1>7

\* What the first half promises, of its own operators and of Before.
LEMMA FineIs ==
  ASSUME Fine!FineInv
  PROVE  /\ Hazards!TypeOK /\ Hazards!PreRanked /\ Hazards!FineAcyclic /\ Hazards!WritersSerialized
         /\ Hazards!Tasks \subseteq Logic /\ fineEdges \subseteq Hazards!Tasks \X Hazards!Tasks
         /\ HasNoCycle(Hazards!Tasks, fineEdges)
         /\ \A d \in design.deps : Before(Logic, fineEdges, fineMTask[d[1]], fineMTask[d[2]])
         /\ finePc = "done" =>
              \A k, l \in Logic :
                Hazards!MayConflict(k, l) => \/ Before(Logic, fineEdges, fineMTask[k], fineMTask[l])
                                             \/ Before(Logic, fineEdges, fineMTask[l], fineMTask[k])
<1>1. /\ Fine!TypeOK /\ Fine!PreRanked /\ Fine!FineAcyclic /\ Fine!FineDepsKept
      /\ Fine!WritersSerialized
      /\ Fine!Tasks \subseteq Logic /\ fineEdges \subseteq Fine!Tasks \X Fine!Tasks
  BY FineAssumption, Fine!FineInvImplies
<1>2. /\ Hazards!TypeOK /\ Hazards!PreRanked /\ Hazards!FineAcyclic /\ Hazards!WritersSerialized
      /\ Hazards!Tasks \subseteq Logic /\ fineEdges \subseteq Hazards!Tasks \X Hazards!Tasks
  BY <1>1, SameClaims
<1>3. HasNoCycle(Hazards!Tasks, fineEdges)
  BY <1>2 DEF Hazards!FineAcyclic, Hazards!HasNoCycle, HasNoCycle
<1>4. \A k, l : Hazards!InOrder(k, l) <=> Before(Logic, fineEdges, fineMTask[k], fineMTask[l])
  BY Zenon DEF Hazards!InOrder, Hazards!Before, Before
<1>5. \A k, l : Fine!InOrder(k, l) <=> Before(Logic, fineEdges, fineMTask[k], fineMTask[l])
  BY Zenon DEF Fine!InOrder, Fine!Before, Before
<1>6. \A d \in design.deps : Before(Logic, fineEdges, fineMTask[d[1]], fineMTask[d[2]])
  BY <1>1, <1>5 DEF Fine!FineDepsKept
<1>7. finePc = "done" =>
        \A k, l \in Logic :
          Hazards!MayConflict(k, l) => \/ Before(Logic, fineEdges, fineMTask[k], fineMTask[l])
                                       \/ Before(Logic, fineEdges, fineMTask[l], fineMTask[k])
  BY <1>2, <1>4 DEF Hazards!WritersSerialized, Hazards!Serialized
<1> QED BY <1>2, <1>3, <1>6, <1>7

LEMMA HandedGraph ==
  ASSUME Fine!FineInv PROVE HazardsGraph \in Graphs
<1>1. /\ Hazards!Tasks \subseteq Logic /\ fineEdges \subseteq Hazards!Tasks \X Hazards!Tasks
      /\ HasNoCycle(Hazards!Tasks, fineEdges)
  BY FineIs
<1>2. ASSUME NEW t \in Logic PROVE Hazards!cost(t) \in Nat
  <2> DEFINE S == {l \in Logic : fineMTask[l] = t}
  <2>1. Hazards!cost(t) = Sum(Cost, S)
    BY Zenon DEF Hazards!cost, Hazards!MapThenSumSet, Hazards!MapThenFoldSet,
                 Sum, MapThenSumSet, MapThenFoldSet
  <2>2. IsFiniteSet(S) /\ \A x \in S : Cost[x] \in Nat
    <3>1. S \subseteq Logic
      OBVIOUS
    <3> QED BY <3>1, LogicAssumption, HazardsAssumption, FS_Subset
            DEF LogicAssumption, HazardsAssumption
  <2> HIDE DEF S
  <2> QED BY <2>1, <2>2, SumIs
<1>3. /\ HazardsGraph.tasks = Hazards!Tasks /\ HazardsGraph.deps = fineEdges
      /\ HazardsGraph \in [tasks : SUBSET Logic, deps : SUBSET (Logic \X Logic), cost : [Logic -> Nat]]
  <2>1. fineEdges \in SUBSET (Logic \X Logic)
    BY <1>1
  <2>2. [t \in Logic |-> Hazards!cost(t)] \in [Logic -> Nat]
    BY <1>2
  <2> QED BY <1>1, <2>1, <2>2 DEF HazardsGraph
<1> QED BY <1>1, <1>3 DEF Graphs

-----------------------------------------------------------------------------
\* The graph as an operator of what it is made from.
GraphFrom(m, E) ==
  [tasks |-> {m[l] : l \in Logic}, deps |-> E,
   cost |-> [t \in Logic |-> Sum(Cost, {l \in Logic : m[l] = t})]]

LEMMA GraphIsFrom == HazardsGraph = GraphFrom(fineMTask, fineEdges)
BY Zenon DEF HazardsGraph, GraphFrom, Hazards!Tasks, Hazards!cost, Hazards!MapThenSumSet,
             Hazards!MapThenFoldSet, Sum, MapThenSumSet, MapThenFoldSet

LEMMA GraphStays ==
  ASSUME fineVars' = fineVars PROVE HazardsGraph' = HazardsGraph /\ Fine!vars' = Fine!vars
<1>1. /\ design' = design /\ finePc' = finePc /\ pending' = pending /\ rank' = rank
      /\ fineMTask' = fineMTask /\ fineEdges' = fineEdges
  BY DEF fineVars
<1>2. HazardsGraph' = GraphFrom(fineMTask', fineEdges')
  <2>1. (HazardsGraph = GraphFrom(fineMTask, fineEdges))'
    BY GraphIsFrom, PTL
  <2> QED BY <2>1
<1>3. HazardsGraph' = HazardsGraph
  BY <1>1, <1>2, GraphIsFrom
<1> QED BY <1>1, <1>3 DEF Fine!vars

LEMMA FineStays ==
  ASSUME Fine!FineInv, fineVars' = fineVars PROVE Fine!FineInv'
<1>1. Fine!vars' = Fine!vars
  BY GraphStays
<1> QED BY <1>1, FineAssumption, Fine!FineNext

LEMMA MergeFrom ==
  ASSUME Merge PROVE pc # "idle" /\ graph' = graph
<1>1. ASSUME NEW e \in edges, ContractEdge(e) \/ DropEdge(e) PROVE pc # "idle" /\ graph' = graph
  BY <1>1 DEF ContractEdge, DropEdge, Ready, Contract
<1>2. ASSUME NEW p \in pairs, ContractPair(p) \/ DropPair(p) PROVE pc # "idle" /\ graph' = graph
  BY <1>2 DEF ContractPair, DropPair, Ready, Contract
<1>3. CASE RaiseLimit \/ Stop
  BY <1>3 DEF RaiseLimit, Stop, NoneReady
<1>4. CASE RemoveTransitiveEdges
  BY <1>4 DEF RemoveTransitiveEdges
<1>5. ASSUME NEW T \in SUBSET Tasks, RemoveEmpty(T) PROVE pc # "idle" /\ graph' = graph
  BY <1>5 DEF RemoveEmpty
<1> QED BY <1>1, <1>2, <1>3, <1>4, <1>5 DEF Merge

\* GoInv is inductive.
LEMMA GoInductive == GoInv /\ [GoNext]_<<fineVars, vars>> => GoInv'
<1> SUFFICES ASSUME GoInv, [GoNext]_<<fineVars, vars>> PROVE GoInv'
  OBVIOUS
<1>1. Fine!FineInv /\ PartInv /\ HandedOver
  BY DEF GoInv
<1>2. CASE FixHazards
  <2>1. Fine!Next /\ vars' = vars
    BY <1>2, SameNext DEF FixHazards
  <2>2. Fine!FineInv'
    BY <1>1, <2>1, FineAssumption, Fine!FineNext
  <2>3. PartInv'
    BY <1>1, <2>1, UnchangedKeeps
  <2>4. finePc # "done"
    BY <2>1 DEF Fine!Next, Fine!FixVar, Fine!FixSystemC, Fine!FixDpi
  <2>5. HandedOver'
    BY <1>1, <2>1, <2>4 DEF HandedOver, vars
  <2> QED BY <2>2, <2>3, <2>5 DEF GoInv
<1>3. CASE Handover
  <2>1. finePc = "done" /\ Begin(HazardsGraph) /\ fineVars' = fineVars
    BY <1>3 DEF Handover
  <2>2. Fine!FineInv' /\ HazardsGraph' = HazardsGraph
    BY <1>1, <2>1, FineStays, GraphStays
  <2>3. PartInv'
    <3> DEFINE g == HazardsGraph
    <3>1. g \in Graphs
      BY <1>1, HandedGraph
    <3>2. Begin(g)
      BY <2>1
    <3> HIDE DEF g
    <3> QED BY <1>1, <3>1, <3>2, BeginKeeps
  <2>4. graph' = HazardsGraph /\ finePc' = "done"
    BY <2>1 DEF Begin, fineVars
  <2> QED BY <2>2, <2>3, <2>4 DEF GoInv, HandedOver
<1>4. CASE MergeMTasks
  <2>1. Merge /\ fineVars' = fineVars
    BY <1>4 DEF MergeMTasks
  <2>2. Fine!FineInv' /\ HazardsGraph' = HazardsGraph
    BY <1>1, <2>1, FineStays, GraphStays
  <2>3. PartInv'
    BY <1>1, <2>1, MergeKeeps
  <2>4. pc # "idle" /\ graph' = graph /\ finePc' = finePc
    BY <2>1, MergeFrom DEF fineVars
  <2> QED BY <1>1, <2>2, <2>3, <2>4 DEF GoInv, HandedOver
<1>5. CASE UNCHANGED <<fineVars, vars>>
  <2>1. fineVars' = fineVars /\ vars' = vars
    BY <1>5
  <2>2. Fine!FineInv' /\ HazardsGraph' = HazardsGraph
    BY <1>1, <2>1, FineStays, GraphStays
  <2>3. PartInv'
    BY <1>1, <2>1, UnchangedKeeps
  <2>4. pc' = pc /\ graph' = graph /\ finePc' = finePc
    BY <2>1 DEF fineVars, vars
  <2> QED BY <1>1, <2>2, <2>3, <2>4 DEF GoInv, HandedOver
<1> QED BY <1>2, <1>3, <1>4, <1>5 DEF GoNext

LEMMA GoKept == GoSpec => []GoInv
BY GoInitially, GoInductive, PTL DEF GoSpec

\* The cached costs stay close to the critical paths from the graph that was handed over.
LEMMA GoTightKept == GoInv /\ CpTight /\ [GoNext]_<<fineVars, vars>> => CpTight'
<1> SUFFICES ASSUME GoInv, CpTight, [GoNext]_<<fineVars, vars>> PROVE CpTight'
  OBVIOUS
<1>1. PartInv
  BY DEF GoInv
<1>2. CASE FixHazards \/ UNCHANGED <<fineVars, vars>>
  <2>1. UNCHANGED vars
    BY <1>2 DEF FixHazards
  <2> QED BY <1>1, <2>1, CpTightInductive
<1>3. CASE Handover
  <2> DEFINE g == HazardsGraph
  <2>1. g \in Graphs
    BY HandedGraph, <1>3 DEF GoInv
  <2>2. Begin(g)
    BY <1>3 DEF Handover
  <2> HIDE DEF g
  <2>3. Next
    BY <2>1, <2>2 DEF Next
  <2> QED BY <1>1, <2>3, CpTightInductive
<1>4. CASE MergeMTasks
  <2>1. Next
    BY <1>4 DEF MergeMTasks, Next
  <2> QED BY <1>1, <2>1, CpTightInductive
<1> QED BY <1>2, <1>3, <1>4 DEF GoNext

LEMMA OrderAtLast == ASSUME GoInv PROVE FinalOrder
<1> SUFFICES ASSUME pc = "final" PROVE FinalOrder
  BY DEF FinalOrder
<1> DEFINE Of(l) == mtask[fineMTask[l]]
<1>1. /\ PartInv /\ Fine!FineInv /\ finePc = "done" /\ graph = HazardsGraph
  BY DEF GoInv, HandedOver
<1>2. /\ \A d \in design.deps : Before(Logic, fineEdges, fineMTask[d[1]], fineMTask[d[2]])
      /\ \A k, l \in Logic :
           Hazards!MayConflict(k, l) => \/ Before(Logic, fineEdges, fineMTask[k], fineMTask[l])
                                        \/ Before(Logic, fineEdges, fineMTask[l], fineMTask[k])
  BY <1>1, FineIs
<1>3. graph.tasks = Hazards!Tasks /\ graph.deps = fineEdges
  BY <1>1 DEF HazardsGraph
<1>4. ASSUME NEW k \in Logic, NEW l \in Logic, {Of(k), Of(l)} \cap empty = {},
             Before(Logic, fineEdges, fineMTask[k], fineMTask[l])
      PROVE  Before(Logic, edges, Of(k), Of(l))
  <2>1. fineMTask[k] \in graph.tasks /\ fineMTask[l] \in graph.tasks
    BY <1>3 DEF Hazards!Tasks
  <2>2. DepsKept
    BY <1>1 DEF PartInv
  <2> QED BY <1>3, <1>4, <2>1, <2>2 DEF DepsKept
<1>5. ASSUME NEW k \in Logic, NEW l \in Logic, {Of(k), Of(l)} \cap empty = {}
      PROVE  /\ <<k, l>> \in design.deps => Before(Logic, edges, Of(k), Of(l))
             /\ Hazards!MayConflict(k, l) => \/ Before(Logic, edges, Of(k), Of(l))
                                              \/ Before(Logic, edges, Of(l), Of(k))
  <2>1. ASSUME <<k, l>> \in design.deps PROVE Before(Logic, edges, Of(k), Of(l))
    <3>1. Before(Logic, fineEdges, fineMTask[k], fineMTask[l])
      <4> DEFINE d == <<k, l>>
      <4>1. Before(Logic, fineEdges, fineMTask[d[1]], fineMTask[d[2]])
        BY <1>2, <2>1
      <4> QED BY <4>1
    <3> QED BY <1>4, <1>5, <3>1
  <2>2. {Of(l), Of(k)} \cap empty = {}
    BY <1>5
  <2> QED BY <1>2, <1>4, <1>5, <2>1, <2>2
<1> QED BY <1>5 DEF FinalOrder

LEMMA GoImplies ==
  ASSUME GoInv
  PROVE  /\ GoTypeOK /\ PreRanked /\ WritersSerialized /\ GoAcyclic
         /\ SearchIsExact /\ WithinLimit /\ FinalOrder
<1>1. PartInv /\ Fine!FineInv
  BY DEF GoInv
<1>2. TypeOK /\ Acyclic /\ SearchIsExact /\ WithinLimit
  BY <1>1, PartInvImplies
<1>3. /\ Hazards!TypeOK /\ Hazards!PreRanked /\ Hazards!FineAcyclic /\ Hazards!WritersSerialized
  BY <1>1, FineIs
<1> QED BY <1>2, <1>3, OrderAtLast DEF GoTypeOK, PreRanked, WritersSerialized, GoAcyclic

-----------------------------------------------------------------------------
\* Every vertex is in an mtask that exists, and no edge or pair of siblings
\* refers to one that was merged away, for any design.
THEOREM GoTypes == GoSpec => []GoTypeOK
BY GoKept, GoImplies, PTL

\* V3Partition::go may sort the mtasks by the ranks computed before the first
\* merge.
THEOREM GoRanks == GoSpec => []PreRanked
BY GoKept, GoImplies, PTL

\* "unordered pairs of writes": PartFixDataHazards leaves none in any design.
THEOREM GoSerializes == GoSpec => []WritersSerialized
BY GoKept, GoImplies, PTL

\* No merge of either half closes a cycle, whatever the costs, the order of the
\* candidates and the limit: so every evaluation of the model ends.
THEOREM GoStaysAcyclic == GoSpec => []GoAcyclic
BY GoKept, GoImplies, PTL

\* The critical paths, only ever updated, stay long enough for the search for a
\* cycle to be cut where pathExistsFrom cuts it.
THEOREM GoSearchesExactly == GoSpec => []SearchIsExact
BY GoKept, GoImplies, PTL

\* partCheckCriticalPaths never fails on the graph of any design: however often they
\* were updated, the cached critical paths are what a computation would give, or more
\* by no more than what costs are rounded.
THEOREM GoStaysNear == GoSpec => []CpNear
<1>1. GoInit => CpTight
  BY DEF GoInit, Init, CpTight
<1>2. GoInv /\ CpTight => CpNear
  BY CpTightImplies DEF GoInv
<1> QED BY <1>1, <1>2, GoKept, GoTightKept, PTL DEF GoSpec

\* Merging makes no path longer than the limit, raised as it may have been,
\* unless the graph had one as long to begin with.
THEOREM GoStaysWithin == GoSpec => []WithinLimit
BY GoKept, GoImplies, PTL

\* The mtasks that become kernels are ordered where V3Order ordered their logic
\* and where they write the same variable, through both halves and the removal
\* of transitive edges and of empty mtasks.
THEOREM GoKeepsOrder == GoSpec => []FinalOrder
BY GoKept, GoImplies, PTL
=============================================================================
