--------------------------- MODULE DataHazardsProofs ---------------------------
(***************************************************************************)
(* Theorems about PartFixDataHazards, for every design: the graph it leaves *)
(* is ranked and without a cycle, keeps every dependency V3Order asked for, *)
(* and serializes every two writers of a variable.                          *)
(***************************************************************************)
EXTENDS DataHazards, MTaskGraphProofs

-----------------------------------------------------------------------------
\* The chain orders all the tasks of different ranks it is laid through.
LEMMA ChainOrders ==
  ASSUME rank \in [Logic -> Nat], NEW M \in SUBSET Logic,
         \A x, y \in M : rank[x] = rank[y] => x = y,
         NEW F, Chain(M) \subseteq F,
         NEW t \in M, NEW u \in M, rank[t] < rank[u]
  PROVE  Before(Logic, F, t, u)
<1> SUFFICES ASSUME NEW U \in SUBSET Logic, t \in U,
                    \A e \in F : e[1] \in U => e[2] \in U,
                    u \notin U
             PROVE  FALSE
  BY DEF Before
<1> DEFINE Out == {x \in M : x \notin U /\ rank[t] < rank[x]}
<1>1. PICK y \in Out : \A x \in Out : rank[y] <= rank[x]
  <2>1. u \in Out
    OBVIOUS
  <2> DEFINE f == [x \in Out |-> rank[x]]
  <2>2. f \in [Out -> Nat]
    OBVIOUS
  <2>3. \E y \in Out : \A x \in Out : f[y] <= f[x]
    <3> HIDE DEF Out, f
    <3> QED BY <2>1, <2>2, LeastRank
  <2> QED BY <2>3
<1> DEFINE In == {x \in M : rank[t] <= rank[x] /\ rank[x] < rank[y]}
<1>2. PICK x \in In : \A z \in In : rank[z] <= rank[x]
  <2>1. t \in In
    BY <1>1
  <2> DEFINE f == [x \in In |-> rank[y] - rank[x]]
  <2>2. f \in [In -> Nat]
    BY <1>1
  <2>3. PICK x \in In : \A z \in In : f[x] <= f[z]
    <3> HIDE DEF In, f
    <3> QED BY <2>1, <2>2, LeastRank
  <2>4. ASSUME NEW z \in In PROVE rank[z] <= rank[x]
    <3>1. rank[y] - rank[x] <= rank[y] - rank[z]
      BY <2>3
    <3>2. rank[x] \in Nat /\ rank[y] \in Nat /\ rank[z] \in Nat
      BY <1>1
    <3> QED BY <3>1, <3>2
  <2> QED BY <2>4
<1>3. rank[t] \in Nat /\ rank[x] \in Nat /\ rank[y] \in Nat
  BY <1>1
<1>4. Consecutive(x, y, M)
  <2>1. ASSUME NEW z \in M, rank[x] < rank[z], rank[z] < rank[y] PROVE FALSE
    <3>1. rank[z] \in Nat
      OBVIOUS
    <3>2. z \in In
      BY <2>1, <3>1, <1>3
    <3> QED BY <3>1, <3>2, <1>2, <1>3, <2>1
  <2> QED BY <2>1 DEF Consecutive
<1>5. <<x, y>> \in F
  BY <1>4, <1>1 DEF Chain
<1>6. x \in U
  <2>1. CASE rank[x] = rank[t]
    BY <2>1
  <2>2. CASE rank[x] # rank[t]
    <3>1. rank[t] < rank[x]
      BY <2>2, <1>3
    <3>2. x \in Out => rank[y] <= rank[x]
      BY <1>1
    <3> QED BY <3>1, <3>2, <1>3
  <2> QED BY <2>1, <2>2
<1>7. <<x, y>>[2] \in U
  BY <1>5, <1>6
<1> QED BY <1>7, <1>1

-----------------------------------------------------------------------------
\* What one call of mergeSameRankTasks does.

TypeInv ==
  /\ design \in [deps : SUBSET (Logic \X Logic),
                 writes : [Logic -> SUBSET Vars],
                 reads : [Logic -> SUBSET Vars], dpi : SUBSET Logic]
  /\ rank \in [Logic -> Nat]
  /\ mtask \in [Logic -> Logic]
  /\ edges \in SUBSET (Logic \X Logic)

\* It keeps types and ranks.
LEMMA MergeRanked ==
  ASSUME TypeInv, PreRanked, NEW S \in SUBSET Logic, MergeSameRankTasks(S),
         rank' = rank
  PROVE  mtask' \in [Logic -> Logic] /\ edges' \in SUBSET (Logic \X Logic) /\ PreRanked'
<1> USE DEF TypeInv
<1>1. PICK f \in [S -> S] :
        /\ \A t \in S : SameRank(t, f[t])
        /\ mtask' = MovedLogic([t \in Logic |-> IF t \in S THEN f[t] ELSE t])
        /\ edges' = MovedEdges([t \in Logic |-> IF t \in S THEN f[t] ELSE t])
                      \cup Chain({f[t] : t \in S})
  BY DEF MergeSameRankTasks
<1> DEFINE into == [t \in Logic |-> IF t \in S THEN f[t] ELSE t]
<1>2. into \in [Logic -> Logic] /\ \A t \in Logic : rank[into[t]] = rank[t]
  BY <1>1 DEF SameRank
<1> HIDE DEF into
<1>3. mtask' \in [Logic -> Logic]
  BY <1>1, <1>2 DEF MovedLogic, into
<1>4. MovedEdges(into) \in SUBSET (Logic \X Logic) /\ Ranked(MovedEdges(into), rank)
  <2>1. ASSUME NEW e \in edges
        PROVE  /\ <<into[e[1]], into[e[2]]>> \in Logic \X Logic
               /\ rank[into[e[1]]] < rank[into[e[2]]]
    BY <1>2, <2>1 DEF PreRanked, Ranked
  <2> QED BY <2>1 DEF MovedEdges, Ranked
<1>5. /\ Chain({f[t] : t \in S}) \in SUBSET (Logic \X Logic)
      /\ Ranked(Chain({f[t] : t \in S}), rank)
  BY <1>1 DEF Chain, Consecutive, Ranked
<1>6. edges' = MovedEdges(into) \cup Chain({f[t] : t \in S})
  BY <1>1 DEF into
<1>7. edges' \in SUBSET (Logic \X Logic)
  BY <1>4, <1>5, <1>6
<1>8. Ranked(edges', rank')
  BY <1>4, <1>5, <1>6 DEF Ranked
<1> QED BY <1>3, <1>7, <1>8 DEF PreRanked

\* It keeps the order of any two vertices, and orders those of S.
LEMMA MergeOrders ==
  ASSUME TypeInv, NEW S \in SUBSET Logic, MergeSameRankTasks(S),
         NEW k \in Logic, NEW l \in Logic
  PROVE  /\ InOrder(k, l) => InOrder(k, l)'
         /\ mtask[k] \in S /\ mtask[l] \in S => Serialized(k, l)'
<1> USE DEF TypeInv
<1>1. PICK f \in [S -> S] :
        /\ \A t \in S : SameRank(t, f[t])
        /\ \A t, u \in S : SameRank(t, u) => f[t] = f[u]
        /\ mtask' = MovedLogic([t \in Logic |-> IF t \in S THEN f[t] ELSE t])
        /\ edges' = MovedEdges([t \in Logic |-> IF t \in S THEN f[t] ELSE t])
                      \cup Chain({f[t] : t \in S})
  BY DEF MergeSameRankTasks
<1> DEFINE into == [t \in Logic |-> IF t \in S THEN f[t] ELSE t]
           M == {f[t] : t \in S}
<1>2. into \in [Logic -> Logic] /\ \A e \in edges : <<into[e[1]], into[e[2]]>> \in edges'
  BY <1>1 DEF MovedEdges
<1>3. mtask'[k] = into[mtask[k]] /\ mtask'[l] = into[mtask[l]]
  BY <1>1 DEF MovedLogic
<1>4. ASSUME InOrder(k, l) PROVE InOrder(k, l)'
  <2>1. Before(Logic, edges, mtask[k], mtask[l])
    BY <1>4 DEF InOrder
  <2>2. Before(Logic, edges', into[mtask[k]], into[mtask[l]])
    <3> HIDE DEF into
    <3> QED BY <1>2, <2>1, BeforeMerged
  <2> QED BY <1>3, <2>2 DEF InOrder
<1>5. ASSUME mtask[k] \in S, mtask[l] \in S PROVE Serialized(k, l)'
  <2>1. /\ M \in SUBSET Logic /\ Chain(M) \subseteq edges'
        /\ mtask'[k] \in M /\ mtask'[l] \in M
    <3>1. M \in SUBSET Logic
      OBVIOUS
    <3>2. Chain(M) \subseteq edges'
      BY <1>1
    <3>3. mtask'[k] = f[mtask[k]] /\ mtask'[l] = f[mtask[l]]
      BY <1>3, <1>5
    <3> QED BY <3>1, <3>2, <3>3, <1>5
  <2>2. ASSUME NEW x \in M, NEW y \in M, rank[x] = rank[y] PROVE x = y
    <3>1. PICK t \in S, u \in S : x = f[t] /\ y = f[u]
      OBVIOUS
    <3>2. SameRank(t, u)
      BY <1>1, <2>2, <3>1 DEF SameRank
    <3> QED BY <1>1, <3>1, <3>2
  <2>3. ASSUME NEW x \in M, NEW y \in M, rank[x] < rank[y] PROVE Before(Logic, edges', x, y)
    <3> HIDE DEF M
    <3> QED BY <2>1, <2>2, <2>3, ChainOrders
  <2>4. rank[mtask'[k]] \in Nat /\ rank[mtask'[l]] \in Nat
    BY <2>1
  <2>5. CASE rank[mtask'[k]] < rank[mtask'[l]]
    BY <2>1, <2>3, <2>5 DEF Serialized, InOrder
  <2>6. CASE rank[mtask'[l]] < rank[mtask'[k]]
    BY <2>1, <2>3, <2>6 DEF Serialized, InOrder
  <2>7. CASE rank[mtask'[k]] = rank[mtask'[l]]
    <3>1. mtask'[k] = mtask'[l]
      BY <2>1, <2>2, <2>7
    <3> QED BY <3>1, BeforeItself DEF Serialized, InOrder
  <2> QED BY <2>4, <2>5, <2>6, <2>7
<1> QED BY <1>4, <1>5

-----------------------------------------------------------------------------
\* The inductive invariant: what has been dealt with is serialized.

VarsDone ==
  \A v \in Vars \ (pending \cup SystemCVars), k, l \in Logic :
    v \in design.writes[k] /\ v \in design.writes[l] => Serialized(k, l)

SystemCDone ==
  pc \in {"dpi", "done"} =>
    /\ pending = {}
    /\ \A k, l \in Logic :
         design.writes[k] \cap SystemCVars # {} /\ design.writes[l] \cap SystemCVars # {}
           => Serialized(k, l)

DpiDone == pc = "done" /\ SerializeDpi => \A k, l \in design.dpi : Serialized(k, l)

HazardsInv ==
  /\ TypeInv /\ PreRanked
  /\ FineDepsKept /\ VarsDone /\ SystemCDone /\ DpiDone

LEMMA HazardsInit == Init => HazardsInv
<1> SUFFICES ASSUME Init PROVE HazardsInv
  OBVIOUS
<1> USE HazardsAssumption DEF Init
<1>1. design \in [deps : SUBSET (Logic \X Logic),
                  writes : [Logic -> SUBSET Vars], reads : [Logic -> SUBSET Vars], dpi : SUBSET Logic]
  OBVIOUS
<1>2. rank \in [Logic -> 0 .. Cardinality(Logic) - 1] /\ Ranked(design.deps, rank)
  BY DEF RankOf
<1>3. rank \in [Logic -> Nat]
  BY <1>2
<1>4. TypeInv /\ PreRanked
  BY <1>1, <1>2, <1>3 DEF TypeInv, PreRanked
<1>5. FineDepsKept
  <2>1. ASSUME NEW d \in design.deps PROVE InOrder(d[1], d[2])
    <3>1. d[1] \in Logic /\ d[2] \in Logic /\ d \in edges
      BY <1>1
    <3>2. Before(Logic, edges, d[1], d[2])
      BY <3>1 DEF Before
    <3> QED BY <3>1, <3>2 DEF InOrder
  <2> QED BY <2>1 DEF FineDepsKept
<1>6. VarsDone
  BY <1>1 DEF VarsDone, Written
<1> QED BY <1>4, <1>5, <1>6 DEF HazardsInv, SystemCDone, DpiDone

\* A merge keeps everything that has been dealt with.
LEMMA MergeKeeps ==
  ASSUME HazardsInv, NEW S \in SUBSET Logic, MergeSameRankTasks(S),
         design' = design, rank' = rank
  PROVE  /\ TypeInv' /\ PreRanked' /\ FineDepsKept'
         /\ \A k, l \in Logic : Serialized(k, l) => Serialized(k, l)'
<1>1. TypeInv /\ PreRanked /\ FineDepsKept
  BY DEF HazardsInv
<1>2. TypeInv' /\ PreRanked'
  BY <1>1, MergeRanked DEF TypeInv
<1>3. \A k, l \in Logic : InOrder(k, l) => InOrder(k, l)'
  BY <1>1, MergeOrders
<1>4. FineDepsKept'
  <2>1. ASSUME NEW d \in design.deps PROVE InOrder(d[1], d[2])'
    <3>1. d[1] \in Logic /\ d[2] \in Logic /\ InOrder(d[1], d[2])
      BY <1>1 DEF TypeInv, FineDepsKept
    <3> QED BY <3>1, <1>3
  <2> QED BY <2>1 DEF FineDepsKept
<1> QED BY <1>2, <1>3, <1>4 DEF Serialized

LEMMA AdjacentAreTasks ==
  ASSUME TypeInv, NEW vs PROVE AdjacentTasks(vs) \in SUBSET Logic
BY DEF TypeInv, AdjacentTasks

LEMMA HazardsNext == HazardsInv /\ [Next]_vars => HazardsInv'
<1> SUFFICES ASSUME HazardsInv, [Next]_vars PROVE HazardsInv'
  OBVIOUS
<1>t. TypeInv /\ VarsDone /\ SystemCDone /\ DpiDone
  BY DEF HazardsInv
<1>1. ASSUME NEW v \in Vars, FixVar(v) PROVE HazardsInv'
  <2>1. /\ MergeSameRankTasks(AdjacentTasks({v}))
        /\ design' = design /\ rank' = rank /\ pc = "vars" /\ pc' = "vars"
        /\ pending' = pending \ {v}
    BY <1>1 DEF FixVar
  <2>2. AdjacentTasks({v}) \in SUBSET Logic
    BY <1>t, AdjacentAreTasks
  <2>3. /\ TypeInv' /\ PreRanked' /\ FineDepsKept'
        /\ \A k, l \in Logic : Serialized(k, l) => Serialized(k, l)'
    BY <2>1, <2>2, MergeKeeps
  <2>4. VarsDone'
    <3>1. ASSUME NEW w \in Vars \ (pending' \cup SystemCVars),
                 NEW k \in Logic, NEW l \in Logic,
                 w \in design.writes[k], w \in design.writes[l]
          PROVE  Serialized(k, l)'
      <4>1. CASE w = v
        <5>1. mtask[k] \in AdjacentTasks({v}) /\ mtask[l] \in AdjacentTasks({v})
          BY <3>1, <4>1 DEF AdjacentTasks
        <5> QED BY <5>1, <1>t, <2>1, <2>2, MergeOrders
      <4>2. CASE w # v
        BY <3>1, <4>2, <2>1, <2>3, <1>t DEF VarsDone
      <4> QED BY <4>1, <4>2
    <3> QED BY <3>1, <2>1 DEF VarsDone
  <2> QED BY <2>1, <2>3, <2>4 DEF HazardsInv, SystemCDone, DpiDone
<1>2. ASSUME FixSystemC PROVE HazardsInv'
  <2>1. /\ MergeSameRankTasks(AdjacentTasks(SystemCVars))
        /\ design' = design /\ rank' = rank /\ pc' = "dpi"
        /\ pending = {} /\ pending' = pending
    BY <1>2 DEF FixSystemC
  <2>2. AdjacentTasks(SystemCVars) \in SUBSET Logic
    BY <1>t, AdjacentAreTasks
  <2>3. /\ TypeInv' /\ PreRanked' /\ FineDepsKept'
        /\ \A k, l \in Logic : Serialized(k, l) => Serialized(k, l)'
    BY <2>1, <2>2, MergeKeeps
  <2>4. VarsDone'
    BY <2>1, <2>3, <1>t DEF VarsDone
  <2>5. SystemCDone'
    <3>1. ASSUME NEW k \in Logic, NEW l \in Logic,
                 design.writes[k] \cap SystemCVars # {},
                 design.writes[l] \cap SystemCVars # {}
          PROVE  Serialized(k, l)'
      <4>1. mtask[k] \in AdjacentTasks(SystemCVars) /\ mtask[l] \in AdjacentTasks(SystemCVars)
        BY <3>1 DEF AdjacentTasks
      <4> QED BY <4>1, <1>t, <2>1, <2>2, MergeOrders
    <3> QED BY <3>1, <2>1 DEF SystemCDone
  <2> QED BY <2>1, <2>3, <2>4, <2>5 DEF HazardsInv, DpiDone
<1>3. ASSUME FixDpi PROVE HazardsInv'
  <2>1. /\ design' = design /\ rank' = rank /\ pending' = pending
        /\ pc = "dpi" /\ pc' = "done"
    BY <1>3 DEF FixDpi
  <2>2. CASE SerializeDpi
    <3> DEFINE S == {mtask[l] : l \in design.dpi}
    <3>1. MergeSameRankTasks(S)
      BY <1>3, <2>2 DEF FixDpi
    <3>d. design.dpi \subseteq Logic
      BY <1>t DEF TypeInv
    <3>2. S \in SUBSET Logic
      BY <1>t, <3>d DEF TypeInv
    <3>3. /\ TypeInv' /\ PreRanked' /\ FineDepsKept'
          /\ \A k, l \in Logic : Serialized(k, l) => Serialized(k, l)'
      <4> HIDE DEF S
      <4> QED BY <2>1, <3>1, <3>2, MergeKeeps
    <3>4. DpiDone'
      <4>1. ASSUME NEW k \in design.dpi, NEW l \in design.dpi PROVE Serialized(k, l)'
        <5>1. mtask[k] \in S /\ mtask[l] \in S /\ k \in Logic /\ l \in Logic
          BY <3>d
        <5> HIDE DEF S
        <5> QED BY <5>1, <1>t, <3>1, <3>2, MergeOrders
      <4> QED BY <2>1, <4>1 DEF DpiDone
    <3>5. VarsDone' /\ SystemCDone'
      BY <2>1, <3>3, <1>t DEF VarsDone, SystemCDone
    <3> QED BY <3>3, <3>4, <3>5 DEF HazardsInv
  <2>3. CASE ~SerializeDpi
    <3>1. mtask' = mtask /\ edges' = edges
      BY <1>3, <2>3 DEF FixDpi
    <3> QED BY <2>1, <2>3, <3>1 DEF HazardsInv, TypeInv, PreRanked, FineDepsKept, VarsDone,
                                    SystemCDone, DpiDone, Serialized, InOrder
  <2> QED BY <2>2, <2>3
<1>4. ASSUME UNCHANGED vars PROVE HazardsInv'
  BY <1>4 DEF vars, HazardsInv, TypeInv, PreRanked, FineDepsKept, VarsDone, SystemCDone,
              DpiDone, Serialized, InOrder
<1> QED BY <1>1, <1>2, <1>3, <1>4 DEF Next

-----------------------------------------------------------------------------
\* Edges join mtasks that exist: a merge takes its edges along.
EdgesOfTasks == edges \subseteq Tasks \X Tasks

Phases == pc \in {"vars", "dpi", "done"} /\ pending \subseteq Vars

FineInv == HazardsInv /\ Phases /\ EdgesOfTasks

LEMMA MergeTasks ==
  ASSUME TypeInv, EdgesOfTasks, NEW S \in SUBSET Tasks, MergeSameRankTasks(S)
  PROVE  EdgesOfTasks'
<1>1. PICK f \in [S -> S] :
        /\ mtask' = MovedLogic([t \in Logic |-> IF t \in S THEN f[t] ELSE t])
        /\ edges' = MovedEdges([t \in Logic |-> IF t \in S THEN f[t] ELSE t])
                      \cup Chain({f[t] : t \in S})
  BY DEF MergeSameRankTasks
<1> DEFINE into == [t \in Logic |-> IF t \in S THEN f[t] ELSE t]
<1>2. mtask \in [Logic -> Logic] /\ Tasks \subseteq Logic
  BY DEF TypeInv, Tasks
<1>3. ASSUME NEW t \in Tasks PROVE into[t] \in Tasks'
  <2>1. PICK l \in Logic : t = mtask[l]
    BY DEF Tasks
  <2>2. mtask'[l] = into[mtask[l]]
    BY <1>1, <1>2 DEF MovedLogic
  <2> QED BY <2>1, <2>2 DEF Tasks
<1>4. ASSUME NEW t \in S PROVE f[t] \in Tasks'
  <2>1. PICK l \in Logic : f[t] = mtask[l]
    BY DEF Tasks
  <2>2. t \in Tasks /\ t \in Logic /\ into[t] = f[t]
    BY <1>2
  <2> QED BY <1>3, <2>2
<1>5. ASSUME NEW e \in edges' PROVE e \in Tasks' \X Tasks'
  <2>1. CASE e \in Chain({f[t] : t \in S})
    <3>1. e \in {f[t] : t \in S} \X {f[t] : t \in S}
      BY <2>1 DEF Chain
    <3> QED BY <1>4, <3>1
  <2>2. CASE e \in MovedEdges(into)
    <3>1. PICK o \in edges : e = <<into[o[1]], into[o[2]]>>
      BY <2>2 DEF MovedEdges
    <3>2. o[1] \in Tasks /\ o[2] \in Tasks
      BY DEF EdgesOfTasks
    <3> QED BY <1>3, <3>1, <3>2
  <2> QED BY <1>1, <2>1, <2>2
<1> QED BY <1>5 DEF EdgesOfTasks

LEMMA FineInit == Init => FineInv
<1> SUFFICES ASSUME Init PROVE FineInv
  OBVIOUS
<1>1. HazardsInv
  BY HazardsInit
<1>2. Phases
  BY HazardsAssumption DEF Init, Written, Phases
<1>3. EdgesOfTasks
  <2>1. Tasks = Logic
    BY DEF Init, Tasks
  <2> QED BY <1>1, <2>1 DEF HazardsInv, TypeInv, EdgesOfTasks
<1> QED BY <1>1, <1>2, <1>3 DEF FineInv

LEMMA FineNext == FineInv /\ [Next]_vars => FineInv'
<1> SUFFICES ASSUME FineInv, [Next]_vars PROVE FineInv'
  OBVIOUS
<1>1. HazardsInv'
  BY HazardsNext DEF FineInv
<1>2. Phases'
  BY DEF FineInv, Phases, Next, vars, FixVar, FixSystemC, FixDpi
<1>3. TypeInv /\ EdgesOfTasks
  BY DEF FineInv, HazardsInv
<1>4. \A vs : AdjacentTasks(vs) \in SUBSET Tasks
  BY DEF AdjacentTasks, Tasks
<1>5. {mtask[l] : l \in design.dpi} \in SUBSET Tasks
  BY <1>3 DEF TypeInv, Tasks
<1>6. ASSUME mtask' = mtask, edges' = edges PROVE EdgesOfTasks'
  BY <1>3, <1>6 DEF EdgesOfTasks, Tasks
<1>7. EdgesOfTasks'
  <2>1. ASSUME NEW v \in Vars, FixVar(v) PROVE EdgesOfTasks'
    BY <1>3, <1>4, <2>1, MergeTasks DEF FixVar
  <2>2. CASE FixSystemC
    BY <1>3, <1>4, <2>2, MergeTasks DEF FixSystemC
  <2>3. CASE FixDpi
    BY <1>3, <1>5, <1>6, <2>3, MergeTasks DEF FixDpi
  <2>4. CASE UNCHANGED vars
    BY <1>6, <2>4 DEF vars
  <2> QED BY <2>1, <2>2, <2>3, <2>4 DEF Next
<1> QED BY <1>1, <1>2, <1>7 DEF FineInv

LEMMA RankedAcyclic ==
  ASSUME HazardsInv PROVE FineAcyclic
<1> SUFFICES ASSUME HazardsInv, NEW S \in SUBSET Tasks, S # {}
             PROVE  \E t \in S : \A u \in S : <<u, t>> \notin edges
  BY DEF FineAcyclic, HasNoCycle
<1>1. TypeInv /\ PreRanked
  BY DEF HazardsInv
<1>2. S \subseteq Logic
  BY <1>1 DEF TypeInv, Tasks
<1> DEFINE f == [t \in S |-> rank[t]]
<1>3. f \in [S -> Nat]
  BY <1>1, <1>2 DEF TypeInv
<1>4. PICK t \in S : \A u \in S : f[t] <= f[u]
  <2> HIDE DEF f
  <2> QED BY <1>3, LeastRank
<1>5. ASSUME NEW u \in S, <<u, t>> \in edges PROVE FALSE
  <2>1. rank[u] < rank[t]
    <3>1. rank[<<u, t>>[1]] < rank[<<u, t>>[2]]
      BY <1>1, <1>5 DEF PreRanked, Ranked
    <3> QED BY <3>1
  <2>2. rank[t] <= rank[u] /\ rank[t] \in Nat /\ rank[u] \in Nat
    BY <1>1, <1>2, <1>4 DEF TypeInv
  <2> QED BY <2>1, <2>2
<1> QED BY <1>5

LEMMA DoneSerialized ==
  ASSUME HazardsInv PROVE WritersSerialized
<1> SUFFICES ASSUME HazardsInv, pc = "done", NEW k \in Logic, NEW l \in Logic,
                    \/ design.writes[k] \cap design.writes[l] # {}
                    \/ /\ design.writes[k] \cap SystemCVars # {}
                       /\ design.writes[l] \cap SystemCVars # {}
                    \/ SerializeDpi /\ {k, l} \subseteq design.dpi
             PROVE  Serialized(k, l)
  BY DEF WritersSerialized, MayConflict
<1>1. TypeInv /\ VarsDone /\ SystemCDone /\ DpiDone /\ pending = {}
  BY DEF HazardsInv, SystemCDone
<1>2. CASE /\ design.writes[k] \cap SystemCVars # {}
           /\ design.writes[l] \cap SystemCVars # {}
  BY <1>1, <1>2 DEF SystemCDone
<1>3. CASE SerializeDpi /\ {k, l} \subseteq design.dpi
  BY <1>1, <1>3 DEF DpiDone
<1>4. CASE design.writes[k] \cap design.writes[l] # {}
  <2>1. PICK v \in design.writes[k] : v \in design.writes[l]
    BY <1>4
  <2>2. v \in Vars
    BY <1>1, <2>1 DEF TypeInv
  <2>3. CASE v \in SystemCVars
    BY <2>1, <2>3, <1>1 DEF SystemCDone
  <2>4. CASE v \notin SystemCVars
    BY <2>1, <2>2, <2>4, <1>1 DEF VarsDone
  <2> QED BY <2>3, <2>4
<1> QED BY <1>2, <1>3, <1>4

LEMMA FineInvImplies ==
  ASSUME FineInv
  PROVE  /\ TypeOK /\ PreRanked /\ FineAcyclic /\ FineDepsKept /\ WritersSerialized
         /\ Tasks \subseteq Logic /\ edges \subseteq Tasks \X Tasks
<1>1. HazardsInv /\ TypeInv /\ PreRanked /\ FineDepsKept
  BY DEF FineInv, HazardsInv
<1>2. TypeOK
  BY <1>1 DEF FineInv, Phases, TypeInv, TypeOK
<1>3. Tasks \subseteq Logic
  BY <1>1 DEF TypeInv, Tasks
<1> QED BY <1>1, <1>2, <1>3, RankedAcyclic, DoneSerialized DEF FineInv, EdgesOfTasks

LEMMA FineKept == Spec => []FineInv
<1> QED BY FineInit, FineNext, PTL DEF Spec

-----------------------------------------------------------------------------
\* The variables hold what the code's types allow: in particular every vertex
\* is, at any time, in an mtask that exists.
THEOREM HazardsTypes == Spec => []TypeOK
BY FineKept, FineInvImplies, PTL

\* The ranks computed before the pass are still ranks of the graph after it,
\* as V3Partition::go assumes when it orders the graph by them.
THEOREM RanksSurvive == Spec => []PreRanked
BY FineKept, FineInvImplies, PTL

\* The mtask graph of any design has no cycle.
THEOREM HazardsAcyclic == Spec => []FineAcyclic
BY FineKept, FineInvImplies, PTL

\* A dependency of V3Order's graph is a dependency of the mtask graph, or
\* inside one mtask.
THEOREM HazardsKeepDeps == Spec => []FineDepsKept
BY FineKept, FineInvImplies, PTL

\* No two mtasks that write one variable, write SystemC variables, or call DPI
\* run at the same time.
THEOREM HazardsSerializeWriters == Spec => []WritersSerialized
BY FineKept, FineInvImplies, PTL
=============================================================================
