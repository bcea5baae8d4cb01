------------------------------ MODULE Contraction ------------------------------
(***************************************************************************)
(* V3Partition, second half: partInitCriticalPaths, PartContraction,        *)
(* removeTransitiveEdges, and finalizeCosts, which takes out the mtasks     *)
(* that later passes have left without a statement.  Mtasks are merged, two *)
(* at a time, until merging more would make the critical path longer than a *)
(* limit.  A candidate is an edge, or a pair of siblings; it is dropped if  *)
(* its merge would close a cycle.  The search for that cycle is cut short by*)
(* the critical path costs cached in the mtasks, which are never recomputed *)
(* but updated at every merge, so one wrong number may put a cycle into the *)
(* graph.                                                                   *)
(*                                                                          *)
(* The scoreboard is abstracted to the set of candidates it holds: any of   *)
(* them whose score is within the limit may be the next, whatever its       *)
(* cached score.  Mtasks are their ids, as in DataHazards.                  *)
(***************************************************************************)
EXTENDS MTaskIds, Sequences, SequencesExt

CONSTANTS
  Steps,              \* the numbers stepCost rounds up to, and with
  StepPercent,        \* what they are at most, in percent of the cost
  Threads,            \* --threads
  ThreadsMaxMTasks    \* --threads-max-mtasks, 0 if not given

VARIABLES
  graph,      \* the graph PartFixDataHazards left: a record of tasks, deps
              \* and cost
  pc,         \* "idle", "contract", "contracted", "partitioned", "final"
  mtask,      \* the mtask each of the first mtasks is in
  edges,      \* the MTaskEdges
  cp,         \* m_critPathCost, in both ways
  edgeCp,     \* m_edges: per way and edge, the cost cached at its far end
  offEdges,   \* MTaskEdges with removedFromSb
  pairs,      \* m_pairs, the SiblingMCs
  offPairs,   \* those with removedFromSb
  scoreLimit, \* m_scoreLimit
  empty       \* the mtasks finalizeCosts has taken out

vars == <<graph, pc, mtask, edges, cp, edgeCp, offEdges, pairs, offPairs, scoreLimit, empty>>

ASSUME ContractionAssumption ==
  /\ Steps \subseteq Nat
  /\ Threads \in Nat \ {0, 1}      \* "We should not reach V3Partition when --threads <= 1"
  /\ ThreadsMaxMTasks \in Nat
  /\ StepPercent \in Nat \ 0 .. 99
  \* "stepped cost error exceeded": no cost is rounded up by more.
  /\ \A s \in Steps : \A c \in 0 .. s :
       (\A r \in Steps : r >= c => r >= s) => 100 * s <= StepPercent * c

\* The graphs to start with.
Graphs == {g \in [tasks : SUBSET Logic, deps : SUBSET (Logic \X Logic), cost : [Logic -> Nat]] :
             g.deps \subseteq g.tasks \X g.tasks /\ HasNoCycle(g.tasks, g.deps)}

Ways == {"FORWARD", "REVERSE"}
PART_DEFAULT_MAX_MTASKS_PER_THREAD == 50
maxMTasks == IF ThreadsMaxMTasks = 0 THEN PART_DEFAULT_MAX_MTASKS_PER_THREAD * Threads
                                     ELSE ThreadsMaxMTasks

-----------------------------------------------------------------------------
(* Mtasks, the ends of an edge in a way, and critical paths.                *)

\* LogicMTask::stepCost; a cost above the last of the steps stays as it is.
StepCost(c) ==
  LET enough == {s \in Steps : s >= c}
  IN IF enough = {} THEN c ELSE Min(enough)

Tasks == {mtask[l] : l \in graph.tasks}
CostIn(m, t) == MapThenSumSet(LAMBDA l : graph.cost[l], {l \in graph.tasks : m[l] = t})
StepCosts(m) == [t \in Logic |-> StepCost(CostIn(m, t))]
cost(t) == CostIn(mtask, t)
stepCost(t) == StepCost(cost(t))

Near(way, e) == IF way = "FORWARD" THEN e[1] ELSE e[2]
Far(way, e) == IF way = "FORWARD" THEN e[2] ELSE e[1]
Relatives(E, way, t) == {Far(way, e) : e \in {d \in E : Near(way, d) = t}}
Earlier(E, way, t) == {Near(way, e) : e \in {d \in E : Far(way, d) = t}}

\* partInitHalfCriticalPaths
CriticalPath(way, E, step) ==
  LET path[t \in Logic] ==
        Max({0} \cup {path[u] + step[u] : u \in Earlier(E, way, t)})
  IN path

\* siblingPairFromRelatives: neighbours in the order of their paths, at most
\* three pairs unless exhaustive.  (Relatives beyond the 26th are not looked
\* at; the instances have fewer.)
PairsFrom(E, step, c, way, t, exhaustive) ==
  LET Inclusive(u) == c[way][u] + step[u]
      q == SetToSortSeq(Relatives(E, way, t),
                        LAMBDA u, v : \/ Inclusive(u) < Inclusive(v)
                                      \/ Inclusive(u) = Inclusive(v) /\ u < v)
  IN {p \in kSubset(2, Relatives(E, way, t)) :
        \E k \in 1 .. Len(q) \div 2 : (exhaustive \/ k <= 3) /\ p = {q[2 * k - 1], q[2 * k]}}

Init ==
  /\ graph = [tasks |-> {}, deps |-> {}, cost |-> [l \in Logic |-> 0]]
  /\ pc = "idle"
  /\ mtask = [l \in Logic |-> l]
  /\ edges = {}
  /\ cp = [way \in Ways |-> [l \in Logic |-> 0]]
  /\ edgeCp = [way \in Ways |-> <<>>]
  /\ pairs = {} /\ offEdges = {} /\ offPairs = {} /\ empty = {}
  /\ scoreLimit = 0

\* partInitCriticalPaths, cpLimit, and what PartContraction::go does first
\* with the graph g it is given.
Begin(g) ==
  LET step == [l \in Logic |-> StepCost(g.cost[l])]
      path == [way \in Ways |-> CriticalPath(way, g.deps, step)]
  IN /\ pc = "idle"
     /\ pc' = "contract"
     /\ graph' = g
     /\ edges' = g.deps
     /\ cp' = path
     /\ edgeCp' = [way \in Ways |->
                     [e \in g.deps |-> path[way][Near(way, e)] + step[Near(way, e)]]]
     /\ pairs' = UNION {UNION {PairsFrom(g.deps, step, path, way, t, TRUE) : way \in Ways} :
                          t \in g.tasks}
     /\ scoreLimit' = (3 * MapThenSumSet(LAMBDA l : g.cost[l], g.tasks)) \div (Threads * 5)
     /\ UNCHANGED <<mtask, offEdges, offPairs, empty>>

-----------------------------------------------------------------------------
(* Candidates: from, top, and the set of the edge between them, if it is    *)
(* an edge that is to be contracted.                                        *)

\* (mutant) the edge to be contracted counts among the paths.
MergedCp_WithEdge(way, from, top, edge) == Max({cp[way][from], cp[way][top]})

\* NewCp::cp, critPathCostWithout
MergedCp(way, from, top, edge) ==
  IF edge = {} THEN Max({cp[way][from], cp[way][top]})
  ELSE LET e == <<from, top>>
       IN Max({cp[way][Near(way, e)],
               Highest(edgeCp[way], {d \in edges \ edge : Far(way, d) = Far(way, e)})})

MergedStepCost(from, top) == StepCost(cost(from) + cost(top))

\* (mutant) the cost of one of the two is forgotten.
Score_OneCost(from, top, edge) ==
  MergedCp("FORWARD", from, top, edge) + MergedCp("REVERSE", from, top, edge) + stepCost(top)

\* mergeCandidateScore
Score(from, top, edge) ==
  MergedCp("FORWARD", from, top, edge) + MergedCp("REVERSE", from, top, edge)
    + MergedStepCost(from, top) + Cardinality(edge)

\* (mutant) a path of just the required length is cut off as well.
TooLate_OffByOne(t, top) == cp["REVERSE"][t] <= cp["REVERSE"][top] + stepCost(top)

\* pathExistsFromInternal: t is too late to be a prereq of top.
TooLate(t, top) ==
  \/ cp["REVERSE"][t] < cp["REVERSE"][top] + stepCost(top)
  \/ cp["FORWARD"][t] + stepCost(t) > cp["FORWARD"][top]

PathExistsFrom(from, top, edge) ==
  Before(Logic, {e \in edges \ edge : ~TooLate(e[1], top)}, from, top)

\* (mutant) a sibling pair is searched in one direction only.
MergeWouldCreateCycle_OneWay(from, top, edge) ==
  IF edge = {} THEN PathExistsFrom(top, from, edge) ELSE PathExistsFrom(from, top, edge)

MergeWouldCreateCycle(from, top, edge) ==
  \/ PathExistsFrom(from, top, edge)
  \/ edge = {} /\ PathExistsFrom(top, from, edge)

-----------------------------------------------------------------------------
(* contract                                                                 *)

Recipient(from, top) == IF cost(from) > cost(top) THEN from ELSE top
Donor(from, top) == IF cost(from) > cost(top) THEN top ELSE from

\* moveAllVerticesFrom
MovedLogic(donor, recipient) ==
  [l \in Logic |-> IF mtask[l] = donor THEN recipient ELSE mtask[l]]

\* partMergeEdgesFrom
MovedEdges(E, donor, recipient) ==
  LET into(t) == IF t = donor THEN recipient ELSE t
  IN {<<into(e[1]), into(e[2])>> : e \in E}

\* (mutant) only the pair that is merged is removed.
PairsWithout_Merged(from, top) == pairs \ {{from, top}}

\* removeSiblingMCsWith, of both
PairsWithout(from, top) == {p \in pairs : from \notin p /\ top \notin p}

\* siblingPairFromRelatives, from the merged mtask t and its relatives
PairsAround(E, step, c, t) ==
  (UNION {PairsFrom(E, step, c, way, t, TRUE) : way \in Ways})
    \cup (UNION {PairsFrom(E, step, c, "REVERSE", u, FALSE) : u \in Relatives(E, "FORWARD", t)})
    \cup (UNION {PairsFrom(E, step, c, "FORWARD", u, FALSE) : u \in Relatives(E, "REVERSE", t)})

\* (mutant) only the relatives of the one that is kept hear of it.
Told_RecipientOnly(way, from, top, inclusive) ==
  {t \in {Recipient(from, top)} : inclusive > cp[way][t] + stepCost(t)}

\* NewCp::propagate: the mtasks whose relatives must hear of the merged
\* mtask's inclusive cost.
Told(way, from, top, inclusive) ==
  {t \in {from, top} : inclusive > cp[way][t] + stepCost(t)}

\* PartPropagateCp: what each mtask announces, if told announce inclusive and
\* every mtask that grows announces its new cost; 0 if nothing.
Announced(E, way, from, top, told, inclusive) ==
  LET says[t \in Logic] ==
        IF t \in {from, top} THEN (IF t \in told THEN inclusive ELSE 0)
        ELSE LET heard == Highest(says, Earlier(E, way, t))
             IN IF heard > cp[way][t] THEN heard + stepCost(t) ELSE 0
  IN says

Contract(from, top, edge) ==
  LET recipient == Recipient(from, top)
      donor == Donor(from, top)
      E == edges \ edge
      inclusive == [way \in Ways |-> MergedCp(way, from, top, edge) + MergedStepCost(from, top)]
      says == [way \in Ways |-> Announced(E, way, from, top,
                                   Told(way, from, top, inclusive[way]), inclusive[way])]
  IN /\ mtask' = MovedLogic(donor, recipient)
     /\ edges' = MovedEdges(E, donor, recipient)
     /\ cp' = [way \in Ways |-> [t \in Logic |->
          IF t = recipient THEN MergedCp(way, from, top, edge)
          ELSE Max({cp[way][t], Highest(says[way], Earlier(E, way, t))})]]
     /\ edgeCp' = [way \in Ways |-> [e \in edges' |->
          IF e \in E
          THEN Max({edgeCp[way][e], says[way][Near(way, e)]})
          ELSE cp'[way][Near(way, e)] + StepCosts(mtask')[Near(way, e)]]]
     /\ offEdges' = {e \in offEdges \cap E : donor \notin {e[1], e[2]}}
     /\ pairs' = PairsWithout(from, top) \cup PairsAround(edges', StepCosts(mtask'), cp', recipient)
     /\ offPairs' = offPairs \cap PairsWithout(from, top)
     /\ UNCHANGED <<graph, pc, scoreLimit, empty>>

-----------------------------------------------------------------------------
(* The loop of PartContraction::go.                                         *)

EdgeBoard == edges \ offEdges
PairBoard == pairs \ offPairs
Ap(p) == Max(p)       \* SiblingMC: ap has the larger id
Bp(p) == Min(p)

Ready(from, top, edge) == pc = "contract" /\ Score(from, top, edge) <= scoreLimit

ContractEdge(e) ==
  /\ e \in EdgeBoard
  /\ Ready(e[1], e[2], {e})
  /\ ~MergeWouldCreateCycle(e[1], e[2], {e})
  /\ Contract(e[1], e[2], {e})

ContractPair(p) ==
  /\ p \in PairBoard
  /\ Ready(Bp(p), Ap(p), {})
  /\ ~MergeWouldCreateCycle(Bp(p), Ap(p), {})
  /\ Contract(Bp(p), Ap(p), {})

DropEdge(e) ==
  /\ e \in EdgeBoard
  /\ Ready(e[1], e[2], {e})
  /\ MergeWouldCreateCycle(e[1], e[2], {e})
  /\ offEdges' = offEdges \cup {e}
  /\ UNCHANGED <<graph, pc, mtask, edges, cp, edgeCp, pairs, offPairs, scoreLimit, empty>>

DropPair(p) ==
  /\ p \in PairBoard
  /\ Ready(Bp(p), Ap(p), {})
  /\ MergeWouldCreateCycle(Bp(p), Ap(p), {})
  /\ offPairs' = offPairs \cup {p}
  /\ UNCHANGED <<graph, pc, mtask, edges, cp, edgeCp, offEdges, pairs, scoreLimit, empty>>

\* "Our best option isn't good enough"
NoneReady ==
  /\ pc = "contract"
  /\ \A e \in EdgeBoard : Score(e[1], e[2], {e}) > scoreLimit
  /\ \A p \in PairBoard : Score(Bp(p), Ap(p), {}) > scoreLimit

\* (mutant) divided before it is multiplied.
RaisedLimit_Truncated(limit) == (limit \div 100) * 120

RaisedLimit(limit) == (limit * 120) \div 100

\* "if we have too many mtasks, raise the score limit and keep going..."
RaiseLimit ==
  /\ NoneReady
  /\ EdgeBoard # {} \/ PairBoard # {}
  /\ Cardinality(Tasks) > maxMTasks
  /\ scoreLimit' = RaisedLimit(scoreLimit)
  /\ UNCHANGED <<graph, pc, mtask, edges, cp, edgeCp, offEdges, pairs, offPairs, empty>>

Stop ==
  /\ NoneReady
  /\ \/ EdgeBoard = {} /\ PairBoard = {}
     \/ Cardinality(Tasks) <= maxMTasks
  /\ pc' = "contracted"
  /\ UNCHANGED <<graph, mtask, edges, cp, edgeCp, offEdges, pairs, offPairs, scoreLimit, empty>>

\* V3Graph::removeTransitiveEdges
Reduced(E) == {e \in E : ~Before(Logic, E \ {e}, e[1], e[2])}

RemoveTransitiveEdges ==
  /\ pc = "contracted"
  /\ edges' = Reduced(edges)
  /\ pc' = "partitioned"
  /\ UNCHANGED <<graph, mtask, cp, edgeCp, offEdges, pairs, offPairs, scoreLimit, empty>>

\* (mutant) mtasks are taken out with their edges.
Bypassed_Dropped(E, T) == {e \in E : e[1] \notin T /\ e[2] \notin T}

\* New edges lead from what was before a mtask of T to what was after it.
Bypassed(E, T) ==
  {e \in (Logic \ T) \X (Logic \ T) :
     \/ e \in E
     \/ \E t, u \in T : /\ <<e[1], t>> \in E /\ <<u, e[2]>> \in E
                        /\ Before(T, {d \in E : d[1] \in T /\ d[2] \in T}, t, u)}

\* finalizeCosts: whichever mtasks have no statement.
RemoveEmpty(T) ==
  /\ pc = "partitioned"
  /\ empty' = T
  /\ edges' = Reduced(Bypassed(edges, T))
  /\ pc' = "final"
  /\ UNCHANGED <<graph, mtask, cp, edgeCp, offEdges, pairs, offPairs, scoreLimit>>

Merge ==
  \/ \E e \in edges : ContractEdge(e) \/ DropEdge(e)
  \/ \E p \in pairs : ContractPair(p) \/ DropPair(p)
  \/ RaiseLimit
  \/ Stop
  \/ RemoveTransitiveEdges
  \/ \E T \in SUBSET Tasks : RemoveEmpty(T)

Next == (\E g \in Graphs : Begin(g)) \/ Merge

Spec == Init /\ [][Next]_vars

-----------------------------------------------------------------------------
\* Edges and SiblingMCs point to mtasks that exist: none to one that was merged
\* away and deleted.
TypeOK ==
  /\ pc \in {"idle", "contract", "contracted", "partitioned", "final"}
  /\ mtask \in [Logic -> Logic] /\ \A t \in Tasks : mtask[t] = t
  /\ edges \subseteq Tasks \X Tasks
  /\ cp \in [Ways -> [Logic -> Nat]]
  /\ pc = "contract" => \A way \in Ways : edgeCp[way] \in [edges -> Nat]
  /\ offEdges \subseteq Logic \X Logic
  /\ \A p \in pairs : Cardinality(p) = 2 /\ p \subseteq Tasks
  /\ offPairs \subseteq pairs
  /\ scoreLimit \in Nat
  /\ empty \subseteq Tasks

\* No merge closes a cycle.
Acyclic == HasNoCycle(Tasks, edges)

\* What the graph before ordered, if only by a path, stays in this order
\* through merges, pruning and the removal of empty mtasks.
DepsKept ==
  \A k, l \in graph.tasks :
    /\ Before(Logic, graph.deps, k, l)
    /\ {mtask[k], mtask[l]} \cap empty = {}
    => Before(Logic, edges, mtask[k], mtask[l])

\* The critical paths are long enough for the search to be cut where it is:
\* what comes later has the larger forward, what comes before the larger
\* reverse path.
CpSound ==
  pc # "final" =>
  \A way \in Ways : \A e \in edges :
    cp[way][Far(way, e)] >= cp[way][Near(way, e)] + stepCost(Near(way, e))

\* So the cut search finds a path exactly if there is one.
SearchIsExact ==
  pc = "contract" =>
    /\ \A e \in edges : MergeWouldCreateCycle(e[1], e[2], {e})
                          <=> Before(Logic, edges \ {e}, e[1], e[2])
    /\ \A p \in pairs : MergeWouldCreateCycle(Bp(p), Ap(p), {})
                          <=> \/ Before(Logic, edges, Bp(p), Ap(p))
                              \/ Before(Logic, edges, Ap(p), Bp(p))

\* partCheckCriticalPaths: the cached costs, updated merge after merge, are
\* those a computation from scratch gives, or more by no more than the rounding.
CpNear ==
  LET Tolerated(cached, actual) == cached >= actual /\ 100 * cached <= StepPercent * actual
  IN pc = "contract" =>
       \A way \in Ways :
         LET path == CriticalPath(way, edges, StepCosts(mtask))
         IN /\ \A t \in Tasks : Tolerated(cp[way][t], path[t])
            /\ \A e \in edges :
                 Tolerated(edgeCp[way][e], cp[way][Near(way, e)] + stepCost(Near(way, e)))

\* Merging stays within the limit: no path through the graph is longer than
\* scoreLimit unless there was one as long at the start.
LongestAtStart ==
  LET path[u \in Logic] ==
        StepCost(graph.cost[u]) + Highest(path, Earlier(graph.deps, "FORWARD", u))
  IN Max({path[u] : u \in Logic})
WithinLimit ==
  \A t \in Tasks :
    cp["FORWARD"][t] + stepCost(t) + cp["REVERSE"][t] <= Max({scoreLimit, LongestAtStart})
=============================================================================
