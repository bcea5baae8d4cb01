------------------------------ MODULE DataHazards ------------------------------
(***************************************************************************)
(* V3Partition, first half: one mtask per vertex of V3Order's fine grained  *)
(* graph, then PartFixDataHazards.  V3Order leaves two writers of different *)
(* bits of one variable unordered, and cuts an edge from a writer to a      *)
(* reader where the logic is circular; run in parallel, either is a race.   *)
(* The pass takes the variables one after the other, merges the mtasks of   *)
(* equal rank that access it, and chains those of different ranks.          *)
(*                                                                         *)
(* RTLflow prints one CUDA kernel per mtask and one dependency of the CUDA  *)
(* graph per edge, so the graph this pass leaves is the only order there is *)
(* between the threads of one stimulus.                                     *)
(***************************************************************************)
EXTENDS FineGraph

VARIABLES
  design,   \* m_fineDepsGraphp
  pc,       \* "vars", "dpi", "done"
  pending,  \* ovvSet, the variables not looked at so far
  rank,     \* V3GraphVertex::rank() of the mtasks
  mtask,    \* m_olv2mtask, and the mtask each vertex is in
  edges     \* the MTaskEdges

vars == <<design, pc, pending, rank, mtask, edges>>

-----------------------------------------------------------------------------
Tasks == {mtask[l] : l \in Logic}
cost(t) == MapThenSumSet(LAMBDA l : Cost[l], {l \in Logic : mtask[l] = t})

Written == UNION {design.writes[l] : l \in Logic}

\* V3Partition::go up to PartFixDataHazards, and the ranking in its go().
Init ==
  /\ design \in Designs
  /\ rank \in RankOf(Logic, design.deps)
  /\ pc = "vars"
  /\ pending = Written \ SystemCVars
  /\ mtask = [l \in Logic |-> l]
  /\ edges = design.deps

\* findAdjacentTasks: the writers of the variables vs.  The loop that should
\* find the readers looks at the near end of the edges, the variable itself,
\* and so finds none.
AdjacentTasks(vs) == {mtask[l] : l \in {k \in Logic : design.writes[k] \cap vs # {}}}

\* (mutant) a variable's tasks are merged whatever their ranks.
SameRank_Any(t, u) == TRUE

SameRank(t, u) == rank[t] = rank[u]

\* The others of a rank are merged into the most costly task, the first of
\* them if there are several.
Outweighs(t, u) == cost(u) < cost(t) \/ (cost(u) = cost(t) /\ t <= u)

\* moveAllVerticesFrom, and the update of m_olv2mtask.
MovedLogic(into) == [l \in Logic |-> into[mtask[l]]]

\* partMergeEdgesFrom
MovedEdges(into) == {<<into[e[1]], into[e[2]]>> : e \in edges}

Consecutive(t, u, merged) ==
  rank[t] < rank[u] /\ \A x \in merged : ~(rank[t] < rank[x] /\ rank[x] < rank[u])

\* (mutant) equal ranks are merged, but different ranks left as they are.
Chain_Missing(merged) == {}

\* (mutant) the new edges lead from higher to lower ranks.
Chain_Backward(merged) == {e \in merged \X merged : Consecutive(e[2], e[1], merged)}

\* An edge from lastMergedp to mergedp.
Chain(merged) == {e \in merged \X merged : Consecutive(e[1], e[2], merged)}

\* mergeSameRankTasks: per rank, all tasks of S become one, with the edges of
\* all; the tasks that are left are chained by rank.
MergeSameRankTasks(S) ==
  \E f \in [S -> S] :
    /\ \A t \in S : SameRank(t, f[t])
    /\ \A t, u \in S : SameRank(t, u) => f[t] = f[u] /\ Outweighs(f[t], u)
    /\ LET into == [t \in Logic |-> IF t \in S THEN f[t] ELSE t]
       IN /\ mtask' = MovedLogic(into)
          /\ edges' = MovedEdges(into) \cup Chain({f[t] : t \in S})

\* One iteration over ovvSet.
FixVar(v) ==
  /\ pc = "vars"
  /\ v \in pending
  /\ MergeSameRankTasks(AdjacentTasks({v}))
  /\ pending' = pending \ {v}
  /\ UNCHANGED <<design, pc, rank>>

\* All SystemC variables count as one.
FixSystemC ==
  /\ pc = "vars"
  /\ pending = {}
  /\ MergeSameRankTasks(AdjacentTasks(SystemCVars))
  /\ pc' = "dpi"
  /\ UNCHANGED <<design, pending, rank>>

\* Tasks with DPI calls, unless the user vouches for them.
FixDpi ==
  /\ pc = "dpi"
  /\ IF SerializeDpi THEN MergeSameRankTasks({mtask[l] : l \in design.dpi})
                     ELSE UNCHANGED <<mtask, edges>>
  /\ pc' = "done"
  /\ UNCHANGED <<design, pending, rank>>

Next == (\E v \in Vars : FixVar(v)) \/ FixSystemC \/ FixDpi

Spec == Init /\ [][Next]_vars

-----------------------------------------------------------------------------
TypeOK ==
  /\ pc \in {"vars", "dpi", "done"}
  /\ pending \subseteq Vars
  /\ rank \in [Logic -> Nat]
  /\ mtask \in [Logic -> Logic]
  /\ edges \subseteq Logic \X Logic

\* "We know it's already ranked from fixDataHazards() so we don't need to rank
\* it again": the ranks, computed once, still order the graph after merges
\* and new edges.  It is also what the assertion "Merging must be on lower
\* rank" and the merging of tasks without a look at paths rest on.
PreRanked == Ranked(edges, rank)

\* The graph that becomes the CUDA graph has no cycle, so every evaluation ends.
FineAcyclic == HasNoCycle(Tasks, edges)

\* k runs before l, or in the same mtask, whose statements keep V3Order's order.
InOrder(k, l) == Before(Logic, edges, mtask[k], mtask[l])
Serialized(k, l) == InOrder(k, l) \/ InOrder(l, k)

\* No dependency V3Order asked for is lost by a merge.
FineDepsKept == \A d \in design.deps : InOrder(d[1], d[2])

\* Both write parts of one variable, or SystemC variables, or call DPI.
MayConflict(k, l) ==
  \/ design.writes[k] \cap design.writes[l] # {}
  \/ design.writes[k] \cap SystemCVars # {} /\ design.writes[l] \cap SystemCVars # {}
  \/ SerializeDpi /\ {k, l} \subseteq design.dpi

\* "unordered pairs of writes": no two mtasks that may conflict run at the same
\* time.
WritersSerialized ==
  pc = "done" => \A k, l \in Logic : MayConflict(k, l) => Serialized(k, l)

\* "and unordered write-read pairs. We fix both here [...] to ensure no such
\* unordered pairs remain."
ReadersSerialized ==
  pc = "done" =>
    \A k, l \in Logic : design.writes[k] \cap design.reads[l] # {} => Serialized(k, l)
=============================================================================
