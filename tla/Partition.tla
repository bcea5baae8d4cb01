------------------------------- MODULE Partition -------------------------------
(***************************************************************************)
(* V3Partition::go: PartFixDataHazards (DataHazards) makes the graph that   *)
(* PartContraction and the passes after it (Contraction) are given.  What   *)
(* the first half promises must survive the second: two writers chained by  *)
(* an edge of the first graph must be in one mtask or one after the other   *)
(* in the last, whose mtasks are printed as kernels.                        *)
(***************************************************************************)
EXTENDS Contraction, FineGraph

VARIABLES
  design,     \* as in DataHazards
  finePc,
  pending,
  rank,
  fineMTask,
  fineEdges

fineVars == <<design, finePc, pending, rank, fineMTask, fineEdges>>

Hazards == INSTANCE DataHazards WITH pc <- finePc, mtask <- fineMTask, edges <- fineEdges

GoInit == Hazards!Init /\ Init

FixHazards == Hazards!Next /\ UNCHANGED vars

\* (mutant) the edges are made from the logic's, not taken from the mtasks'.
HazardsGraph_OfLogic ==
  [tasks |-> Hazards!Tasks,
   deps |-> {e \in Hazards!Tasks \X Hazards!Tasks : e \in design.deps},
   cost |-> [t \in Logic |-> Hazards!cost(t)]]

\* mtasksp between the two halves.
HazardsGraph ==
  [tasks |-> Hazards!Tasks,
   deps |-> fineEdges,
   cost |-> [t \in Logic |-> Hazards!cost(t)]]

Handover ==
  /\ finePc = "done"
  /\ Begin(HazardsGraph)
  /\ UNCHANGED fineVars

MergeMTasks == Merge /\ UNCHANGED fineVars

GoNext == FixHazards \/ Handover \/ MergeMTasks

GoSpec == GoInit /\ [][GoNext]_<<fineVars, vars>> /\ WF_<<fineVars, vars>>(GoNext)

-----------------------------------------------------------------------------
\* Every vertex is in an mtask, and no edge or pair of siblings refers to an
\* mtask that was merged away, in either half.
GoTypeOK == TypeOK /\ Hazards!TypeOK

\* The ranks computed before the first merge order the graph V3Partition::go
\* sorts by them.
PreRanked == pc = "idle" => Hazards!PreRanked

\* "unordered pairs of writes": none is left when PartFixDataHazards is done.
WritersSerialized == pc = "idle" => Hazards!WritersSerialized

\* No merge of either half closes a cycle: every evaluation ends.
GoAcyclic == IF pc = "idle" THEN Hazards!FineAcyclic ELSE Acyclic

\* Every dependency of V3Order and every pair of writers is still ordered by
\* the graph at the end, through all merges of both halves, unless the mtask
\* of one is found empty.
FinalOrder ==
  LET Of(l) == mtask[fineMTask[l]]
      InOrder(k, l) == Before(Logic, edges, Of(k), Of(l))
  IN pc = "final" =>
       \A k, l \in Logic :
         {Of(k), Of(l)} \cap empty = {} =>
           /\ <<k, l>> \in design.deps => InOrder(k, l)
           /\ Hazards!MayConflict(k, l) => InOrder(k, l) \/ InOrder(l, k)

\* Partitioning comes to an end.
PartitioningEnds == <>(pc = "final")
=============================================================================
