------------------------------- MODULE MTaskIds -------------------------------
(***************************************************************************)
(* The vertices of V3Order's graph, numbered; V3Partition::go makes one     *)
(* mtask of each and gives it the vertex' number as its id.                 *)
(***************************************************************************)
EXTENDS MTaskGraph

CONSTANT Logic     \* the vertices (MTaskMoveVertex)

ASSUME LogicAssumption == Logic \subseteq Nat /\ IsFiniteSet(Logic)
=============================================================================
