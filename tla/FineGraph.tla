------------------------------ MODULE FineGraph ------------------------------
(***************************************************************************)
(* What V3Partition is given: V3Order's fine grained graph, the cost of its *)
(* vertices and the variables they access.                                  *)
(***************************************************************************)
EXTENDS MTaskIds

CONSTANTS
  Cost,          \* V3InstrCount of the vertices' logic
  Vars,          \* the variables
  SystemCVars,   \* AstVar::isSc()
  SerializeDpi,  \* not (--threads-dpi all)
  Designs        \* fine grained graphs: records of deps, writes, reads and
                 \* dpi, the logic with a call of a DPI import that is a hazard

ASSUME HazardsAssumption ==
  /\ Logic \subseteq Nat /\ IsFiniteSet(Logic)
  /\ Cost \in [Logic -> Nat]
  /\ SystemCVars \subseteq Vars
  /\ SerializeDpi \in BOOLEAN
  /\ Designs \subseteq [deps : SUBSET (Logic \X Logic),
                        writes : [Logic -> SUBSET Vars],
                        reads : [Logic -> SUBSET Vars],
                        dpi : SUBSET Logic]
=============================================================================
