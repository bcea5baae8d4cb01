----------------------------- MODULE MCPartition -----------------------------
(***************************************************************************)
(* Graphs of five vertices.  Plain designs: every graph whose edges lead to *)
(* one of the three next vertices; nothing for PartFixDataHazards to do.    *)
(* Costs are such that a transitive edge comes up while its score is within *)
(* the limit, and that the limit has to be raised.  Conflicting designs:    *)
(* every graph of the first four vertices, with writers of several vars.    *)
(***************************************************************************)
EXTENDS Partition

MCLogic == 1 .. 5
MCCost == [l \in MCLogic |-> <<10, 2, 10, 90, 60>>[l]]
\* Little logic: a critical path limit that 120 percent, in integers, do not raise.
SmallCost == [l \in MCLogic |-> 2]
MCVars == {"a", "b", "port", "pin"}
MCSystemCVars == {"port", "pin"}
Nothing == [l \in MCLogic |-> {}]

PlainDesigns ==
  {[deps |-> D, writes |-> Nothing, reads |-> Nothing, dpi |-> {}] :
     D \in SUBSET {e \in MCLogic \X MCLogic : e[1] < e[2] /\ e[2] <= e[1] + 3}}

\* Two or three writers of a; those of b, port and pin are fixed.
WritesWith(A) == [l \in MCLogic |->
  {v \in MCVars : \/ v = "a" /\ l \in A
                  \/ v = "b" /\ l \in {2, 3}
                  \/ v = "port" /\ l = 2
                  \/ v = "pin" /\ l = 4}]

ConflictDesigns ==
  {[deps |-> D, writes |-> WritesWith(A), reads |-> Nothing, dpi |-> {1, 4}] :
     D \in SUBSET {e \in (1 .. 4) \X (1 .. 4) : e[1] < e[2]},
     A \in {{1, 2}, {1, 3}, {2, 3, 4}}}

MCDesigns == PlainDesigns \cup ConflictDesigns

\* Costs rounded up to the next power of a ratio: here about 1.5, where
\* PART_STEPPED_COST has 1.05, so that a few mtasks meet every case.
MCSteps == {0, 1, 2, 3, 5, 7, 10, 15, 23, 35, 53, 80, 120, 180}
=============================================================================
