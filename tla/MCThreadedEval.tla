---------------------------- MODULE MCThreadedEval ----------------------------
(***************************************************************************)
(* All graphs of four mtasks, up to the numbering, with costs that lead to  *)
(* packings of all shapes; two mtasks with messages, one of them with two.  *)
(***************************************************************************)
EXTENDS ThreadedEval

MCTasks == 1 .. 4
MCEdges == SUBSET {e \in Tasks \X Tasks : e[1] < e[2]}
MCCosts == {<<1, 1, 1, 1>>, <<10, 2, 7, 0>>}
MCGraphs == {[edges |-> D, cost |-> c] : D \in MCEdges, c \in MCCosts}
MCMessages == <<1, 0, 2, 0>>
=============================================================================
