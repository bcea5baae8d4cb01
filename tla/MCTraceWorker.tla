---------------------------- MODULE MCTraceWorker ----------------------------
(***************************************************************************)
(* Two signals, three dumps, a file that is full after a few records.       *)
(***************************************************************************)
EXTENDS TraceWorker

MCValues == {[a |-> 0, b |-> 0], [a |-> 1, b |-> 0], [a |-> 1, b |-> 1]}
MCSignals == {"a", "b"}
MCTimes == 1 .. 3
=============================================================================
