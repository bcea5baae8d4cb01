------------------------------- MODULE TraceLog -------------------------------
(***************************************************************************)
(* What tracing promises: every dump() that reaches an open file is there   *)
(* to be read, with its time and the values the signals had when dump() was *)
(* called, in the order of the calls; each file can be read on its own.     *)
(***************************************************************************)
EXTENDS Naturals, Sequences

CONSTANTS
  Times,    \* times of dumps
  Values    \* what all signals together may be

VARIABLES
  open,     \* isOpen()
  last,     \* time of the latest dump
  values,   \* values of the signals, then
  due,      \* that dump is still to be recorded
  logs      \* per file: what a reader of it gets

vars == <<open, last, values, due, logs>>

Snapshot == [time |-> last, values |-> values]

Init ==
  /\ open = FALSE
  /\ last = 0
  /\ values \in Values
  /\ due = FALSE
  /\ logs = <<>>

Dump(t, v) ==
  /\ ~due
  /\ last # 0 => t > last
  /\ last' = t
  /\ values' = v
  /\ due' = TRUE
  /\ UNCHANGED <<open, logs>>

Record ==
  /\ due /\ open
  /\ due' = FALSE
  /\ logs' = [logs EXCEPT ![Len(logs)] = Append(@, Snapshot)]
  /\ UNCHANGED <<open, last, values>>

Drop ==
  /\ due /\ ~open
  /\ due' = FALSE
  /\ UNCHANGED <<open, last, values, logs>>

NewFile ==
  /\ ~open
  /\ open' = TRUE
  /\ logs' = Append(logs, <<>>)
  /\ UNCHANGED <<last, values, due>>

CloseFile ==
  /\ open
  /\ open' = FALSE
  /\ UNCHANGED <<last, values, due, logs>>

Next ==
  \/ \E t \in Times, v \in Values : Dump(t, v)
  \/ Record \/ Drop \/ NewFile \/ CloseFile

Spec == Init /\ [][Next]_vars
=============================================================================
