------------------------------ MODULE MTaskEval ------------------------------
(***************************************************************************)
(* What a multi-threaded evaluation promises: every mtask runs once, after  *)
(* all that come before it, and then the messages of all of them come out   *)
(* in the order of the mtasks' ids.  No threads, no counters, no queues.    *)
(***************************************************************************)
EXTENDS Naturals, Sequences, Functions

CONSTANTS
  Tasks,      \* mtasks, by their ids
  Messages    \* how many messages each of them posts

VARIABLES
  edges,      \* <<t, u>>: t before u
  busy,       \* between the call of eval() and its return
  finished,   \* the mtasks that have run
  printed     \* the messages that have been run: mtask and number

vars == <<edges, busy, finished, printed>>

\* All messages of an evaluation, and the order in which they come out.
AllMessages == UNION {{t} \X (1 .. Messages[t]) : t \in Tasks}

Earlier(m, n) == m[1] < n[1] \/ (m[1] = n[1] /\ m[2] < n[2])

Unprinted == AllMessages \ Range(printed)

Init ==
  /\ edges \subseteq Tasks \X Tasks
  /\ busy = FALSE
  /\ finished = {}
  /\ printed = <<>>

Call ==
  /\ ~busy
  /\ busy' = TRUE
  /\ finished' = {}
  /\ printed' = <<>>
  /\ UNCHANGED edges

Run(t) ==
  /\ busy
  /\ t \notin finished
  /\ {u \in Tasks : <<u, t>> \in edges} \subseteq finished
  /\ finished' = finished \cup {t}
  /\ UNCHANGED <<edges, busy, printed>>

RunMessage(m) ==
  /\ busy
  /\ finished = Tasks
  /\ \A n \in Unprinted \ {m} : Earlier(m, n)
  /\ printed' = Append(printed, m)
  /\ UNCHANGED <<edges, busy, finished>>

Return ==
  /\ busy
  /\ finished = Tasks
  /\ Unprinted = {}
  /\ busy' = FALSE
  /\ UNCHANGED <<edges, finished, printed>>

Next == Call \/ (\E t \in Tasks : Run(t)) \/ (\E m \in Unprinted : RunMessage(m)) \/ Return

Spec == Init /\ [][Next]_vars
=============================================================================
