----------------------------- MODULE StimulusEval -----------------------------
(***************************************************************************)
(* What RTLflow promises of a batch: every stimulus behaves as if it were   *)
(* evaluated alone, by the loop "evaluate till stable" of a Verilated       *)
(* model.  A stimulus passes through whole evaluations until one changes no *)
(* circular variable, and then rests until the next run; the evaluations of *)
(* different stimuli have nothing to do with each other.                    *)
(***************************************************************************)
EXTENDS RTLDesign

CONSTANTS Stimuli, LoopLimit

VARIABLES
  phase,      \* "idle", "running" or "fatal"
  fresh,      \* no run has been completed yet
  val,        \* val[s]: the state of stimulus s between two evaluations
  retired,    \* retired[s]: only the bookkeeping of s is still evaluated
  unsettled,  \* the stimuli that need another evaluation in this run
  passes      \* passes[s]: evaluations of s in this run

vars == <<phase, fresh, val, retired, unsettled, passes>>

Init ==
  /\ phase = "idle"
  /\ fresh = TRUE
  /\ val \in [Stimuli -> ResetStates]
  /\ retired = [s \in Stimuli |-> FALSE]
  /\ unsettled = {}
  /\ passes = [s \in Stimuli |-> 0]

Write(s, i, x) ==
  /\ phase = "idle"
  /\ val' = [val EXCEPT ![s].sig[i] = x]
  /\ UNCHANGED <<phase, fresh, retired, unsettled, passes>>

Retire(s) ==
  /\ phase = "idle"
  /\ retired' = [retired EXCEPT ![s] = TRUE]
  /\ UNCHANGED <<phase, fresh, val, unsettled, passes>>

Begin ==
  /\ phase = "idle"
  /\ phase' = "running"
  /\ val' = IF fresh THEN [s \in Stimuli |-> EvalInitial(val[s])] ELSE val
  /\ unsettled' = Stimuli
  /\ UNCHANGED <<fresh, retired, passes>>

\* One evaluation of s; in the first run it begins with the settle logic.
SoloPass(s) ==
  LET v == IF fresh THEN EvalSettle(val[s]) ELSE val[s]
  IN /\ phase = "running"
     /\ s \in unsettled
     /\ val' = [val EXCEPT ![s] = Pass(v, retired[s])]
     /\ unsettled' = IF PassChanges(v, retired[s]) THEN unsettled
                                                  ELSE unsettled \ {s}
     /\ passes' = [passes EXCEPT ![s] = @ + 1]
     /\ UNCHANGED <<phase, fresh, retired>>

\* Everybody is stable, and was within the limit.
Finish ==
  /\ phase = "running"
  /\ unsettled = {}
  /\ \A s \in Stimuli : passes[s] <= LoopLimit
  /\ phase' = "idle"
  /\ fresh' = FALSE
  /\ passes' = [s \in Stimuli |-> 0]
  /\ UNCHANGED <<val, retired, unsettled>>

\* "Verilated model didn't converge": some stimulus went past the limit.
Diverge ==
  /\ phase = "running"
  /\ \E s \in Stimuli : passes[s] > LoopLimit
  /\ phase' = "fatal"
  /\ fresh' = FALSE
  /\ UNCHANGED <<val, retired, unsettled, passes>>

Next ==
  \/ \E s \in Stimuli, i \in Inputs : \E x \in Domain(i) : Write(s, i, x)
  \/ \E s \in Stimuli : Retire(s) \/ SoloPass(s)
  \/ Begin
  \/ Finish
  \/ Diverge

Spec == Init /\ [][Next]_vars
=============================================================================
