--------------------------- MODULE RTLflowEvalSolo ---------------------------
(***************************************************************************)
(* RTLflowEval implements StimulusEval: evaluating a batch in lockstep, with *)
(* one loop, one launch grid and one change flag for all, gives each         *)
(* stimulus what it would get alone.                                        *)
(*                                                                         *)
(* History variables are added to RTLflowEval for the refinement mapping.   *)
(* They record and never restrict what RTLflowEval does.                    *)
(***************************************************************************)
EXTENDS RTLflowEval

VARIABLES
  base,       \* mem when the current iteration began (mem between iterations)
  unsettled,  \* stimuli whose own _change_request has not yet been FALSE
  passes      \* evaluations of each stimulus while it was unsettled

hvars == <<base, unsettled, passes>>
varsH == <<vars, hvars>>

InitH ==
  /\ Init
  /\ base = mem
  /\ unsettled = {}
  /\ passes = [s \in Stimuli |-> 0]

\* The threads of _change_request that finish in this step.
Finishing(s) == <<ChangeNode, s>> \notin ran /\ <<ChangeNode, s>> \in ran'

Record ==
  /\ base' = IF pc' \in InGraph THEN base ELSE mem'
  /\ unsettled' = IF pc = "start_t" THEN Stimuli
                  ELSE {s \in unsettled : Finishing(s) => change'[s]}
  /\ passes' = IF pc' = "end_t" THEN [s \in Stimuli |-> 0]
               ELSE [s \in Stimuli |->
                       IF s \in unsettled /\ Finishing(s)
                       THEN passes[s] + 1 ELSE passes[s]]

NextH == Next /\ Record
SpecH == InitH /\ [][NextH]_varsH /\ WF_varsH((Host \/ Device) /\ Record)

-----------------------------------------------------------------------------
\* The state the kernels of the current iteration work on.
InInit == pc \in {"init_sim_t", "init_graph", "init_detect_t"}
Start0(s) == IF pc = "init_graph" THEN EvalSettle(base[s]) ELSE base[s]
MTasksRun(s) == {m \in MTasks : <<m, s>> \in ran}

\* However the kernel threads interleave, the signals of a stimulus are at
\* every moment what the mtasks it has completed compute one after the other;
\* a stimulus that needs no evaluation keeps the signals it had.
InterleavingIsSequential ==
  pc \in InGraph =>
    \A s \in Launched :
      <<ChangeNode, s>> \notin ran =>
        mem[s].sig = IF Skips(s) THEN Start0(s).sig
                                 ELSE AfterMTasks(MTasksRun(s), Start0(s)).sig

\* "Verilated model didn't converge" is reported only if one stimulus by
\* itself has been evaluated more often than the limit allows: stimuli that
\* settle one after the other never add up to a failure.
FatalNeedsAStimulus ==
  pc = "fatal" => \E s \in Stimuli : passes[s] > LoopLimit

\* What the change detection is for: an evaluation that changes no circular
\* variable leaves the stimulus stable, whatever it started from, so that
\* neither another one nor the settle logic of the first run would do anything.
QuietIsStable ==
  pc \in InGraph =>
    \A s \in Stimuli :
      ~PassChanges(Start0(s), done[s]) =>
        LET v == Pass(Start0(s), done[s])
        IN /\ Pass(v, done[s]) = v
           /\ pc = "init_graph" => EvalSettle(v) = v

-----------------------------------------------------------------------------
\* The refinement mapping.  An evaluation of s takes effect when its thread of
\* _change_request finishes; until then s is where the iteration found it.
Phase == CASE pc \in {"idle", "start_t", "end_t"} -> "idle"
           [] pc = "fatal" -> "fatal"
           [] OTHER -> "running"
Fresh == ~init \/ InInit
Pending(s) == pc \in InGraph /\ <<ChangeNode, s>> \notin ran
Val == [s \in Stimuli |-> IF Pending(s) THEN base[s] ELSE mem[s]]

Solo == INSTANCE StimulusEval WITH
  phase <- Phase, fresh <- Fresh, val <- Val, retired <- done

\* Each stimulus of the batch is evaluated as it would be alone: V3EmitC's
\* lockstep loop with its grid, its in-place reduction and its guards
\* implements the per-stimulus loop of StimulusEval.
SoloSpec == Solo!Spec
=============================================================================
