----------------------------- MODULE RTLflowEval -----------------------------
(***************************************************************************)
(* The run time that V3EmitC::emitRTLflowImp emits: class RF::RTLflow.      *)
(*                                                                         *)
(* A batch of gpu_threads stimuli of one design is evaluated together.      *)
(* RTLflow::run executes a taskflow of condition tasks on the host          *)
(*                                                                         *)
(*   start_t -0-> init_sim_t -> init_detect_t -0-> end_t                    *)
(*                   ^---------------1                                      *)
(*   start_t -1-> sim_t -> detect_t -0-> end_t                              *)
(*                   ^---------1                                            *)
(*                                                                         *)
(* where the two sim tasks offload a CUDA graph: one kernel per mtask, then *)
(* _last_assign, then _change_request, then a reduction of the change flags *)
(* into change[0], the flag the detect tasks branch on.                     *)
(*                                                                         *)
(* A kernel starts when every kernel it depends on has finished in ALL its  *)
(* threads; the threads of one kernel, and kernels that do not depend on    *)
(* each other, run in any order.                                            *)
(***************************************************************************)
EXTENDS RTLDesign

CONSTANTS
  gpu_threads,    \* number of stimuli of the batch
  BlockSize,      \* 128, the largest number of threads of a block
  LoopLimit       \* 100, after which the model "didn't converge"

ASSUME GridAssumption ==
  gpu_threads \in Nat \ {0} /\ BlockSize \in Nat \ {0} /\ LoopLimit \in Nat

Stimuli == 0 .. gpu_threads - 1

\* The launch configuration of every kernel.  The division truncates.
num_threads == IF gpu_threads < BlockSize THEN gpu_threads ELSE BlockSize
num_blocks == IF num_threads < BlockSize THEN 1 ELSE gpu_threads \div num_threads

\* blockDim.x * blockIdx.x + threadIdx.x over the grid.
Launched == {num_threads * b + t : b \in 0 .. num_blocks - 1,
                                   t \in 0 .. num_threads - 1}

VARIABLES
  pc,       \* host: the task of the taskflow that runs next, or "idle"
  init,     \* _eval_initial has run
  loop,     \* iterations of the current run
  change,   \* change[s]: stimulus s has to be evaluated again
  done,     \* done[s]: the application has finished with stimulus s
  mem,      \* mem[s]: the device memory of stimulus s
  ran       \* <<kernel, s>> for the threads of the graph that have finished

vars == <<pc, init, loop, change, done, mem, ran>>

InGraph == {"init_graph", "graph"}
HostTasks == {"idle", "start_t", "init_sim_t", "init_detect_t", "sim_t",
              "detect_t", "end_t", "fatal"}

TypeOK ==
  /\ pc \in HostTasks \cup InGraph
  /\ init \in BOOLEAN
  /\ loop \in 0 .. LoopLimit + 1
  /\ change \in [Stimuli -> BOOLEAN]
  /\ done \in [Stimuli -> BOOLEAN]
  /\ mem \in [Stimuli -> Valuation]
  /\ ran \subseteq Nodes \X Launched

\* The constructors: the design's resets its variables, RTLflow's sets every
\* change flag and clears every done flag.
Init ==
  /\ pc = "idle"
  /\ init = FALSE
  /\ loop = 0
  /\ change = [s \in Stimuli |-> TRUE]
  /\ done = [s \in Stimuli |-> FALSE]
  /\ mem \in [Stimuli -> ResetStates]
  /\ ran = {}

-----------------------------------------------------------------------------
(* The application, between two runs.                                       *)

\* *rtlflow.get(loc, s) = x
WriteInput(s, i, x) ==
  /\ pc = "idle"
  /\ mem' = [mem EXCEPT ![s].sig[i] = x]
  /\ UNCHANGED <<pc, init, loop, change, done, ran>>

\* rtlflow.done[s] = true
Retire(s) ==
  /\ pc = "idle"
  /\ done' = [done EXCEPT ![s] = TRUE]
  /\ UNCHANGED <<pc, init, loop, change, mem, ran>>

\* eval_step() calls run(), which waits for the taskflow.
Run ==
  /\ pc = "idle"
  /\ pc' = "start_t"
  /\ UNCHANGED <<init, loop, change, done, mem, ran>>

-----------------------------------------------------------------------------
(* The host tasks.                                                          *)

\* start_t: the first run initialises every stimulus and takes the init branch.
Start ==
  /\ pc = "start_t"
  /\ IF ~init
     THEN /\ mem' = [s \in Stimuli |-> EvalInitial(mem[s])]
          /\ pc' = "init_sim_t"
     ELSE /\ pc' = "sim_t"
          /\ UNCHANGED mem
  /\ init' = TRUE
  /\ UNCHANGED <<loop, change, done, ran>>

\* init_sim_t: the _eval_settle kernel, a synchronisation, then the graph.
InitSim ==
  /\ pc = "init_sim_t"
  /\ mem' = [s \in Stimuli |->
               IF s \in Launched THEN EvalSettle(mem[s]) ELSE mem[s]]
  /\ pc' = "init_graph"
  /\ ran' = {}
  /\ UNCHANGED <<init, loop, change, done>>

\* sim_t: the graph alone.
Sim ==
  /\ pc = "sim_t"
  /\ pc' = "graph"
  /\ ran' = {}
  /\ UNCHANGED <<init, loop, change, done, mem>>

\* (mutant) ++loop >= 100
Detect_AtLimit(again) ==
  /\ loop' = loop + 1
  /\ pc' = IF loop + 1 >= LoopLimit THEN "fatal"
           ELSE IF change[0] THEN again ELSE "end_t"
  /\ UNCHANGED <<init, change, done, mem, ran>>

\* What a detect task does once it has counted the iteration: past the limit
\* it runs _change_request once more and reports the fatal error, else it
\* returns (bool)change[0], which selects its first or second successor.
Detect(again) ==
  /\ loop' = loop + 1
  /\ IF loop + 1 > LoopLimit
     THEN /\ pc' = "fatal"
          /\ change' = [s \in Stimuli |->
                          IF s \in Launched THEN ChangeReq(mem[s]) ELSE change[s]]
          /\ mem' = [s \in Stimuli |->
                       IF s \in Launched THEN ChangeStore(mem[s]) ELSE mem[s]]
     ELSE /\ pc' = IF change[0] THEN again ELSE "end_t"
          /\ UNCHANGED <<change, mem>>
  /\ UNCHANGED <<init, done, ran>>

InitDetect == pc = "init_detect_t" /\ Detect("init_sim_t")
SimDetect == pc = "detect_t" /\ Detect("sim_t")

\* end_t: ready for the next run; the memset covers all gpu_threads flags.
End ==
  /\ pc = "end_t"
  /\ loop' = 0
  /\ change' = [s \in Stimuli |-> TRUE]
  /\ pc' = "idle"
  /\ UNCHANGED <<init, done, mem, ran>>

-----------------------------------------------------------------------------
(* The CUDA graph.                                                          *)

KernelDone(n) == \A s \in Launched : <<n, s>> \in ran

\* A thread of kernel n can run for stimulus s.
CanRun(n, s) ==
  /\ pc \in InGraph
  /\ <<n, s>> \notin ran
  /\ \A p \in Preds(n) : KernelDone(p)

\* if (done[tid] || !change[tid]) return;
Skips(s) == done[s] \/ ~change[s]

\* (mutant) if (!change[tid]) return;
MTaskThread_IgnoresDone(m, s) ==
  /\ CanRun(m, s)
  /\ mem' = IF ~change[s] THEN mem ELSE [mem EXCEPT ![s] = MTaskBody(m, mem[s])]
  /\ ran' = ran \cup {<<m, s>>}
  /\ UNCHANGED <<pc, init, loop, change, done>>

MTaskThread(m, s) ==
  /\ CanRun(m, s)
  /\ mem' = IF Skips(s) THEN mem ELSE [mem EXCEPT ![s] = MTaskBody(m, mem[s])]
  /\ ran' = ran \cup {<<m, s>>}
  /\ UNCHANGED <<pc, init, loop, change, done>>

\* (mutant) _last_assign has the guard of the mtasks.
LastAssignThread_Guarded(s) ==
  /\ CanRun(LastAssignNode, s)
  /\ mem' = IF Skips(s) THEN mem ELSE [mem EXCEPT ![s] = LastAssign(mem[s])]
  /\ ran' = ran \cup {<<LastAssignNode, s>>}
  /\ UNCHANGED <<pc, init, loop, change, done>>

LastAssignThread(s) ==
  /\ CanRun(LastAssignNode, s)
  /\ mem' = [mem EXCEPT ![s] = LastAssign(mem[s])]
  /\ ran' = ran \cup {<<LastAssignNode, s>>}
  /\ UNCHANGED <<pc, init, loop, change, done>>

\* (mutant) the finals that store __Vchglast run before the comparison.
ChangeThread_StoresFirst(s) ==
  /\ CanRun(ChangeNode, s)
  /\ change' = [change EXCEPT ![s] = ChangeReq(ChangeStore(mem[s]))]
  /\ mem' = [mem EXCEPT ![s] = ChangeStore(mem[s])]
  /\ ran' = ran \cup {<<ChangeNode, s>>}
  /\ UNCHANGED <<pc, init, loop, done>>

ChangeThread(s) ==
  /\ CanRun(ChangeNode, s)
  /\ change' = [change EXCEPT ![s] = ChangeReq(mem[s])]
  /\ mem' = [mem EXCEPT ![s] = ChangeStore(mem[s])]
  /\ ran' = ran \cup {<<ChangeNode, s>>}
  /\ UNCHANGED <<pc, init, loop, done>>

\* reduce(change, change + gpu_threads, change, |): in place, the first flag
\* is both an operand and the result; then the host's synchronisation ends.
Reduce ==
  /\ pc \in InGraph
  /\ KernelDone(ChangeNode)
  /\ change' = [change EXCEPT ![0] = \E s \in Stimuli : change[s]]
  /\ pc' = IF pc = "init_graph" THEN "init_detect_t" ELSE "detect_t"
  /\ ran' = {}
  /\ UNCHANGED <<init, loop, done, mem>>

-----------------------------------------------------------------------------
Application ==
  \/ \E s \in Stimuli, i \in Inputs : \E x \in Domain(i) : WriteInput(s, i, x)
  \/ \E s \in Stimuli : Retire(s)
  \/ Run

Host == Start \/ InitSim \/ Sim \/ InitDetect \/ SimDetect \/ End

Device ==
  \/ \E s \in Launched :
       \/ \E m \in MTasks : MTaskThread(m, s)
       \/ LastAssignThread(s)
       \/ ChangeThread(s)
  \/ Reduce

Next == Application \/ Host \/ Device

\* Executor::run(...).wait() schedules every task whose turn has come and
\* cudaStreamSynchronize returns only when every thread of the graph has run.
\* The application is under no obligation.
Fairness == WF_vars(Host \/ Device)

Spec == Init /\ [][Next]_vars /\ Fairness

-----------------------------------------------------------------------------
\* A clock whose trigger has moved since it was last stored.
PendingEdge(v, c) == v.clklast[c] # Trigger(v, c)

\* When the host examines an iteration, every edge is seen once: in a stimulus the
\* kernels cover, even one whose mtasks were skipped, no edge of an input clock
\* is left that iterating again would clock a second time (__Vclklast), and a
\* generated clock whose edge has still to be seen (__VinpClk) has asked for the
\* iteration that will see it, so that none is left when run() returns.
EdgesConsumed ==
  pc \in {"init_detect_t", "detect_t", "end_t"} =>
    \A s \in Launched, c \in Clocks :
      PendingEdge(mem[s], c) => c \in GenClocks /\ change[s] /\ change[0] /\ pc # "end_t"

\* run() returns only when no stimulus of the batch, the ones no kernel
\* thread was launched for included, still asks for an evaluation.
QuietAtReturn ==
  pc = "end_t" => \A s \in Stimuli : ~change[s]

\* A batch the launch grid does not cover never returns as if it had been
\* evaluated: the flags of the stimuli that no thread serves keep the run going
\* until the convergence error.
NobodySkipped ==
  pc = "end_t" => Stimuli \subseteq Launched

\* "Settles until all signals are stable": run() returns only when one more evaluation would
\* change nothing in any stimulus.
StableAtReturn ==
  pc = "end_t" => \A s \in Stimuli : Pass(mem[s], done[s]) = mem[s]

\* A run that has started returns, or stops the program with the fatal error.
RunTerminates == pc = "start_t" ~> pc \in {"idle", "fatal"}
=============================================================================
