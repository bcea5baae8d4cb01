# RTLflow in TLA+

RTLflow turns Verilog into a program that simulates many stimuli of one design
at once on a GPU. It is Verilator with a new back end: the compiler partitions
the design into tasks ("mtasks"), prints each of them as a CUDA kernel whose
thread `tid` works on stimulus `tid`, and prints a run time class,
`RF::RTLflow`, that launches the kernels as a CUDA graph, again and again until
every stimulus is stable.

This directory holds TLA+ specifications of that run time, of the memory layout
it works on, of the pass that partitions a design into mtasks and packs them
onto threads, of the threads that run them on a host, of the tracing thread and
of the arithmetic on wide values; TLC configurations that check them on small
instances; and proofs for TLAPS.

## 1. Inventory

### The parts, what they keep, how they interact

| part | state | operations | talks to |
|---|---|---|---|
| `RF::RTLflow` (emitted by `emitRTLflowImp`, `V3EmitC.cpp` 5240-5500) | `_init`, `_loop`, `change[]`, `done[]`, the device arrays, the taskflow and its CUDA graph | constructor, `get`, `run`, the tasks `start_t`, `init_sim_t`, `sim_t`, `init_detect_t`, `detect_t`, `end_t` | launches the kernels below; the application calls it between runs |
| kernels (emitted: one per `AstMTaskBody`, `_eval_settle`, `_last_assign`, `_change_request`) | the variables of each stimulus in device memory, `__Vclklast__*`, `__Vchglast__*`, `change[tid]` | evaluate one partition for one stimulus | read `done[tid]`, `change[tid]`; ordered by the graph |
| `V3GenClk`, `V3Clock`, `V3Changed` | the AST | create `__VinpClk`/`__Vclklast`/`__Vchglast` variables, edge equations, `_eval_initial`, `_last_assign`, `_change_request` | decide what the kernels compare and store |
| device memory layout (`EmitCImp`, `rf_heavy.h`) | four typed arrays, offsets and lengths of variables | `cudaMemAssign`, the IO table, `CData()`, `SData()`, `IData()`, `QData()` | every kernel's and `get`'s addressing |
| `V3Partition`, `V3Order` | logic graph, mtask graph, scoreboard | split, merge mtasks, fix data hazards, number mtasks | the graph the run time is given |
| thread pool (`verilated_threads`) | ready queue per worker, even/odd counters per mtask | add task, work, exit; signal a vertex, wait | kept from Verilator for models on CPU threads; RTLflow's makefiles leave it out (`V3EmitMk.cpp:114`) |
| message queues (`rf_verilated_imp.h`) | a queue per thread, one ordered queue | post, end of task flush, process | `$display`, `$finish` of mtasks |
| context (`VerilatedContextImp`, `VerilatedImp`) | file descriptors, free lists, export and scope tables | `fdNew`, `fdNewMcd`, `fdClose`, `exportInsert`, ... | system tasks, DPI |
| tracing (`verilated_trace`, `verilated_vcd_c`) | trace buffers, two queues, old values, write buffer, files | `open`, `dump`, `openNext`, `flush`, `close`; the worker's loop | the simulation thread and one worker; flush callbacks of `vl_stop`, `vl_fatal` |
| operators on wide values (`rf_verilated.h`, `rf_verilated.cu`) | none: words in, words out | arithmetic, comparisons, shifts, fields, streams, counts | called by every emitted expression wider than 64 bits |
| VPI, DPI, save, coverage | their files and callback lists | Verilator's | not used by the batch run time |
| front end, elaboration, optimisation, other emitters, driver | the AST | one sequential pass after the other | produce what the emitters print |

`PROJECT.json` lists every part with the reason where it is not modelled.

### What is hard

* **Lockstep.** One `_loop` counter, one branch flag `change[0]` and one launch
  grid serve all stimuli, which settle after different numbers of iterations.
  `change[0]` is at once the flag of stimulus 0 and the result of an in-place
  reduction over all flags.
* **Ordering.** Kernel threads of one stimulus run in any order the CUDA graph
  allows. A missing edge would read a signal before its writer.
* **Stale state.** `__Vclklast` has to follow its clock also in stimuli whose
  mtasks are skipped; the edge of a generated clock is left for the next evaluation,
  which somebody has to ask for; `__Vchglast` is read once before it is ever stored, and
  `_change_request` may find nothing the second time it is launched.
* **Boundaries.** The launch grid is a truncating division; 64-bit comparisons
  are ORed into a 32-bit flag; the convergence limit is off by one in many a
  program of this kind.
* **Several runs.** `_loop` and `change[]` outlive a run; `_init` chooses
  between two loops.
* **Cached results.** The partitioner ranks the mtasks once and computes their
  critical paths once; hundreds of merges later it still trusts both, to leave
  out a search for a path. The packing of mtasks trusts estimated times.
* **Two threads and a buffer.** The tracing worker uses old values and the write
  buffer without a lock; that a full dump has waited for its buffers is all that
  keeps the simulation thread off them. The mutex of the trace is held across waits.
* **Counters that turn.** Mtasks count their finished predecessors up in even
  evaluations and down in odd ones, and are never reset.
* **One address in three places.** Kernels, constructors and the application
  compute the address of a variable by three different expressions, from offsets
  two compiler passes assign.
* **Termination.** One oscillating stimulus has to stop the batch; stimuli that
  settle one after the other must not.

For each part, what makes it correct: the batch gives each stimulus what it
would get alone (run time); an edge is seen exactly once and a change is never
missed (`V3Clock`, `V3Changed`); no two variables of any two stimuli share a
cell and every address lies inside its array (layout); the mtask graph is
acyclic and orders every two mtasks with a data hazard (partitioner); every
queued task runs once, on a live thread (pool); messages come out in mtask
order (queues); the file is what dumps written one after the other by the
simulation itself would give (tracing); words compute what integers do (wide values);
a descriptor in use is never handed out twice (context).

## 2. The modules

Five groups that do not share state: evaluation, layout, partitioning and
threads, tracing, wide values. Where one assumes what another establishes is
said below.

    RTLDesign           one stimulus of one design: signals, mtasks, helpers
      RTLflowEval       the batch: host tasks, CUDA graph, grid, flags
        RTLflowEvalSolo   history variables, refinement of StimulusEval
          MCRTLflowEval   a small design for TLC
          RTLflowEvalProofs theorems: types, edges, returns, the refinement
      StimulusEval      what is promised: each stimulus evaluated alone

    DeviceMemory        offsets, addresses, allocation, construction, accesses
      VariableStore       what is promised: every word is a place of its own
      MCDeviceMemory      a design of four scopes for TLC
      DeviceMemoryProofs  the arrays are a store of independent words

    MTaskGraph          paths, cycles and ranks in a graph of mtasks
      MTaskGraphProofs    lemmas: paths, merges, shortcuts, ranks
      MTaskIds            the vertices the mtasks are made of
        FineGraph           V3Order's graph and the variables it accesses
          DataHazards         V3Partition up to and with PartFixDataHazards
            MCDataHazards       the example of circular logic
            DataHazardsProofs   its properties, for every graph
        Contraction         critical paths, PartContraction, transitive edges,
                            empty mtasks
          ContractionProofs   its properties, for every graph
          Partition           DataHazards and Contraction composed
            MCPartition         small graphs, with and without conflicts
            PartitionProofs     both halves' proofs composed
      PackMTasks          priorities, and the packing of mtasks onto threads
        ThreadedEval        an evaluation by worker threads: queues, counters,
                            messages, destruction of the pool
          MCThreadedEval      small graphs, two workers and the caller
          ThreadedEvalProofs  packing closes no circle, counters turn, evaluations
                              are MTaskEval's
      MTaskEval           what is promised of an evaluation

    TraceWorker         VCD tracing by a worker thread
      TraceLog            what is promised: the file follows the dumps
      MCTraceWorker       two signals, three times
      TraceWorkerProofs   buffers, the worker's rests, what a flush writes

    WideOps             arithmetic and comparisons on arrays of words
    WideFields          shifts, selections, insertions, streams
      WideRegisters       all of them against integers, for every operand

### RTLDesign

The design compiled is the parameter: its signals, mtasks, what each mtask reads and
writes, and the functions `MTaskCode`, `SettleLogic`, `InitialLogic` the user's RTL
amounts to. What the compiler adds to those bodies is defined:

* `Trigger`: a clock that is set after it was used as one, marked circular by
  `V3GenClk`, is replaced in sensitivities by `__VinpClk`, its copy of the previous evaluation;
* `EdgeFires`, the five kinds of sensitivity equation, and `MTaskBody`, statements under an
  `if` of one;
* `EvalInitial`: `__Vclklast` initialised from the trigger, or from its
  complement under `--x-initial-edge`;
* `LastAssign`, the finals in their order: `V3Clock` stores the triggers into `__Vclklast`
  and puts `V3GenClk`'s stores `__VinpClk = clk` after them. An edge of a
  generated clock so stays pending, `__Vclklast` different from `__VinpClk`, and fires in the next evaluation;
* `ChangeReq` and `ChangeStore` (compare first, store afterwards, in this order
  within one thread). A generated clock is circular, so its change asks for that evaluation;
* `Preds`, the edges `emitRTLflowImp` gives to the CUDA graph.

`SignalsAssumption`, `GraphAssumption` and `LogicAssumption` are what the compiler
establishes of every design. Two more are hypotheses of the theorems that need them, and no assumptions
of the module. `RaceFree`: of two mtasks of which one writes a signal the other reads or
writes, the graph makes one wait for the other. `ResetsAgree`: the constructor resets `__VinpClk`
and `__Vchglast` of a clock to one value. `AfterMTasks` is what a set of mtasks computes
one after the other, in the order `V3Order` emits them; that every order the graph
allows computes the same is not assumed but proved, from `RaceFree`. TLC evaluates all
of these for the design of `MCRTLflowEval`.

### RTLflowEval

| state | code |
|---|---|
| `pc` | the task of `_taskflow` that runs next; `idle` between two `run()`s; `init_graph`, `graph` while the CUDA graph is offloaded |
| `init`, `loop` | `_init`, `_loop` |
| `change`, `done` | the arrays of the same names |
| `mem` | the cells of each stimulus in the device arrays |
| `ran` | kernel threads of the current graph launch that have finished |

Actions are the whole tasks of the taskflow (`Start`, `InitSim`, `Sim`,
`InitDetect`, `SimDetect`, `End`), whole kernel threads (`MTaskThread`,
`LastAssignThread`, `ChangeThread`), the reduction node (`Reduce`), and what an
application does between runs (`WriteInput`, `Retire`, `Run`). A thread of one
kernel is one step: two threads of a kernel have disjoint memory (one stimulus
each), and two kernels that are not ordered by the graph have no data hazard
(`RaceFree`), so finer interleavings commute with these. `num_blocks` keeps
the code's truncating division.

`Retire` sets `done[s]`, which is a public member of the class that no code of
the repository sets; the kernels test it.

### StimulusEval and RTLflowEvalSolo

`StimulusEval` is the abstract specification: no grid, no shared flag, no
kernels. Each stimulus repeats `Pass`, a whole evaluation of it alone, until
one changes no circular variable, and then rests until the next run.
`RTLflowEvalSolo` adds three history variables to `RTLflowEval` (the state at
the start of an iteration, the stimuli still unsettled, the evaluations each of
them needed) and states the refinement mapping; an evaluation takes effect when
its thread of `_change_request` finishes.

`QuietIsStable` is what the change detection is for, stated of the state every
iteration begins with: an evaluation that changes no circular variable leaves the
stimulus where neither another evaluation nor the settle logic would move it. It
is about the design together with what `V3Changed` compares and stores (`EvalQuad`
is a design for which it fails), and the step from "no flag is set" to
"stable" rests on it.

### DeviceMemory and VariableStore

| state | code |
|---|---|
| `pc` | `top`: `cudaMemAssign` at the top module's variables; `scopes`: at those of the scopes; `construct`, `simulate`: run time |
| `scps`, `n`, `i` | `m_scps` and the two loops over it |
| `count` | `m_cmem`, `m_smem`, `m_imem`, `m_qmem` |
| `memLoc`, `memLocMap` | `AstVar::memLoc()` and `m_memLocMap`, the offsets |
| `cells` | `_csignals`, `_ssignals`, `_isignals`, `_qsignals` |
| `reset_cell_counter`, `constructed` | the static counters of the emitted constructors |

The actions are one iteration of the compiler's loop each (`AssignTopVar`,
`SortScps`, `AssignVar`, `NextScope`), then the allocation in `RTLflow`'s
constructor (`Allocate`), the constructor of one instance (`Construct`), and
stores by kernels and by the application. The three address computations are
three operators: `KernelAddr` (`visit(AstVarRef)`), `ResetAddrs`
(`emitVarResetRecurse`), `PortAddr` (the port table and `RTLflow::get`).

`VariableStore` is the abstract specification: each word of each variable of
each scope and stimulus is a slot, initialised once, written one at a time. The
refinement maps a slot to the cell in which a kernel finds it. The interesting
part is that the k-th instance of a module that is constructed initialises the
k-th scope of the module in `m_scps`, hardly ever its own; this is right only
because all instances of a module are alike and their scopes are adjacent.

Arrays of arrays (the source says that it does not consider them) and variables of
packages are left out; the values of `initial` arrays are one value.

### MTaskGraph, DataHazards, Contraction, Partition

An edge of the mtask graph is the only order between two kernels of one
stimulus. `MTaskGraph` says what that means: `Before` (a path, written with
closed sets so that it can be reasoned about without recursion), `HasNoCycle`,
and the ranks of a graph.

`DataHazards` has an action per variable looked at (`FixVar`, in any order),
one for the SystemC variables and one for DPI calls. An mtask is the id it was created
with; `mtask` is the mtask each vertex of V3Order's graph has been moved to. Its
constant `Designs` are the graphs it may be given: dependencies, and the variables
each vertex writes and reads. V3Order leaves writers of different bits of one variable unordered, and
readers where it cut an edge of circular logic, so these three are independent.

`Contraction` is the loop of `PartContraction::go`: a candidate (an edge, or a
pair of siblings) is contracted (`ContractEdge`, `ContractPair`), dropped
because its merge would close a cycle (`DropEdge`, `DropPair`), or none is good
enough (`RaiseLimit`, `Stop`); then `RemoveTransitiveEdges`; and after later passes
`RemoveEmpty`, which takes out any set of mtasks these have left without a statement.

| state | code |
|---|---|
| `mtask`, `edges` | the mtask graph |
| `cp` | `LogicMTask::m_critPathCost`, both ways |
| `edgeCp` | `LogicMTask::m_edges`, the costs cached at the far ends of edges |
| `pairs` | `m_pairs` and `m_mtask2sibs` |
| `offEdges`, `offPairs` | `removedFromSb` |
| `scoreLimit` | `m_scoreLimit` |
| `empty` | the mtasks `finalizeCosts` has deleted |

The scoreboard orders candidates by cached scores and rescores them now and
then; only the speed and the quality of the partition depend on it. It is
abstracted to the set of candidates it holds, any of which may be the next if its
score is within the limit, so what is checked holds for every scoreboard.
The incremental update of critical paths (`PartPropagateCp`) is modelled by its
result, what each mtask announces to its relatives, which does not depend on
the order in which the pending mtasks are visited. `stepCost`, a rounding up
by logarithms, rounds up to the next of a parameter, `Steps`, of which is assumed what
the code asserts ("stepped cost error exceeded", `V3Partition.cpp:503-504`): no cost is
rounded up by more than a second parameter, `StepPercent`.

`Partition` composes the two as `V3Partition::go` does: the graph `DataHazards`
leaves, with the summed costs of its mtasks, is handed to `Contraction`
(`Handover`). The properties of each half are checked while it runs, and
`FinalOrder` relates the last graph to the first: through both maps of mtasks,
every dependency of V3Order and every two conflicting writers are still ordered.

What the evaluation model assumes of these: `GraphAssumption` (acyclic) is
`Acyclic` here. `RaceFree` is a hypothesis there that this half supports in part. That two
writers of a variable are ordered is proved (`GoSerializes`, `GoKeepsOrder`). A writer and a reader are, where `V3Order`
has a dependency between them, which is kept (`GoKeepsOrder`). For those it leaves without one, where it
cut circular logic, `PartFixDataHazards` is to add an order and does not (`HazardsReaders`): designs with
such a pair are outside the theorems that assume `RaceFree`.

### PackMTasks, ThreadedEval, MTaskEval

`PackMTasks` is `PartPackMTasks::go`: of all ready mtasks and threads it takes the
pair that can start first, where a thread sees the end of a mtask of another thread
late (`SeenFrom`), and appends the mtask to the thread. `ThreadedEval` continues
with the result: the counters the emitted constructor computes
(`upstreamDepCount`), and then evaluations by any number of workers and the
caller, one action per critical section of the queue (`AddTask`, `Dequeue`,
`Notify`), test of the exit flag (`Check`), mtask (`MayRun` and `RunBody`),
flush of its messages, signal to a downstream mtask and step to `packNextp`. `MTaskEval`
is the abstract specification: an mtask runs once per evaluation, after all that come
before it in the graph, and messages come out in the order of mtask ids.

The statements of `V3EmitC.cpp` that print this protocol (1585-1637, 1869-1901)
are commented out, since kernels are ordered by the CUDA graph. The compiler still packs
the mtasks. The sources of the pool, the counters and the queues are still in `include/`, but
the makefiles leave the pool out, and `verilated_threads.cu` includes a header that is not in the tree, so the
model is of those sources as they stand, with the calls between them from the commented statements.

| state | code |
|---|---|
| `thread`, `packNext`, `prevMTask`, ... | `ExecMTask::thread`, `packNextp`, `PartPackMTasks`' state |
| `m_ready`, `m_waiting`, `m_exiting` | the members of `VlWorkerThread`, per worker |
| `asleep`, `notify`, `at` | who is blocked in `m_cv.wait`; `addTask`'s local `notify`; the worker the caller has come to |
| `pc`, `work` | where a thread is, and the mtask and parity it is at (`ExecRec`) |
| `upstreamDepsDone`, `even_cycle` | `VlMTaskVertex::m_upstreamDepsDone`, `__Vm_even_cycle` |
| `t_queue`, `m_queue` | `VerilatedThreadMsgQueue`, `VerilatedEvalMsgQueue` |
| `toSignal`, `finished`, `printed` | downstream mtasks still to be told; what has run, and what has been printed, in this evaluation |

### TraceWorker and TraceLog

The simulation thread's calls (`dump`, `open`, `openNext`, `flush`, `close`, the
destructor) and the worker's loop, as steps between which the other may run: a
wait, a buffer handed over, a record printed. Data is what the properties tell
apart: a record is a signal, a value and a time; the size of a file is its number of
records, and `m_rolloverMB`, `m_wrFlush` are counted in records (the buffer goes to the file when it holds more than
`m_wrFlush`). `TraceLog` is the abstract
specification: a file that holds for each dump what has changed, in order, and
all values at the start of each file. Opening a file may fail.

### WideOps, WideFields, WideRegisters

The functions on arrays of 32-bit words (`WData`), translated word by word, with a
word of `EDATASIZE` bits. They are recursive functions or operators over words;
`WideRegisters` has two operands of a width and steps through all values of both,
and its invariants compare each function with a definition over integers and sets of bits:
`SumsExact`, `QuotientsExact` (Knuth's algorithm D with its estimate of a quotient
digit), `PowersExact`, `ShiftsExact`, `FieldsExact` (selections, insertions, concatenations,
replications), `StreamsAgree`, `OutcomesExact` (comparisons, reductions, counts). A result the code leaves with
bits above its width is compared after it has been cleaned (`IsDirty`). A replication starts from
whatever its output held before, here words of zeros and words of ones.

## 3. The runs

### Evaluation

All use the design of `MCRTLflowEval`: a divider that toggles `div` at a rising edge of
`clk`; at a rising edge of `div`, a generated clock, a register `cnt` that counts by one or
two; and a combinational loop in which `est` moves
toward `cnt` by a bounded stride per evaluation. A stimulus needs as many
evaluations as its counter jumped, after the one that moved `div`, so that stimuli of a batch settle at
different times, which is the case the lockstep loop is delicate in. The three
mtasks give the graph an ordered and an unordered pair.

| run | instance | shows |
|---|---|---|
| `EvalBatch` | 2 stimuli, 2 blocks of 1 thread, any number of runs, a limit that a jump by three exceeds | each stimulus gets what it would get alone (`SoloSpec`), interleavings do not matter, edges are consumed, those of the generated clock by the iteration they ask for, a quiet evaluation is stable, nobody is unstable at return, the fatal error is raised exactly for a stimulus that by itself exceeds the limit, every run returns or fails |
| `EvalPartialGrid` | 3 stimuli, blocks of 2 | a batch that settles is declared not to converge |
| `EvalQuad` | `est` as a 64-bit variable (scaled down) | a change of its upper half is lost |

*Bounds.* `Top` = 3 bounds the counter and with it the evaluations a run needs (one in which
the divider moves, at most three in which `est` does, and the confirming one); two stimuli are enough for one to be settled
while the other is not, in both roles with respect to index 0, which alone is
special; `LoopLimit` (100 in the code) is 4, enough for a jump by two and one too
small for a jump by three, so that some runs return and others fail; `BlockSize` (128) is chosen for
a grid of several blocks and a truncated one. `IDataSpan`
(2^32) is 4 where a quad has to have an upper half. Nothing else is cut: the
state space is finite without a bound on the number of runs.

`CHECK_DEADLOCK FALSE` appears where the program may stop in the fatal error.

*Fairness.* `WF_vars(Host \/ Device)`: `run()` calls `executor.run(taskflow).wait()`,
whose executor runs each task whose turn has come, and
`cudaStreamSynchronize`, which returns when all threads of the graph have
run. The application is never obliged to write or to run.

### Layout

A design of four scopes of three modules (two instances of one, one below
another), with an unpacked array, a wide variable, a variable without reset,
and variables of several modules in each of the four arrays.

| run | instance | shows |
|---|---|---|
| `LayoutBatch` | 2 stimuli, a wide port | in every order of equal scopes and of constructors, words are apart (`Disjoint`), inside the arrays (`InBounds`), initialised (`NothingRaw`), at the same address for kernels and application (`PortsAgree`), and the layout implements `StoreSpec` |
| `LayoutWideArray` | an array of elements of 70 bits | the constructor leaves part of it raw |
| `LayoutArrayPort` | an array as a port | `get` returns an address in another stimulus |

*Bounds.* Two instances of a module are the least for which the base of an instance
matters, two modules besides the top one the least for which sorting does;
`MaxStores` = 2 lets one store follow another. `UIntSpan` (2^32) is 4096 where no
product comes near it. `CHECK_DEADLOCK FALSE`: after
`MaxStores` stores the model stops. Both batch sizes, the compiled-in `THREADS` and the constructor's
`gpu_threads`, are equal in all runs; the code never compares them.

### Partitioning

| run | instance | shows |
|---|---|---|
| `Partition` | 512 graphs of five vertices whose edges lead to one of the next three, without conflicts, and the 64 graphs of the first four with three sets of writers of a variable, SystemC and DPI users | writers are serialized and ranks stay valid (`WritersSerialized`, `PreRanked`); the search cut by critical paths finds a path exactly if there is one (`SearchIsExact`), so no merge closes a cycle (`GoAcyclic`); nothing refers to a deleted mtask (`GoTypeOK`), no path grows beyond the limit (`WithinLimit`); the updated critical paths exceed those a recomputation gives by no more than the rounding (`CpNear`, the code's own `partCheckCriticalPaths`); what was ordered at the start, and every two writers, are ordered at the end, also when any set of mtasks is emptied and taken out (`FinalOrder`); partitioning ends (`PartitioningEnds`) |
| `HazardsReaders` | the example of the source's comment on circular logic, with any edges besides | a reader and a writer stay unordered |

*Bounds.* Four vertices have two writers with a path through a third and a
fourth that is unrelated; a merge has to move edges on both sides. Four mtasks
are needed for a pair of siblings on a path that is not through their common relative, five
for critical paths that change at a distance from a merge. Costs are chosen so
that a transitive edge comes up while its score is within the limit (it is
dropped) and that the limit has to be raised.
`ThreadsMaxMTasks` is 4: with fewer the limit rises until a chain has become one
mtask, with more it never rises; four leave chains of three, whose middle may be empty.
`MCSteps` rounds in steps of about 1.5 where the code has 1.05, so that few mtasks meet sums
that round to more than the sum of the rounded, as the code's do.
`CHECK_DEADLOCK FALSE`: the pass ends.

*Fairness.* Weak fairness of `GoNext` in `Partition`: a compiler pass, one thread that runs on.

### Threads

| run | instance | shows |
|---|---|---|
| `ThreadedEval` | all graphs of four mtasks with edges to larger ids, two profiles of costs, three threads, two mtasks that post a message, any number of evaluations, destruction after any of them | the packed order of threads never contradicts the graph (`NoCircularWait`, `ThreadOrder`), counters return to where they started (`CountersTurn`), evaluations implement `EvalSpec` (every mtask once, in the order of the graph, messages in the order of mtask ids), no call waits for ever, the destructor included (`CallsReturn`) |

*Bounds.* Two workers and the caller are the least for a wait that goes round over a third
thread; four mtasks let one thread have two while two others depend on both.
`CHECK_DEADLOCK FALSE`: after the destructor nothing happens. Condition variables may wake up spuriously.
*Fairness.* Weak fairness of each thread that is running: the operating system's; none for
the application, which need not call `eval` again.

### Tracing

| run | instance | shows |
|---|---|---|
| `TraceWorker` | two signals, three dumps, two trace buffers (8 in the code), a file limit of four records and a write buffer that goes to the file when it holds more than two, up to three files, any of which may fail to open | no buffer is lost or used twice (`BuffersAccounted`), the worker rests while the simulation thread uses what it works on (`WorkerQuiet`), what was flushed is in the file, the file is that of `TraceLog`, every call returns |
| `TraceCalls` | the same with calls of `flush()` after `close()` | `flush()` waits for ever |

*Bounds.* Two buffers are the least with which one is filled while the other is under
way and with which a dump has to wait; three dumps change a signal back and go over the file limit twice.
*Fairness.* Weak fairness of the worker and of the simulation thread inside a call.
`CHECK_DEADLOCK FALSE`: the application may stop tracing for good.

### Wide values

| run | instance | shows |
|---|---|---|
| `WideOps` | words of 3 bits, operands of 5, 6, 7 and 8 bits, all values of both, all amounts, fields and slices | the functions on words compute what integers do, some only once the bits above the width are cleaned, within the limits of section 5 |

*Bounds.* Words of 3 bits make values of two and three words, with a last word that is
partly used (5, 7, 8) or full (6), and replications by 2 and 3 that do not fill their last word; algorithm D needs a divisor of two words and a dividend of three, and
its branch that adds the divisor back is taken.

## 4. The proofs

`RTLflowEvalProofs` proves, for every design, batch size, block size and limit
within the assumptions named above:

* `TypeCorrect`: `Spec => []TypeOK`. Not only bookkeeping: it contains that no
  kernel leaves a signal or `__Vclklast` outside its values, which fails if
  `_eval_initial` stored an unmasked complement.
* `GridWithinBatch`: the threads of the launch grid are stimuli of the batch.
* `EdgesAreConsumed`, under `ResetsAgree`, by two facts. `OrderInv`: a kernel thread that has
  finished implies that all threads of all its predecessors have (so
  `_last_assign` saw the signals the mtasks left, and no mtask runs after it).
  That no mtask is left to run when `_last_assign` starts needs that every mtask reaches a
  sink, for which the order in `GraphAssumption` is used. `CopiesOK`: between evaluations `__VinpClk` and `__Vchglast`
  of a generated clock are equal, so that an edge which `_last_assign` leaves pending is a change
  that `_change_request` sees, and one that is not seen was none. With random reset values the two copies
  may differ at the start, which is why the hypothesis is there.
* `ReturnsQuiet`: by an invariant that relates `change[0]` at the detect tasks to the
  disjunction of all flags.
* `ReturnsSkipNobody`: from `ReturnsQuiet` and the invariant that the flag of a
  stimulus outside the grid is never cleared.
* `ThreadsAreSequential` (`InterleavingIsSequential`), under `RaceFree`, by the invariant `InterInv`: the
  signals of a stimulus are those its mtasks that have run compute one after the other in the compiler's order,
  whatever order they ran in, and `__Vclklast`, `__VinpClk` and `__Vchglast` are still the ones the iteration found.
  The mtasks that have run are a set closed under predecessors by `OrderOK`. An mtask that runs
  next has no conflict with those of the set that come later in the order, because of two that conflict the graph
  orders one first, so it commutes with all of them.
* `LockstepIsSolo` (`SoloSpec`), `FatalIsOwn` (`FatalNeedsAStimulus`) and
  `ReturnsStable` (`StableAtReturn`), on three hypotheses. `RaceFree`, as before. `Covered`: the grid reaches every
  stimulus; `EvalPartialGrid` is what happens without it. `[]QuietIsStable`: the promise of
  the change detection for the design; `EvalQuad` is what happens without it, and
  `EvalBatch` checks it for its design. The inductive invariant is `SoloInv`. A
  settled stimulus goes through further iterations because others need them, sometimes with its
  mtasks and sometimes without (index 0, whose flag the reduction overwrites), so the invariant says that
  either kind of evaluation leaves it as it is (`RestOK`, by the lemma `RestingStays`);
  that `change[s]` is set for every unsettled stimulus, `change[0]` possibly for a settled one
  (`AskedOK`); and that `loop` is the number of evaluations of those that need
  most (`CountOK`), from which the fatal error has a culprit.

`DeviceMemoryProofs` proves every property of the run `LayoutBatch`, for every design,
every order `sortScps` may leave the scopes in and every order of the constructors. Of
the hypotheses `TypeCorrect` needs none. `LayoutIsDisjoint` needs `BatchFits` (`THREADS`
equals `gpu_threads`, and no product of a thread index and a size reaches `UIntSpan`);
`PortsFound` (`PortsAgree`) also `ScalarPorts`, which excludes the case of `LayoutArrayPort`; `AccessesInBounds`,
`InitialisedInTime` (`NothingRaw`) and the refinement `LayoutImplementsStore` (`StoreSpec`) also
`PlainArrays`, which excludes that of `LayoutWideArray`. The inductive invariant has three parts.
`LayoutInv` says of the offsets assigned so far that
they lie below the counter of their array with the whole size of their variable
(`Below`) and that the ranges of two variables of one array do not overlap
(`Apart`); it also has to follow how far the two loops are, because the top module's
variables are placed twice and only their second place counts. Disjointness of
the addresses is then arithmetic: stimulus, offset and word can be recovered
from an address. `PlaceInv` says where the offsets lie, which the constructors rely on:
the variables of the k-th scope are those of its module's first scope moved by `BlockOf(k)`
times the words of the module (`Tiles`). It is kept because the counter, seen from any
variable of the module, is always one block and the words of the variables in between
ahead (`Fill`); it needs the scopes of a module to be adjacent, a fact about
`Sorted`. `RunInv` ties the counters to the instances constructed. The refinement then is:
the instance that finds its counter at b initialises the scope whose block is b, which exists because
blocks of a module are numbered without gaps (`BlocksOfModule`) and is one nobody has initialised
(`BlockUnique`); it writes to the cells of that scope's slots and, since these are disjoint,
to no others (`ConstructedSlot`).

`MTaskGraphProofs` holds what the next three share, about graphs only: that
`Before` is transitive and ends in an edge, that merging two mtasks without a path
between them closes no cycle (`MergeNoCycle`), that a map of graphs keeps paths
(`BeforeMerged`), that shortcuts stay paths (`ReducedOrder`: in a graph without a
cycle all transitive edges can be removed at once; `BridgedOrder`: bypassing any set
of tasks keeps the order of the others). Without recursion, a path is reasoned
about by the set it closes; and where a proof needs an induction over a graph, it takes a
task of least rank among those of which the claim is false (`LeastRank`). The sums of costs
(`MapThenSumSet`, a fold whose definition is recursive) are handled the same way (`SumIs`, `SumOfTwo`).

`DataHazardsProofs` proves five theorems for every graph, set of variables and
order in which they are taken: `HazardsTypes`, `RanksSurvive`,
`HazardsAcyclic`, `HazardsKeepDeps`, `HazardsSerializeWriters`. The inductive
invariant `FineInv` is the types, the ranks' validity, the dependencies, and that the
writers of variables no longer pending are ordered (`VarsDone`, `SystemCDone`,
`DpiDone`). That a merge of tasks of equal rank keeps ranks valid needs no look
at paths; that there is no cycle follows from the ranks; that a chain orders all it
contains (`ChainOrders`) is by a least counterexample.

`ContractionProofs` proves `Contracting`: for every graph without a cycle, every costs,
rounding and limit, `[](TypeOK /\ Acyclic /\ DepsKept /\ CpSound /\ SearchIsExact /\ WithinLimit)`.
None of these is inductive alone, and they need each other in a circle: that a merge closes
no cycle needs the search to be exact, which needs critical paths that are long
enough (`CpSound`); that they still are after a merge needs that what the merged mtask announces
reaches everything after it, which is a statement about a graph without a cycle. The invariant `PartInv` adds
to them `EdgeCpSound` (the costs cached at the ends of edges, of which the merged mtask's
own path is computed, are long enough too) and `Prepared` (nothing has moved before there is a graph).
The main steps: a path that the cut leaves out does not exist, because reverse costs
fall along every path (`CutSearch`); whoever hears an announcement has grown
at least to what was announced (`GrownLong`), whoever hears none is long enough already;
no announcement exceeds the longest path through the merged mtask, which is
the score that was compared with the limit (`ThroughLongest`).

`CachedPathsNear` proves, as generally, what `partCheckCriticalPaths` checks (`CpNear`): the cached
costs are also no longer than a recomputation gives, up to the rounding. A bound by the critical paths
of the rounded costs is not inductive: a merged mtask may round to less than its two halves did,
so a merge can make such a path shorter while what is cached stays. The critical paths of the costs
before they are rounded only grow (`PathKept`), and so `CpTight` bounds the cached costs by those. A merge
keeps it, since what an mtask announces is the length of a path through the merged
mtask (`AnnouncedClose`), and what the merged mtask is given is that of one to it (`MergedCpClose`). Sums of
costs each rounded up by at most `StepPercent` are too long by no more than that (`CloseSum`),
and rounded paths are no shorter than unrounded ones, which gives `CpNear` (`CpTightImplies`).

`PartitionProofs` composes the two. `GoInv` is `FineInv` of an instance of `DataHazards`,
`PartInv`, and `HandedOver`: the graph that contraction works on is the one that fixing the hazards
left. Its theorems are properties of the run `Partition`, for every
design: `GoTypes`, `GoRanks`, `GoSerializes`, `GoStaysAcyclic`, `GoSearchesExactly`,
`GoStaysNear`, `GoStaysWithin`, and `GoKeepsOrder`, in which the orders both halves keep are joined over both maps.

`ThreadedEvalProofs` proves every safety property of the run `ThreadedEval`, for every graph, costs,
number of threads, of messages and of evaluations, spurious wake-ups and destruction included:

* `NoCircle` (`NoCircularWait`) and `DependenciesInThread` (`ThreadOrder`). The invariant of
  `PartPackMTasks::go` is `PackInv`: mtasks are assigned in an order in which each comes after its
  predecessors and at the end of its thread's chain, so that dependencies and packed order
  together have no circle. A thread has one root, at the head of its chain (`Roots`, and with
  `RootCount` no more roots than threads), and chains neither meet nor change threads
  (`Links`). All this holds in every evaluation, since nothing else touches the schedule (`ScheduleInv`).
* `CountersAlternate` (`CountersTurn`). That needs `PoolInv`, which says who has which mtask:
  each thread is on its own chain, in this evaluation, with all before its mtask
  done and nothing after it (`OwnChain`, `Progress`, `ChainClosed`); the queue of a worker holds at most
  its root (`Queued`), and the roots the caller has not handed out are nowhere
  else (`Pending`). `Counted` then gives each counter: the number of mtasks on other threads
  that have told it (`Told`), added to 0 or taken from the full count with the parity. That an
  evaluation ends with all counters at the other end is `Through`: when
  `__Vm_mt_final` has heard from the last of every chain, everything has run. Of the mtasks left
  one would be last (there is no circle), its successor on the chain done, which `ChainClosed` excludes.
  `PoolInv` in turn needs `Through`: without it the next `eval()` could find a worker at work.
* `ThreadsImplementEvaluation` (`EvalSpec`): eval() implements `MTaskEval`, step by step. An mtask
  starts after all it depends on (`RunsInOrder`): those on other threads because its
  counter is full, so that `Told` is everybody, those on its own by `ThreadOrder` and `ChainClosed`.
  `MessageInv` accounts for every message: a thread holds the last ones of its mtask in
  order (`Held`), and those that have left it are in the common queue, sorted, or printed, none
  twice (`Kept`); that posting keeps the queue sorted and complete is the lemma `InsertedFacts`.
  While messages are printed all have left their threads (`AllFlown`), so the head of the queue is the
  earliest of all that are not printed.

`TraceWorkerProofs` proves the three invariants of the run `TraceWorker`, for every finite set of
signals, times, number of buffers, file limit and size of the write buffer: `NoBufferLost` (`BuffersAccounted`),
`WorkerKeepsOut` (`WorkerQuiet`) and `FlushReachesFile` (`FlushedIsWritten`). The hypothesis
`CallsAfterClose = {}` excludes the case of `TraceCalls`, nothing else: reopening, closing twice, the destructor and files that
cannot be opened are all in. The three are not inductive. The invariant `TraceInv` consists of

* `Control`: which rest of a call (`todo`) may be left, given whether a file is open and whether the worker
  is at work, not yet started or gone. A set of rests is put together as `Step(a, R)`, the step
  a and then one of R, in the way the calls nest in the code;
* `BufferInv`: each buffer is once in the two queues, with the simulation or the worker
  (`EachOnce`), and all that were allocated are (`AllCounted`);
* `Rests`: where the worker has to be quiet, nothing is on its way to it. This is true because
  the simulation has waited, and so rests on
* `WaitedFor`: nothing has been handed over after the buffer that is waited for; when that one comes
  back, the queue, which keeps the order, is empty;
* `Readable`: every buffer on its way has one END, at its end, or one SHUTDOWN, that of the join; so the worker
  returns each buffer, and leaves with none;
* `Written`: nothing is in the write buffer of a file that is closed.

Only model-checked: liveness (`RunTerminates`, `PartitioningEnds`, `CallsReturn`), which is
out of the prover's reach; the refinement `LogSpec`, where the reader of the file is a fold over its
records, so that any step of the proof is an induction over data; wide values, whose operations are
recursions over words; `QuietIsStable`, which depends on the design.

## 5. Findings

Each of these is a run of its own; `PROJECT.json` quotes the lines.

1. `EvalPartialGrid`: `num_blocks` truncates (`V3EmitC.cpp:5388`). Stimuli beyond the last full
   block have no kernel thread, and their flag keeps the batch from ever
   settling.
2. `EvalQuad`: the change of a 64-bit circular variable is ORed into a 32-bit flag
   (`V3EmitC.cpp:1761`).
3. `LayoutWideArray`: the constructor's stride for an array of elements wider than 64 bits is
   that of one element (`V3EmitC.cpp:2068`). The arrays of the last stimuli
   stay without an initial value.
4. `LayoutArrayPort`: the port table takes an array for a scalar (`V3EmitC.cpp:2286`).
   `RTLflow::get` returns the address of another element of another stimulus.
5. `HazardsReaders`: the loop that is to find the readers of a variable looks at the wrong end
   of the edges (`V3Partition.cpp:1785`), so a reader and a writer may run in
   parallel.
6. `TraceCalls`: `flush()` waits for the tracing worker without asking whether there is one
   (`verilated_trace_imp.cpp:257`). After `close()` a `$stop` never returns.

Further disagreements met while translating, for which there is no run.

Evaluation, layout, partitioning:

* `__Vchglast` is not initialised from its variable (`V3Changed.cpp:145`); with random
  reset values the first comparison may miss a change. `EvalBatch` with `ResetValues = {1, 3}` in its
  configuration shows it: `QuietIsStable` fails, and, checked without it, `StableAtReturn`.
* The product of thread index and array size is computed in 32 bits
  (`V3EmitC.cpp:1216`, `KernelAddr`) and wraps for large arrays in large
  batches. The theorems about the layout exclude it by `BatchFits`.
* Raising the score limit by 20% in integers (`V3Partition.cpp:1151`,
  `RaisedLimit`) does not raise one below 5: with little logic and a small
  `--threads-max-mtasks` the partitioner does not end. The costs of the run `Partition`
  are above that; with `Cost <- SmallCost` in its configuration `PartitioningEnds` fails.
* The `_change_request` launched before the fatal error runs after the
  graph's, which has just stored every `__Vchglast`, and shows nothing
  (`V3EmitC.cpp:5483`, `Detect`).
* `--converge-limit` does not reach the emitted loop, which compares with
  100 (`V3EmitC.cpp:5482`, `LoopLimit`).

Threads:

* `VlWorkerThread::m_contextp` is declared after the thread that reads it
  (`verilated_threads.h:210`, `verilated_threads.cu:51`), so the worker may read it
  before it is initialised. `verilated_threads.cu` includes a header, `rf_verilated_threads.h`,
  that is not in the tree.

Tracing:

* `dump()` after `close()`, if the file had reached its limit, opens another one without
  header and worker, and waits for ever (`verilated_vcd_c.cpp:171`).
* A failed write calls `vl_fatal`, whose flush callback locks a mutex the writer
  holds already, or has the worker wait for itself (`verilated_vcd_c.cpp:316`).
* `open()` after a file could not be opened in `openNext` assigns a thread over one
  that still runs (`verilated_trace_imp.cpp:355`).
* `$vcdclose` of an extended dump is printed before the buffer is flushed (`verilated_vcd_c.cpp:248`).
* `open` takes the trace's mutex and then the callbacks', a flush callback the other way round.
* The FST `open` does not ask whether a file is open.

Wide values:

* `VL_COUNTBITS_W` takes the last word of a width that is a multiple of 32 as empty when it
  counts zeros (`rf_verilated.h:1613`); `OutcomesExact` leaves that case out.
* `VL_POWSS_WWW` tells 1 and -1 by a test of the last word only (`rf_verilated.cu:530-539`);
  `PowersExact` leaves other bases with negative exponents out.
* `VL_POW_QQW` gives 0 for `0**0`, its siblings 1 (`rf_verilated.cu:515`, `rf_verilated.h:2052`).
* `VL_STREAML_FAST` of a 32-bit value shifts a mask by 32, `_vl_moddiv_w` a word by 32 minus 0 (`rf_verilated.h:2331`,
  `rf_verilated.cu:417`): undefined, harmless on the usual machines; `StreamsAgree` leaves a scalar that fills its type out. So do shifts of a scalar by 32 and more.
* The emit rule of `VL_REPLICATE` says that results of more than 32 bits are clean if the operand is (`rf_verilated.h:2248`). The
  wide forms do not clear their output (`rf_verilated.h:2273-2301`), and the insertion keeps the bits of its last word above
  the last copy (2219, 2230). `VL_REPLICATE_WWI` starts from any output, and `FieldsExact` claims the cleaned result only.
* The emit rule of `VL_SHIFTL` says its result is clean if the operand is (`rf_verilated.h:2516`); it is
  not, and `AstShiftL::cleanOut` knows.
* Bounds of selections are tested as `msb > lbits` in most, as `>=` in one of the functions.
* `VL_DIVS` of -MAX by -1 is 0 for scalars, and wraps for wide values.

## 6. Not modelled, and why

* Of the batch run time: the rest of `V3EmitC`, which prints expressions and
  class declarations.
* Of tracing: write errors, names and scopes, the text of the records, FST.
* `FileTable` (`$fopen`, `$fclose` and the free lists of descriptors): two hazards
  listed without a property. A multichannel descriptor taken before a failing `fopen` is
  not given back, and one may be closed twice.
* `V3Order` and the graph algorithms it uses build one graph from an AST; their result
  is a parameter here.
* The other passes rewrite an AST in sequence: there is no state space to
  explore, and what they compute has no smaller description than their code.
* VPI, DPI, save/restore, coverage: interfaces the batch run time does not call, and I/O.

## 7. Plan

Done: the evaluation of a batch, the device memory layout, partitioning from
V3Order's graph to the printed mtasks, packing and threaded evaluation, tracing,
wide values; theorems about evaluation, layout, partitioning, packing, threads
and tracing.

Left: `FileTable`, with the abstract rule that a descriptor in use is not handed
out again; write errors of tracing.
