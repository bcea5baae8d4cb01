------------------------------ MODULE RTLDesign ------------------------------
(***************************************************************************)
(* What the Verilator passes of RTLflow leave of ONE design, as seen by     *)
(* one stimulus: its signals, the partitioned tasks ("mtasks") that compute *)
(* them, and the three helper functions that V3Clock and V3Changed add      *)
(* around the tasks (_eval_initial, _last_assign, _change_request).         *)
(*                                                                         *)
(* The user's RTL is a parameter: MTaskCode, SettleLogic and InitialLogic   *)
(* are the bodies the compiler emits for it.  What RTLflow itself adds to   *)
(* those bodies is defined here.                                            *)
(***************************************************************************)
EXTENDS Naturals, Sequences

CONSTANTS
  Signals,        \* the variables of the design held in device memory
  Value,          \* the values signals can hold
  Domain(_),      \* the values one signal can hold: its width
  Inputs,         \* the signals the application writes through RTLflow::get
  Clocks,         \* signals some always block has an edge of
  Circular,       \* AstVarScope::isCircular(): the variables that cut loops
  Quads,          \* 64-bit circular variables whose comparison is ORed into
                  \* an IData (fewer than eleven terms, so no || is emitted)
  IDataSpan,      \* 2^32, the number of values of an IData
  XInitialEdge,   \* the option --x-initial-edge
  Senses,         \* the edges [edge |-> ..., clk |-> ...] of always blocks
  MTasks,         \* the vertices of the mtask dependency graph
  MTaskEdges,     \* its edges, pairs <<from, to>>
  MTaskOrder,     \* the mtasks in the order V3Order::processMTasks lists them
  Reads,          \* Reads[m]: the signals mtask m and its edges look at
  Writes,         \* Writes[m]: the signals it may assign
  ResetStates,    \* what the constructor may leave in one stimulus's memory
  MTaskCode(_, _, _),   \* (mtask, the signals it reads or writes, edges that
                        \* fire) -> the signals it writes
  SettleLogic(_),       \* combinational logic copied to _eval_settle
  InitialLogic(_)       \* the initial blocks

SigState == {f \in [Signals -> Value] : \A x \in Signals : f[x] \in Domain(x)}

\* GenClkRenameVisitor: a clock that is circular, set after it was used, is
\* replaced in sensitivities by its copy of the previous evaluation.
GenClocks == Clocks \cap Circular

\* The memory of one stimulus: its signals, and the three families of variables
\* V3Clock (__Vclklast__), V3GenClk (__VinpClk__) and V3Changed (__Vchglast__)
\* create.
Valuation == [sig : SigState,
              clklast : [Clocks -> Value],
              inpclk : [GenClocks -> Value],
              chglast : [Circular -> Value]]

-----------------------------------------------------------------------------
\* The variable that stands for clock c in a sensitivity.
Trigger(v, c) == IF c \in GenClocks THEN v.inpclk[c] ELSE v.sig[c]

\* ClockVisitor::createSenItemEquation: the equation of one sensitivity item.
EdgeFires(e, v) ==
  LET cur == Trigger(v, e.clk)
      last == v.clklast[e.clk]
  IN \/ e.edge = "posedge" /\ cur = 1 /\ last = 0
     \/ e.edge = "negedge" /\ cur = 0 /\ last = 1
     \/ e.edge = "bothedge" /\ cur # last
     \/ e.edge = "highedge" /\ cur = 1
     \/ e.edge = "lowedge" /\ cur = 0

FiringSenses(v) == {e \in Senses : EdgeFires(e, v)}

\* The signals mtask m has to do with, and the edges it can be waiting for.
Reach(m) == Reads[m] \cup Writes[m]
MTaskSenses(m) == {e \in Senses : e.clk \in Reads[m] \cup GenClocks}

\* The body of an mtask: clocked statements sit under an if of the equation.
MTaskBody(m, v) ==
  LET code == MTaskCode(m, [x \in Reach(m) |-> v.sig[x]],
                        FiringSenses(v) \cap MTaskSenses(m))
  IN [v EXCEPT !.sig = [x \in Signals |-> IF x \in Writes[m] THEN code[x] ELSE @[x]]]

\* (mutant) ~clk stored without cleaning the bits above the clock's width.
EvalInitial_Unclean(v) ==
  LET w == [v EXCEPT !.sig = InitialLogic(@)]
  IN [w EXCEPT !.clklast = [c \in Clocks |-> IDataSpan - 1 - Trigger(w, c)]]

\* _eval_initial: the initial blocks, then each __Vclklast from its trigger.
EvalInitial(v) ==
  LET w == [v EXCEPT !.sig = InitialLogic(@)]
      Last(x) == IF XInitialEdge THEN IF x = 0 THEN 1 ELSE 0 ELSE x
  IN [w EXCEPT !.clklast = [c \in Clocks |-> Last(Trigger(w, c))]]

EvalSettle(v) == [v EXCEPT !.sig = SettleLogic(@)]

\* _last_assign: the finals of the evaluation function.  __Vclklast takes the
\* triggers first; visit(AstScope) puts __VinpClk = clk after them, so the edge
\* of a generated clock fires in the next evaluation.
LastAssign(v) ==
  [v EXCEPT !.clklast = [c \in Clocks |-> Trigger(v, c)],
            !.inpclk = [c \in GenClocks |-> v.sig[c]]]

\* One term of the change detection: current ^ last.  The terms are ORed into
\* an IData, so a 64-bit term loses its upper half.
Differs(c, cur, last) ==
  IF c \in Quads THEN cur % IDataSpan # last % IDataSpan ELSE cur # last

\* (mutant) the variable that cuts a loop is not marked circular: no term.
ChangeReq_Unmarked(v) == FALSE

\* _change_request: __req, compared first ...
ChangeReq(v) == \E c \in Circular : Differs(c, v.sig[c], v.chglast[c])

\* ... then its finals, __Vchglast = current.
ChangeStore(v) == [v EXCEPT !.chglast = [c \in Circular |-> v.sig[c]]]

-----------------------------------------------------------------------------
\* The sink mtasks precede _last_assign, _last_assign precedes
\* _change_request; between mtasks the edges are those of the graph.
LastAssignNode == "last_assign"
ChangeNode == "change"
Nodes == MTasks \cup {LastAssignNode, ChangeNode}
SinkMTasks == {m \in MTasks : \A n \in MTasks : <<m, n>> \notin MTaskEdges}
\* (mutant) the edges of the mtask graph are not handed to the CUDA graph.
Preds_NoMTaskEdges(n) ==
  CASE n = ChangeNode -> {LastAssignNode}
    [] n = LastAssignNode -> MTasks
    [] OTHER -> {}
\* (mutant) change_cut also precedes last_assign_cut.
Preds_Cyclic(n) ==
  CASE n = ChangeNode -> {LastAssignNode}
    [] n = LastAssignNode -> SinkMTasks \cup {ChangeNode}
    [] OTHER -> {m \in MTasks : <<m, n>> \in MTaskEdges}
Preds(n) ==
  CASE n = ChangeNode -> {LastAssignNode}
    [] n = LastAssignNode -> SinkMTasks
    [] OTHER -> {m \in MTasks : <<m, n>> \in MTaskEdges}

\* The mtasks of a set one after the other: what a single thread computes.
AfterMTasks(D, v) ==
  LET after[k \in 0 .. Len(MTaskOrder)] ==
        IF k = 0 THEN v
        ELSE IF MTaskOrder[k] \in D THEN MTaskBody(MTaskOrder[k], after[k - 1])
        ELSE after[k - 1]
  IN after[Len(MTaskOrder)]

\* A whole evaluation of one stimulus alone: all mtasks, _last_assign,
\* _change_request.  A stimulus the application has marked done skips the
\* mtasks only.
AllMTasks(v) == AfterMTasks(MTasks, v)
BeforeChange(v, isDone) == LastAssign(IF isDone THEN v ELSE AllMTasks(v))
Pass(v, isDone) == ChangeStore(BeforeChange(v, isDone))
PassChanges(v, isDone) == ChangeReq(BeforeChange(v, isDone))

-----------------------------------------------------------------------------
ASSUME SignalsAssumption ==
  /\ Value \subseteq Nat /\ {0, 1} \subseteq Value
  /\ \A x \in Signals : Domain(x) \subseteq Value
  /\ Inputs \subseteq Signals /\ Clocks \subseteq Signals
  /\ Circular \subseteq Signals /\ Quads \subseteq Circular
  /\ Quads \cap Clocks = {}         \* getCreateLastClk: a clock is one bit
  /\ Senses \subseteq [edge : {"posedge", "negedge", "bothedge", "highedge",
                               "lowedge"}, clk : Clocks]
  /\ IDataSpan \in Nat \ {0}
  /\ XInitialEdge \in BOOLEAN
  /\ ResetStates \subseteq Valuation

\* V3Partition's graph has no cycle: every edge leads forward in MTaskOrder.
ASSUME GraphAssumption ==
  /\ MTaskEdges \subseteq MTasks \X MTasks
  /\ LastAssignNode \notin MTasks /\ ChangeNode \notin MTasks
  /\ MTaskOrder \in Seq(MTasks)
  /\ \A m \in MTasks : \E i \in 1 .. Len(MTaskOrder) : MTaskOrder[i] = m
  /\ \A i, j \in 1 .. Len(MTaskOrder) :
       /\ MTaskOrder[i] = MTaskOrder[j] => i = j
       /\ <<MTaskOrder[i], MTaskOrder[j]>> \in MTaskEdges => i < j

ASSUME LogicAssumption ==
  /\ Reads \in [MTasks -> SUBSET Signals] /\ Writes \in [MTasks -> SUBSET Signals]
  /\ \A sig \in SigState : SettleLogic(sig) \in SigState
  /\ \A sig \in SigState : InitialLogic(sig) \in SigState
  /\ \A m \in MTasks, sig \in SigState, act \in SUBSET Senses :
       \A x \in Writes[m] :
         MTaskCode(m, [y \in Reach(m) |-> sig[y]], act)[x] \in Domain(x)

-----------------------------------------------------------------------------
\* What some results below need of the partition: of two mtasks that touch a
\* signal one of them writes, the graph makes one wait for the other.
Upstream(m) == {n \in MTasks : <<n, m>> \in MTaskEdges}
DownClosed(D) == \A n \in D : Upstream(n) \subseteq D
Precedes(m, n) ==
  \A D \in SUBSET MTasks : DownClosed(D) /\ n \in D => m \in D
Conflict(m, n) ==
  Writes[m] \cap Reach(n) # {} \/ Writes[n] \cap Reach(m) # {}
RaceFree ==
  \A m, n \in MTasks :
    m # n /\ Conflict(m, n) => Precedes(m, n) \/ Precedes(n, m)

\* What some need of the constructor: __VinpClk and __Vchglast, the two copies
\* of a generated clock, are reset to the same value.
ResetsAgree == \A v \in ResetStates, c \in GenClocks : v.inpclk[c] = v.chglast[c]
=============================================================================
