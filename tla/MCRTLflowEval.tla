---------------------------- MODULE MCRTLflowEval ----------------------------
(***************************************************************************)
(* A design for TLC.  A divider toggles div at every rising edge of clk; at  *)
(* every rising edge of div, a generated clock, a register cnt counts by 1,  *)
(* or 2 if big; and a combinational loop est -> tmp -> est moves est toward  *)
(* cnt by at most Stride per evaluation, so a stimulus needs as many         *)
(* evaluations as its own cnt jumped, after the one that moved div.          *)
(* Stimuli of one batch settle at different times.                          *)
(*                                                                         *)
(*   count:  always @(posedge clk) div <= ~div;                             *)
(*           always @(posedge div) cnt <= cnt + 1 + big;                    *)
(*   copy:   always_comb tmp = est;          (est is a circular variable)   *)
(*   chase:  always_comb est = tmp moved toward cnt;                        *)
(***************************************************************************)
EXTENDS RTLflowEvalSolo

CONSTANTS
  Stride, Top,
  ResetValues     \* what VL_RAND_RESET may return for est and its __Vchglast

MCSignals == {"clk", "big", "div", "cnt", "tmp", "est"}
MCValue == 0 .. Top
MCInputs == {"clk", "big"}
MCDomain(x) == IF x \in {"clk", "big", "div"} THEN {0, 1} ELSE MCValue
MCClocks == {"clk", "div"}
MCCircular == {"div", "est"}
NoQuads == {}
QuadCircular == {"est"}
AtClk == [edge |-> "posedge", clk |-> "clk"]
AtDiv == [edge |-> "posedge", clk |-> "div"]
MCSenses == {AtClk, AtDiv}
MCMTasks == {"count", "copy", "chase"}
MCMTaskEdges == {<<"count", "chase">>, <<"copy", "chase">>}
MCMTaskOrder == <<"count", "copy", "chase">>
MCReads == [count |-> {"clk", "big"}, copy |-> {"est"}, chase |-> {"tmp", "cnt"}]
MCWrites == [count |-> {"div", "cnt"}, copy |-> {"tmp"}, chase |-> {"est"}]

Toward(a, b) == IF a < b THEN IF a + Stride > b THEN b ELSE a + Stride
                ELSE IF b + Stride > a THEN b ELSE a - Stride

MCMTaskCode(m, seen, act) ==
  CASE m = "count" ->
         [div |-> IF AtClk \in act THEN 1 - seen["div"] ELSE seen["div"],
          cnt |-> IF AtDiv \in act THEN (seen["cnt"] + 1 + seen["big"]) % (Top + 1)
                                   ELSE seen["cnt"]]
    [] m = "copy" -> [tmp |-> seen["est"]]
    [] m = "chase" -> [est |-> Toward(seen["tmp"], seen["cnt"])]

MCSettleLogic(sig) ==
  [sig EXCEPT !["tmp"] = sig["est"], !["est"] = Toward(sig["est"], sig["cnt"])]

MCInitialLogic(sig) == [sig EXCEPT !["div"] = 0, !["cnt"] = 0]

\* The class constructor resets every variable but a clock's __Vclklast
\* (noReset), which holds what was in the memory.  With ResetValues = {0} this
\* is the default (+verilator+rand+reset+0), otherwise +verilator+rand+reset+2.
MCResetStates ==
  {[sig |-> [x \in MCSignals |-> IF x = "est" THEN e ELSE 0],
    clklast |-> [c \in MCClocks |-> b],
    inpclk |-> [c \in GenClocks |-> 0],
    chglast |-> [c \in MCCircular |-> IF c = "est" THEN l ELSE 0]] :
      b \in {0, 1}, e \in ResetValues, l \in ResetValues}

\* The hypotheses of the theorems hold of this design and these resets.
ASSUME MCHypotheses == RaceFree /\ ResetsAgree
=============================================================================
