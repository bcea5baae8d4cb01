---------------------------- MODULE VariableStore ----------------------------
(***************************************************************************)
(* What the device memory of RTLflow is for: every word of every variable,  *)
(* of every scope, of every stimulus, is a slot of its own.  Before the     *)
(* simulation each scope is initialised once; afterwards the application    *)
(* and the kernels write one slot at a time.                                *)
(***************************************************************************)
CONSTANTS
  Scopes,     \* the instances of the modules
  Slots,      \* quadruples <<scope, variable, stimulus, word>>
  NoReset,    \* the variables no constructor initialises
  Raw, Data   \* memory nobody has written yet; what may be written

VARIABLES
  ready,        \* the constructor of the model has returned
  initialised,  \* the scopes that have been initialised
  val           \* the content of each slot: Raw, Data, or the variable
                \* whose initial value it holds

vars == <<ready, initialised, val>>

Init ==
  /\ ready = FALSE
  /\ initialised = {}
  /\ val = [x \in Slots |-> Raw]

Initialise(s) ==
  /\ ~ready
  /\ s \notin initialised
  /\ initialised' = initialised \cup {s}
  /\ val' = [x \in Slots |-> IF x[1] = s /\ x[2] \notin NoReset
                             THEN x[2] ELSE val[x]]
  /\ UNCHANGED ready

Begin ==
  /\ ~ready
  /\ initialised = Scopes
  /\ ready' = TRUE
  /\ UNCHANGED <<initialised, val>>

Write(x, d) ==
  /\ ready
  /\ val' = [val EXCEPT ![x] = d]
  /\ UNCHANGED <<ready, initialised>>

Next ==
  \/ \E s \in Scopes : Initialise(s)
  \/ Begin
  \/ \E x \in Slots, d \in Data : Write(x, d)

Spec == Init /\ [][Next]_vars
=============================================================================
