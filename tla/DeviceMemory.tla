----------------------------- MODULE DeviceMemory -----------------------------
(***************************************************************************)
(* Where V3EmitC puts the variables of the batch.                           *)
(*                                                                         *)
(* The compiler (cudaMemAssign) walks over the variables of the top module  *)
(* and then over those of every scope, the scopes sorted by module, and     *)
(* gives each variable an offset in one of four arrays: _csignals (up to 8  *)
(* bits), _ssignals (up to 16), _qsignals (33 to 64), _isignals (the rest,  *)
(* wide variables as several words).  RTLflow's constructor allocates the   *)
(* arrays; the constructor of every instance initialises the variables of   *)
(* ONE scope of its module, the reset_cell_counter-th; the application      *)
(* reaches the ports by RTLflow::get; a kernel thread reaches everything by *)
(* the expression visit(AstVarRef) prints.                                  *)
(*                                                                         *)
(* Within an array the words a variable has for the stimuli 0, 1, ... are   *)
(* adjacent; an offset counts the words before it per stimulus.             *)
(***************************************************************************)
EXTENDS Integers, Sequences, FiniteSets

CONSTANTS
  Modules, Top,        \* modules, one of them the top module
  Rank,                \* place of a module in sortScps: level and name
  Scopes, ModuleOf,    \* the scopes, and the module each is an instance of
  Vars, VarsOf,        \* AstVar::isCuda() variables; per module, a sequence
  Width, Elements,     \* bits; unpacked elements, or 0 if not an array
  Ports,               \* the ports of the top module
  NoReset,             \* AstVar::noReset()
  THREADS,             \* the compiled-in batch size
  gpu_threads,         \* the batch size given to RTLflow's constructor
  UIntSpan,            \* 2^32, the values of an unsigned int
  MaxStores            \* bound on the stores followed after construction

VARIABLES
  pc,        \* "top", "scopes": compiling; "construct"; "simulate"
  scps,      \* m_scps, once sorted
  n, i,      \* the iteration over the scopes and over their variables
  count,     \* m_cmem, m_smem, m_imem, m_qmem
  memLoc,    \* AstVar::memLoc()
  memLocMap, \* m_memLocMap: <<scope, variable>> -> offset
  cells,     \* the device arrays
  constructed,         \* the scopes whose instance has been constructed
  reset_cell_counter,  \* per module
  stores     \* number of stores so far

layoutVars == <<scps, n, i, count, memLoc, memLocMap>>
vars == <<pc, layoutVars, cells, constructed, reset_cell_counter, stores>>

Arrays == {"_csignals", "_ssignals", "_isignals", "_qsignals"}
Raw == "raw"
Data == {"data"}
Content == {Raw} \cup Data \cup Vars
Stimuli == 0 .. gpu_threads - 1

VarSet(m) == {VarsOf[m][k] : k \in DOMAIN VarsOf[m]}

ASSUME LayoutAssumption ==
  /\ Top \in Modules
  /\ Rank \in [Modules -> Nat]
  /\ \A m1, m2 \in Modules : Rank[m1] = Rank[m2] => m1 = m2
  /\ IsFiniteSet(Scopes)
  /\ ModuleOf \in [Scopes -> Modules]
  /\ \E s \in Scopes : \A x \in Scopes : ModuleOf[x] = Top <=> x = s
  /\ VarsOf \in [Modules -> Seq(Vars)]
  /\ \A m1, m2 \in Modules :       \* a variable is declared once
       \A j \in DOMAIN VarsOf[m1], k \in DOMAIN VarsOf[m2] :
         VarsOf[m1][j] = VarsOf[m2][k] => m1 = m2 /\ j = k
  /\ Width \in [Vars -> Nat \ {0}]
  /\ Elements \in [Vars -> Nat]
  /\ Ports \subseteq VarSet(Top) /\ NoReset \subseteq Vars
  /\ Vars \cap ({Raw} \cup Data) = {}
  /\ THREADS \in Nat \ {0} /\ gpu_threads \in Nat \ {0}
  /\ UIntSpan \in Nat \ {0} /\ MaxStores \in Nat

-----------------------------------------------------------------------------
(* Sizes.  An unpacked array has the width of its elements.                 *)

IsWide(v) == Width[v] > 64
WidthWords(v) == (Width[v] + 31) \div 32
IsArray(v) == Elements[v] > 0

ArrayOf(v) ==
  CASE Width[v] <= 8 -> "_csignals"
    [] Width[v] > 8 /\ Width[v] <= 16 -> "_ssignals"
    [] Width[v] > 32 /\ Width[v] <= 64 -> "_qsignals"
    [] OTHER -> "_isignals"

\* countMem: what a variable adds to its counter.
Size(v) ==
  (IF IsArray(v) THEN Elements[v] ELSE 1) * (IF IsWide(v) THEN WidthWords(v) ELSE 1)

\* The words that the variables V have in array a for one stimulus.
WordsIn(V, a) == UNION {{v} \X (0 .. Size(v) - 1) : v \in {u \in V : ArrayOf(u) = a}}

\* cudaModSizeSetter: the words of one instance of a module.  cudaMemAssign
\* replaces those of the top module by the totals.
ModSize(m, a) ==
  IF m = Top THEN count[a] ELSE Cardinality(WordsIn(VarSet(m), a))

-----------------------------------------------------------------------------
(* The compiler.                                                            *)

Init ==
  /\ pc = "top"
  /\ scps = <<>>
  /\ n = 1 /\ i = 1
  /\ count = [a \in Arrays |-> 0]
  /\ memLoc = [v \in Vars |-> 0]
  /\ memLocMap = [p \in {} |-> 0]
  /\ cells = [a \in Arrays |-> <<>>]
  /\ constructed = {}
  /\ reset_cell_counter = [m \in Modules |-> 0]
  /\ stores = 0

\* (mutant) the counter advances by one element of an array.
CountMem_OneElement(v) ==
  count' = [count EXCEPT ![ArrayOf(v)] = @ + IF IsWide(v) THEN WidthWords(v) ELSE 1]

\* countMem(dtypep, varp, words): returns the counter and advances it.
CountMem(v) == count' = [count EXCEPT ![ArrayOf(v)] = @ + Size(v)]

AssignTopVar ==
  /\ pc = "top"
  /\ i <= Len(VarsOf[Top])
  /\ LET v == VarsOf[Top][i]
     IN /\ memLoc' = [memLoc EXCEPT ![v] = count[ArrayOf(v)]]
        /\ CountMem(v)
  /\ i' = i + 1
  /\ UNCHANGED <<pc, scps, n, memLocMap, cells, constructed,
                 reset_cell_counter, stores>>

\* (mutant) std::sort by level alone mixes the scopes of two modules.
Sorted_Mixed(q) == TRUE

\* sortScps: by level and name of the module, so the scopes of a module are
\* adjacent; std::sort leaves the order within a module open.
Sorted(q) == \A j, k \in DOMAIN q :
               j < k => Rank[ModuleOf[q[j]]] <= Rank[ModuleOf[q[k]]]

SortScps ==
  /\ pc = "top"
  /\ i > Len(VarsOf[Top])
  /\ \E q \in [1 .. Cardinality(Scopes) -> Scopes] :
       /\ \A s \in Scopes : \E k \in DOMAIN q : q[k] = s
       /\ Sorted(q)
       /\ scps' = q
  /\ i' = 1
  /\ pc' = "scopes"
  /\ UNCHANGED <<n, count, memLoc, memLocMap, cells, constructed,
                 reset_cell_counter, stores>>

\* prev_modp != cur_modp
FirstOfModule(k) == k = 1 \/ ModuleOf[scps[k - 1]] # ModuleOf[scps[k]]

\* One iteration over vec.  The first scope of a module also sets the
\* variable's own location, the base the constructor resets from.
AssignVar ==
  /\ pc = "scopes"
  /\ n <= Len(scps)
  /\ i <= Len(VarsOf[ModuleOf[scps[n]]])
  /\ LET v == VarsOf[ModuleOf[scps[n]]][i]
         p == <<scps[n], v>>
         loc == count[ArrayOf(v)]
     IN /\ memLocMap' = [x \in DOMAIN memLocMap \cup {p} |->
                           IF x \in DOMAIN memLocMap THEN memLocMap[x] ELSE loc]
        /\ memLoc' = IF FirstOfModule(n) THEN [memLoc EXCEPT ![v] = loc] ELSE memLoc
        /\ CountMem(v)
  /\ i' = i + 1
  /\ UNCHANGED <<pc, scps, n, cells, constructed, reset_cell_counter, stores>>

NextScope ==
  /\ pc = "scopes"
  /\ n <= Len(scps)
  /\ i > Len(VarsOf[ModuleOf[scps[n]]])
  /\ n' = n + 1
  /\ i' = 1
  /\ UNCHANGED <<pc, scps, count, memLoc, memLocMap, cells, constructed,
                 reset_cell_counter, stores>>

-----------------------------------------------------------------------------
(* Addresses.                                                               *)

\* assignLoc: the offset a reference to v in scope s is given.
Loc(s, v) == IF ModuleOf[s] = Top THEN memLoc[v] ELSE memLocMap[<<s, v>>]

\* visit(AstVarRef) in a kernel: the thread index is an unsigned int, and so
\* is its product with the literal size; THREADS is a size_t.
KernelAddr(s, v, tid, w) ==
  ((tid * Size(v)) % UIntSpan) + THREADS * Loc(s, v) + w

\* (mutant) the size column of the table is always 1.
PortSize_One(v) == 1

\* The table of port locations, DataLoc{memloc, size}, and RTLflow::get.  The
\* case for arrays follows those for the widths of their elements.
PortSize(v) == IF IsWide(v) THEN WidthWords(v) ELSE 1
PortAddr(v, idx, w) == idx * PortSize(v) + THREADS * memLoc[v] + w

\* (mutant) the instances are taken to be as large as the whole design.
ResetBase_Total(v, m) ==
  reset_cell_counter[m] * THREADS * count[ArrayOf(v)] + memLoc[v] * THREADS

\* emitVarReset, emitVarResetRecurse: the words the constructor of the next
\* instance of m initialises for v.  For an array of wide elements the index
\* of the stimulus is multiplied by the words of one element.
ResetBase(v, m) ==
  reset_cell_counter[m] * THREADS * ModSize(m, ArrayOf(v)) + memLoc[v] * THREADS
ResetStride(v) == IF IsWide(v) THEN WidthWords(v)
                  ELSE IF IsArray(v) THEN Elements[v] ELSE 1
ResetAddrs(v, m) ==
  {ResetBase(v, m) + t * ResetStride(v) + w :
     t \in 0 .. THREADS - 1, w \in 0 .. Size(v) - 1}

-----------------------------------------------------------------------------
(* Run time.                                                                *)

\* (mutant) the arrays hold one stimulus.
Allocate_NoBatch ==
  /\ pc = "scopes"
  /\ n > Len(scps)
  /\ cells' = [a \in Arrays |-> [x \in 0 .. count[a] - 1 |-> Raw]]
  /\ pc' = "construct"
  /\ UNCHANGED <<layoutVars, constructed, reset_cell_counter, stores>>

\* RTLflow::RTLflow: cudaMallocManaged of the four arrays.
Allocate ==
  /\ pc = "scopes"
  /\ n > Len(scps)
  /\ cells' = [a \in Arrays |-> [x \in 0 .. gpu_threads * count[a] - 1 |-> Raw]]
  /\ pc' = "construct"
  /\ UNCHANGED <<layoutVars, constructed, reset_cell_counter, stores>>

\* What the constructor of an instance of m leaves in array a.
AfterReset(m, a) ==
  [x \in DOMAIN cells[a] |->
     IF \E v \in VarSet(m) \ NoReset : ArrayOf(v) = a /\ x \in ResetAddrs(v, m)
     THEN CHOOSE v \in VarSet(m) \ NoReset : ArrayOf(v) = a /\ x \in ResetAddrs(v, m)
     ELSE cells[a][x]]

\* (mutant) the counter is per design, not per constructed instance.
Construct_KeepsCounter(s) ==
  LET m == ModuleOf[s]
  IN /\ pc = "construct"
     /\ s \notin constructed
     /\ cells' = [a \in Arrays |-> AfterReset(m, a)]
     /\ constructed' = constructed \cup {s}
     /\ UNCHANGED <<pc, layoutVars, reset_cell_counter, stores>>

\* The constructor of the instance s: _ctor_var_reset, ++reset_cell_counter.
Construct(s) ==
  LET m == ModuleOf[s]
  IN /\ pc = "construct"
     /\ s \notin constructed
     /\ cells' = [a \in Arrays |-> AfterReset(m, a)]
     /\ reset_cell_counter' = [reset_cell_counter EXCEPT ![m] = @ + 1]
     /\ constructed' = constructed \cup {s}
     /\ UNCHANGED <<pc, layoutVars, stores>>

Simulate ==
  /\ pc = "construct"
  /\ constructed = Scopes
  /\ pc' = "simulate"
  /\ UNCHANGED <<layoutVars, cells, constructed, reset_cell_counter, stores>>

Store(a, x, d) ==
  /\ pc = "simulate"
  /\ stores < MaxStores
  /\ cells' = [cells EXCEPT ![a][x] = d]
  /\ stores' = stores + 1
  /\ UNCHANGED <<pc, layoutVars, constructed, reset_cell_counter>>

\* rtlflow.get(v, idx)[w] = d
Put(v, idx, w, d) == Store(ArrayOf(v), PortAddr(v, idx, w), d)

\* A kernel thread stores to word w of v in scope s.
KernelStore(s, v, tid, w, d) == Store(ArrayOf(v), KernelAddr(s, v, tid, w), d)

Next ==
  \/ AssignTopVar
  \/ SortScps
  \/ AssignVar
  \/ NextScope
  \/ Allocate
  \/ \E s \in Scopes : Construct(s)
  \/ Simulate
  \/ \E d \in Data, t \in Stimuli :
       \/ \E v \in Ports : \E w \in 0 .. Size(v) - 1 : Put(v, t, w, d)
       \/ \E s \in Scopes : \E v \in VarSet(ModuleOf[s]) :
            \E w \in 0 .. Size(v) - 1 : KernelStore(s, v, t, w, d)

Spec == Init /\ [][Next]_vars

-----------------------------------------------------------------------------
Placed == pc \in {"construct", "simulate"}

\* <<scope, variable, stimulus, word>>
SlotsOf(s, v) == {<<s, v, t, w>> : t \in Stimuli, w \in 0 .. Size(v) - 1}
Slots == UNION {UNION {SlotsOf(s, v) : v \in VarSet(ModuleOf[s])} : s \in Scopes}
SlotAddr(x) == KernelAddr(x[1], x[2], x[3], x[4])

TypeOK ==
  /\ pc \in {"top", "scopes", "construct", "simulate"}
  /\ scps \in {<<>>} \cup [1 .. Cardinality(Scopes) -> Scopes]
  /\ n \in 1 .. Cardinality(Scopes) + 1
  /\ i \in Nat \ {0}
  /\ count \in [Arrays -> Nat]
  /\ memLoc \in [Vars -> Nat]
  /\ DOMAIN memLocMap \subseteq Scopes \X Vars
  /\ \A p \in DOMAIN memLocMap : memLocMap[p] \in Nat
  /\ Placed => \A a \in Arrays :
                 cells[a] \in [0 .. gpu_threads * count[a] - 1 -> Content]
  /\ constructed \subseteq Scopes
  /\ reset_cell_counter \in [Modules -> Nat]
  /\ stores \in 0 .. MaxStores

\* No constructor, kernel thread or port access reaches outside the arrays
\* that RTLflow's constructor allocates.
InBounds ==
  Placed =>
    /\ \A x \in Slots : SlotAddr(x) < gpu_threads * count[ArrayOf(x[2])]
    /\ \A v \in Ports, t \in Stimuli : \A w \in 0 .. Size(v) - 1 :
         PortAddr(v, t, w) < gpu_threads * count[ArrayOf(v)]
    /\ \A m \in Modules : \A v \in VarSet(m) \ NoReset :
         (\E s \in Scopes \ constructed : ModuleOf[s] = m) =>
            \A x \in ResetAddrs(v, m) : x < gpu_threads * count[ArrayOf(v)]

\* The layout of V3EmitC never gives one cell to two words: of two variables,
\* of two instances of a module, or of two stimuli.
Disjoint ==
  Placed =>
    \A x, y \in Slots :
      ArrayOf(x[2]) = ArrayOf(y[2]) /\ SlotAddr(x) = SlotAddr(y) => x = y

\* The application finds a port of a stimulus where the kernels have it.
PortsAgree ==
  Placed =>
    \A s \in Scopes, v \in Ports, t \in Stimuli :
      ModuleOf[s] = Top =>
        \A w \in 0 .. Size(v) - 1 : PortAddr(v, t, w) = KernelAddr(s, v, t, w)

\* --x-initial: "all otherwise uninitialized variables" get an initial value
\* before the simulation begins.
NothingRaw ==
  pc = "simulate" =>
    \A x \in Slots : x[2] \notin NoReset => cells[ArrayOf(x[2])][SlotAddr(x)] # Raw

-----------------------------------------------------------------------------
\* The refinement: the content of a slot is that of the cell a kernel thread
\* finds it in.  The k-th instance constructed of a module initialises the
\* k-th scope of that module in m_scps, which need not be its own.
BlockOf(k) == Cardinality({j \in 1 .. k - 1 : ModuleOf[scps[j]] = ModuleOf[scps[k]]})

Ready == pc = "simulate"
Initialised ==
  {scps[k] : k \in {j \in DOMAIN scps :
               Placed /\ BlockOf(j) < reset_cell_counter[ModuleOf[scps[j]]]}}
SlotContent ==
  [x \in Slots |-> IF Placed THEN cells[ArrayOf(x[2])][SlotAddr(x)] ELSE Raw]

Abstract == INSTANCE VariableStore WITH
  ready <- Ready, initialised <- Initialised, val <- SlotContent

\* Each word of each variable of each stimulus is a place of its own: it is
\* initialised once, by a constructor of its module, and changes only when the
\* application or a kernel thread of its stimulus stores to it.
StoreSpec == Abstract!Spec
=============================================================================
