-------------------------- MODULE DeviceMemoryProofs --------------------------
(***************************************************************************)
(* For every design, batch, order of scopes and order of constructors, the  *)
(* arrays V3EmitC lays out are a store of independent words (StoreSpec),    *)
(* provided that the batch is the one compiled in, that no offset exceeds   *)
(* an unsigned int, and that the two kinds of arrays it misplaces are out.  *)
(*                                                                         *)
(* LayoutInv speaks of offsets: the block [Loc, Loc + Size) of each         *)
(* variable assigned so far lies below its counter, and the blocks of two   *)
(* variables of one array do not overlap.  PlaceInv says where they lie:    *)
(* the variables of the k-th scope are those of its module moved by         *)
(* BlockOf(k) times the words of the module, which is where a constructor   *)
(* that finds its counter at BlockOf(k) looks for them.  RunInv ties the    *)
(* counters to the instances constructed.  Addresses follow by arithmetic:  *)
(* THREADS times a block holds the words of all stimuli.                    *)
(***************************************************************************)
EXTENDS DeviceMemory, FiniteSetTheorems, FunctionTheorems, TLAPS

\* What the layout is sound for: equal batch sizes and no unsigned overflow.
BatchFits == /\ gpu_threads = THREADS
             /\ \A v \in Vars : THREADS * Size(v) <= UIntSpan

-----------------------------------------------------------------------------
(* The inductive invariant.                                                 *)

\* A reference to v in scope s has its offset.
Assigned(s, v) ==
  IF ModuleOf[s] = Top
  THEN pc # "top" \/ \E k \in DOMAIN VarsOf[Top] : k < i /\ VarsOf[Top][k] = v
  ELSE <<s, v>> \in DOMAIN memLocMap

Keys == {x \in Scopes \X Vars : x[2] \in VarSet(ModuleOf[x[1]])}

LayoutType ==
  /\ pc \in {"top", "scopes", "construct", "simulate"}
  /\ count \in [Arrays -> Nat]
  /\ memLoc \in [Vars -> Nat]
  /\ \A p \in DOMAIN memLocMap : memLocMap[p] \in Nat
  /\ i \in Nat \ {0} /\ n \in Nat \ {0}
  /\ pc # "top" => scps \in [1 .. Cardinality(Scopes) -> Scopes]

\* Offsets assigned so far lie below the counter of their array.
Below ==
  \A x \in Keys : Assigned(x[1], x[2]) =>
    Loc(x[1], x[2]) + Size(x[2]) <= count[ArrayOf(x[2])]

Before(x, y) == Loc(x[1], x[2]) + Size(x[2]) <= Loc(y[1], y[2])

\* Blocks in the same array do not overlap.
Apart ==
  \A x, y \in Keys :
    /\ Assigned(x[1], x[2]) /\ Assigned(y[1], y[2])
    /\ ArrayOf(x[2]) = ArrayOf(y[2]) /\ x # y
    => Before(x, y) \/ Before(y, x)

\* The scopes before the n-th have been visited, and the variables before the
\* i-th of the n-th; m_scps holds every scope.
Visited ==
  /\ pc = "top" => n = 1
  /\ pc # "top" =>
    /\ \A s \in Scopes : \E k \in 1 .. Cardinality(Scopes) : scps[k] = s
    /\ \A k \in 1 .. Cardinality(Scopes) : k < n =>
         \A v \in VarSet(ModuleOf[scps[k]]) : <<scps[k], v>> \in DOMAIN memLocMap
    /\ n \in 1 .. Cardinality(Scopes) =>
         \A j \in DOMAIN VarsOf[ModuleOf[scps[n]]] :
           j < i => <<scps[n], VarsOf[ModuleOf[scps[n]]][j]>> \in DOMAIN memLocMap

\* When the arrays are allocated every variable of every scope has its place.
Complete ==
  Placed => \A x \in Keys : Assigned(x[1], x[2])

LayoutInv == LayoutType /\ Below /\ Apart /\ Visited /\ Complete

-----------------------------------------------------------------------------
(* Facts about the constants.                                               *)

LEMMA SizeType == \A v \in Vars : Size(v) \in Nat \ {0} /\ ArrayOf(v) \in Arrays
<1> SUFFICES ASSUME NEW v \in Vars
             PROVE  Size(v) \in Nat \ {0} /\ ArrayOf(v) \in Arrays
    OBVIOUS
<1>1. Width[v] \in Nat \ {0} /\ Elements[v] \in Nat
    BY LayoutAssumption
<1>2. ArrayOf(v) \in Arrays
    BY <1>1 DEF ArrayOf, Arrays
<1>3. (IF IsArray(v) THEN Elements[v] ELSE 1) \in Nat \ {0}
    BY <1>1 DEF IsArray
<1>4. (IF IsWide(v) THEN WidthWords(v) ELSE 1) \in Nat \ {0}
    BY <1>1 DEF IsWide, WidthWords
<1>5. \A a, b \in Nat \ {0} : a * b \in Nat \ {0}
    OBVIOUS
<1> QED BY <1>2, <1>3, <1>4, <1>5 DEF Size

LEMMA KeysType ==
  /\ \A m \in Modules : VarSet(m) \subseteq Vars
  /\ \A m \in Modules, k \in Nat : 1 <= k /\ k <= Len(VarsOf[m]) =>
       k \in DOMAIN VarsOf[m] /\ VarsOf[m][k] \in VarSet(m)
  /\ \A m \in Modules : \A k \in DOMAIN VarsOf[m] :
       k \in Nat /\ 1 <= k /\ k <= Len(VarsOf[m])
  /\ \A m1, m2 \in Modules, v \in Vars :
       v \in VarSet(m1) /\ v \in VarSet(m2) => m1 = m2
<1>1. \A m \in Modules : VarsOf[m] \in Seq(Vars)
    BY LayoutAssumption
<1>2. \A m \in Modules : DOMAIN VarsOf[m] = 1 .. Len(VarsOf[m]) /\ Len(VarsOf[m]) \in Nat
    BY <1>1
<1>3. \A m \in Modules : \A k \in DOMAIN VarsOf[m] : VarsOf[m][k] \in Vars
    BY <1>1
<1> QED BY <1>2, <1>3, LayoutAssumption DEF VarSet

-----------------------------------------------------------------------------
(* Assigning one variable keeps the blocks apart.                           *)

LEMMA PlaceOne ==
  ASSUME LayoutType, LayoutType', Below, Apart,
         NEW z \in Keys, CountMem(z[2]),
         \A x \in Keys : x # z /\ Assigned(x[1], x[2])' =>
            Assigned(x[1], x[2]) /\ Loc(x[1], x[2])' = Loc(x[1], x[2]),
         \/ Loc(z[1], z[2])' = count[ArrayOf(z[2])]
         \/ Assigned(z[1], z[2]) /\ Loc(z[1], z[2])' = Loc(z[1], z[2])
  PROVE  Below' /\ Apart'
<1>1. \A x \in Keys : x[2] \in Vars
    BY DEF Keys
<1>2. \A x \in Keys : Size(x[2]) \in Nat /\ ArrayOf(x[2]) \in Arrays
    BY <1>1, SizeType
<1>3. /\ \A a \in Arrays : count[a] \in Nat /\ count'[a] \in Nat
      /\ \A a \in Arrays : a # ArrayOf(z[2]) => count'[a] = count[a]
      /\ count'[ArrayOf(z[2])] = count[ArrayOf(z[2])] + Size(z[2])
    BY <1>2 DEF CountMem, LayoutType
<1>4. \A x \in Keys : Assigned(x[1], x[2]) => Loc(x[1], x[2]) \in Nat
    BY <1>1 DEF LayoutType, Assigned, Loc
<1>5. \A a \in Arrays : count[a] <= count'[a]
    BY <1>2, <1>3
<1>6. ASSUME NEW x \in Keys, Assigned(x[1], x[2])'
      PROVE  /\ Loc(x[1], x[2])' \in Nat
             /\ Loc(x[1], x[2])' + Size(x[2]) <= count'[ArrayOf(x[2])]
  <2>1. CASE x = z /\ Loc(z[1], z[2])' = count[ArrayOf(z[2])]
      BY <2>1, <1>2, <1>3
  <2>2. CASE Assigned(x[1], x[2]) /\ Loc(x[1], x[2])' = Loc(x[1], x[2])
      BY <2>2, <1>2, <1>3, <1>4, <1>5 DEF Below
  <2> QED BY <1>6, <2>1, <2>2
<1>7. Below'
    BY <1>6 DEF Below
<1>8. Apart'
  <2> SUFFICES ASSUME NEW x \in Keys, NEW y \in Keys,
                      Assigned(x[1], x[2])', Assigned(y[1], y[2])',
                      ArrayOf(x[2]) = ArrayOf(y[2]), x # y
               PROVE  Before(x, y)' \/ Before(y, x)'
      BY DEF Apart
  <2> DEFINE Old(u) == Assigned(u[1], u[2]) /\ Loc(u[1], u[2])' = Loc(u[1], u[2])
             New(u) == u = z /\ Loc(u[1], u[2])' = count[ArrayOf(u[2])]
  <2>1. (Old(x) \/ New(x)) /\ (Old(y) \/ New(y))
      OBVIOUS
  <2>2. CASE Old(x) /\ Old(y)
      BY <2>2 DEF Apart, Before
  <2>3. CASE Old(x) /\ New(y)
    <3>1. Loc(x[1], x[2]) + Size(x[2]) <= count[ArrayOf(x[2])]
        BY <2>3 DEF Below
    <3> QED BY <3>1, <2>3 DEF Before
  <2>4. CASE New(x) /\ Old(y)
    <3>1. Loc(y[1], y[2]) + Size(y[2]) <= count[ArrayOf(y[2])]
        BY <2>4 DEF Below
    <3> QED BY <3>1, <2>4 DEF Before
  <2> QED BY <2>1, <2>2, <2>3, <2>4
<1> QED BY <1>7, <1>8

LEMMA TopScope ==
  \E s \in Scopes : ModuleOf[s] = Top /\ \A x \in Scopes : ModuleOf[x] = Top => x = s
  BY LayoutAssumption

\* What cudaMemAssign has computed is not touched at run time.
LEMMA LayoutKept ==
  ASSUME LayoutInv, UNCHANGED layoutVars, pc # "top", pc' # "top",
         pc' \in {"scopes", "construct", "simulate"},
         Placed \/ ~Placed'
  PROVE  LayoutInv'
  <1> USE DEF layoutVars
  <1>1. LayoutType'
      BY DEF LayoutInv, LayoutType
  <1>2. \A s, v : Assigned(s, v)' <=> Assigned(s, v)
      BY DEF Assigned
  <1>3. \A s, v : Loc(s, v)' = Loc(s, v)
      BY DEF Loc
  <1>4. Below'
      BY <1>2, <1>3 DEF LayoutInv, Below
  <1>5. Apart'
      BY <1>2, <1>3 DEF LayoutInv, Apart, Before
  <1>6. Visited'
      BY DEF LayoutInv, Visited
  <1>7. Complete'
      BY <1>2 DEF LayoutInv, Complete
  <1> QED BY <1>1, <1>4, <1>5, <1>6, <1>7 DEF LayoutInv

-----------------------------------------------------------------------------
(* The inductive step, one lemma per action of the compiler.                *)

LEMMA LayoutInit == Init => LayoutInv
<1> SUFFICES ASSUME Init PROVE LayoutInv
    OBVIOUS
<1> USE DEF Init
<1>1. LayoutType
    BY DEF LayoutType, Arrays
<1>2. \A x \in Keys : ~ Assigned(x[1], x[2])
    BY KeysType, LayoutAssumption DEF Assigned
<1>3. Below /\ Apart
    BY <1>2 DEF Below, Apart
<1>4. Visited /\ Complete
    BY DEF Visited, Complete, Placed
<1> QED BY <1>1, <1>3, <1>4 DEF LayoutInv

LEMMA TopVarKept == LayoutInv /\ AssignTopVar => LayoutInv'
<1> SUFFICES ASSUME LayoutInv, AssignTopVar PROVE LayoutInv'
    OBVIOUS
<1> USE DEF LayoutInv
<1>1. PICK s \in Scopes : ModuleOf[s] = Top /\ \A x \in Scopes : ModuleOf[x] = Top => x = s
    BY TopScope
<1>2. Top \in Modules /\ \A x \in Scopes : ModuleOf[x] \in Modules
    BY LayoutAssumption
<1>3. i \in Nat \ {0} /\ i <= Len(VarsOf[Top])
    BY DEF LayoutType, AssignTopVar
<1>4. PICK v \in Vars : i \in DOMAIN VarsOf[Top] /\ v = VarsOf[Top][i] /\ v \in VarSet(Top)
    BY <1>2, <1>3, KeysType
<1> DEFINE z == <<s, v>>
<1>5. z \in Keys
    BY <1>1, <1>4 DEF Keys
<1>6. Size(v) \in Nat /\ ArrayOf(v) \in Arrays
    BY <1>4, SizeType
<1>7. /\ pc = "top" /\ i' = i + 1 /\ CountMem(v)
      /\ memLoc' = [memLoc EXCEPT ![v] = count[ArrayOf(v)]]
      /\ UNCHANGED <<pc, scps, n, memLocMap>>
    BY <1>4 DEF AssignTopVar
<1>8. LayoutType'
    BY <1>3, <1>4, <1>6, <1>7 DEF LayoutType, CountMem
<1>9. Loc(s, v)' = count[ArrayOf(v)]
    BY <1>1, <1>4, <1>7 DEF Loc, LayoutType
<1>10. ASSUME NEW x \in Keys, x # z, Assigned(x[1], x[2])'
       PROVE  Assigned(x[1], x[2]) /\ Loc(x[1], x[2])' = Loc(x[1], x[2])
  <2>1. x = <<x[1], x[2]>> /\ x[1] \in Scopes /\ x[2] \in VarSet(ModuleOf[x[1]])
      BY DEF Keys
  <2>2. CASE ModuleOf[x[1]] = Top
    <3>1. x[2] # v
        BY <2>1, <2>2, <1>1, <1>10
    <3>2. Assigned(x[1], x[2])
        BY <3>1, <2>2, <1>2, <1>3, <1>7, <1>4, <1>10, KeysType DEF Assigned
    <3> QED BY <3>1, <3>2, <2>2, <1>4, <1>7 DEF Loc, LayoutType
  <2>3. CASE ModuleOf[x[1]] # Top
      BY <2>3, <1>7, <1>10 DEF Assigned, Loc
  <2> QED BY <2>2, <2>3
<1>11. Below' /\ Apart'
    BY <1>5, <1>7, <1>8, <1>9, <1>10, PlaceOne
<1>12. Visited' /\ Complete'
    BY <1>7 DEF Visited, Complete, Placed
<1> QED BY <1>8, <1>11, <1>12

LEMMA SortKept == LayoutInv /\ SortScps => LayoutInv'
<1> SUFFICES ASSUME LayoutInv, SortScps PROVE LayoutInv'
    OBVIOUS
<1> USE DEF LayoutInv
<1>1. /\ pc = "top" /\ pc' = "scopes" /\ i' = 1 /\ i > Len(VarsOf[Top])
      /\ UNCHANGED <<n, count, memLoc, memLocMap>>
      /\ scps' \in [1 .. Cardinality(Scopes) -> Scopes]
      /\ \A s \in Scopes : \E k \in 1 .. Cardinality(Scopes) : scps'[k] = s
    BY DEF SortScps
<1>2. LayoutType'
    BY <1>1 DEF LayoutType
<1>3. n = 1 /\ i \in Nat
    BY <1>1 DEF Visited, LayoutType
<1>4. \A s, v : Loc(s, v)' = Loc(s, v)
    BY <1>1 DEF Loc
<1>5. \A x \in Keys : Assigned(x[1], x[2])' => Assigned(x[1], x[2])
  <2> SUFFICES ASSUME NEW x \in Keys, Assigned(x[1], x[2])' PROVE Assigned(x[1], x[2])
      OBVIOUS
  <2>1. CASE ModuleOf[x[1]] = Top
    <3>1. PICK k \in DOMAIN VarsOf[Top] : VarsOf[Top][k] = x[2]
        BY <2>1 DEF Keys, VarSet
    <3>2. k < i
        BY <1>1, <1>3, KeysType, LayoutAssumption
    <3> QED BY <3>1, <3>2, <2>1 DEF Assigned
  <2>2. CASE ModuleOf[x[1]] # Top
      BY <2>2, <1>1 DEF Assigned
  <2> QED BY <2>1, <2>2
<1>6. Below' /\ Apart'
    BY <1>1, <1>4, <1>5 DEF Below, Apart, Before
<1>7. Visited'
  <2>1. \A m \in Modules : \A j \in DOMAIN VarsOf[m] : ~(j < 1)
      BY KeysType
  <2>2. \A k \in 1 .. Cardinality(Scopes) : scps'[k] \in Scopes /\ ~(k < 1)
      BY <1>1
  <2>3. \A x \in Scopes : ModuleOf[x] \in Modules
      BY LayoutAssumption
  <2> QED BY <1>1, <1>3, <2>1, <2>2, <2>3 DEF Visited
<1>8. Complete'
    BY <1>1 DEF Complete, Placed
<1> QED BY <1>2, <1>6, <1>7, <1>8

\* m_scps is as long as there are scopes.
LEMMA ScpsLength ==
  ASSUME LayoutType, pc # "top"
  PROVE  /\ Cardinality(Scopes) \in Nat
         /\ Len(scps) = Cardinality(Scopes)
         /\ \A k \in 1 .. Cardinality(Scopes) : scps[k] \in Scopes
<1>1. Cardinality(Scopes) \in Nat
    BY FS_CardinalityType, LayoutAssumption
<1> QED BY <1>1 DEF LayoutType

LEMMA ScopeVarKept == LayoutInv /\ AssignVar => LayoutInv'
<1> SUFFICES ASSUME LayoutInv, AssignVar PROVE LayoutInv'
    OBVIOUS
<1> USE DEF LayoutInv
<1>1. /\ n \in 1 .. Cardinality(Scopes) /\ i \in Nat \ {0}
      /\ scps[n] \in Scopes /\ ModuleOf[scps[n]] \in Modules
    BY ScpsLength, LayoutAssumption DEF AssignVar, LayoutType
<1>2. PICK s \in Scopes : s = scps[n]
    BY <1>1
<1>3. PICK v \in Vars : /\ v = VarsOf[ModuleOf[s]][i] /\ v \in VarSet(ModuleOf[s])
                        /\ i \in DOMAIN VarsOf[ModuleOf[s]]
    BY <1>1, <1>2, KeysType DEF AssignVar
<1> DEFINE z == <<s, v>>
<1>4. /\ pc = "scopes" /\ i' = i + 1 /\ CountMem(v)
      /\ memLocMap' = [x \in DOMAIN memLocMap \cup {z} |->
                         IF x \in DOMAIN memLocMap THEN memLocMap[x]
                         ELSE count[ArrayOf(v)]]
      /\ \/ memLoc' = [memLoc EXCEPT ![v] = count[ArrayOf(v)]]
         \/ memLoc' = memLoc
      /\ UNCHANGED <<pc, scps, n>>
    BY <1>2, <1>3 DEF AssignVar
<1>5. z \in Keys
    BY <1>3 DEF Keys
<1>6. Size(v) \in Nat /\ ArrayOf(v) \in Arrays
    BY SizeType
<1>7. LayoutType'
  <2>1. count' \in [Arrays -> Nat] /\ count[ArrayOf(v)] \in Nat
      BY <1>4, <1>6 DEF LayoutType, CountMem
  <2>2. memLoc' \in [Vars -> Nat]
      BY <1>4, <2>1 DEF LayoutType
  <2>3. \A x \in DOMAIN memLocMap' : memLocMap'[x] \in Nat
      BY <1>4, <2>1 DEF LayoutType
  <2>4. i' \in Nat \ {0}
      BY <1>1, <1>4
  <2> QED BY <1>4, <2>1, <2>2, <2>3, <2>4 DEF LayoutType
<1>8. \/ Loc(s, v)' = count[ArrayOf(v)]
      \/ Assigned(s, v) /\ Loc(s, v)' = Loc(s, v)
    BY <1>4 DEF Loc, Assigned, LayoutType
<1>9. ASSUME NEW x \in Keys, x # z, Assigned(x[1], x[2])'
      PROVE  Assigned(x[1], x[2]) /\ Loc(x[1], x[2])' = Loc(x[1], x[2])
  <2>1. x = <<x[1], x[2]>> /\ x[1] \in Scopes /\ x[2] \in VarSet(ModuleOf[x[1]])
      BY DEF Keys
  <2>2. CASE ModuleOf[x[1]] = Top
    <3>1. x[2] # v
      <4>1. SUFFICES ASSUME x[2] = v PROVE FALSE
          OBVIOUS
      <4>2. ModuleOf[s] = Top
          BY <4>1, <2>1, <2>2, <1>1, <1>2, <1>3, KeysType, LayoutAssumption
      <4>3. x[1] = s
          BY <4>2, <2>1, <2>2, TopScope
      <4> QED BY <4>1, <4>3, <2>1, <1>9
    <3> QED BY <3>1, <2>1, <2>2, <1>4 DEF Keys, Assigned, Loc, LayoutType
  <2>3. CASE ModuleOf[x[1]] # Top
      BY <2>1, <2>3, <1>4, <1>9 DEF Assigned, Loc
  <2> QED BY <2>2, <2>3
<1>10. Below' /\ Apart'
    BY <1>4, <1>5, <1>7, <1>8, <1>9, PlaceOne
<1>11. /\ DOMAIN memLocMap \subseteq DOMAIN memLocMap'
       /\ <<scps[n], VarsOf[ModuleOf[scps[n]]][i]>> \in DOMAIN memLocMap'
    BY <1>2, <1>3, <1>4
<1>12. Visited'
  <2>1. \A j \in DOMAIN VarsOf[ModuleOf[scps[n]]] : j < i + 1 => j < i \/ j = i
      BY <1>1, KeysType
  <2>2. \A j \in DOMAIN VarsOf[ModuleOf[scps[n]]] : j < i + 1 =>
          <<scps[n], VarsOf[ModuleOf[scps[n]]][j]>> \in DOMAIN memLocMap'
      BY <1>1, <1>4, <1>11, <2>1 DEF Visited
  <2> QED BY <1>4, <1>11, <2>2 DEF Visited
<1>13. Complete'
    BY <1>4 DEF Complete, Placed
<1> QED BY <1>7, <1>10, <1>12, <1>13

LEMMA NextScopeKept == LayoutInv /\ NextScope => LayoutInv'
<1> SUFFICES ASSUME LayoutInv, NextScope PROVE LayoutInv'
    OBVIOUS
<1> USE DEF LayoutInv
<1>1. /\ n \in 1 .. Cardinality(Scopes) /\ i \in Nat \ {0}
      /\ ModuleOf[scps[n]] \in Modules /\ Cardinality(Scopes) \in Nat
    BY ScpsLength, LayoutAssumption DEF NextScope, LayoutType
<1>2. /\ pc = "scopes" /\ n' = n + 1 /\ i' = 1
      /\ i > Len(VarsOf[ModuleOf[scps[n]]])
      /\ UNCHANGED <<pc, scps, count, memLoc, memLocMap>>
    BY DEF NextScope
<1>3. LayoutType'
    BY <1>1, <1>2 DEF LayoutType
<1>4. (\A s, v : Loc(s, v)' = Loc(s, v)) /\ (\A s, v : Assigned(s, v)' <=> Assigned(s, v))
    BY <1>2 DEF Loc, Assigned
<1>5. Below' /\ Apart'
    BY <1>2, <1>4 DEF Below, Apart, Before
<1>6. ASSUME NEW w \in VarSet(ModuleOf[scps[n]])
      PROVE  <<scps[n], w>> \in DOMAIN memLocMap
  <2>1. PICK j \in DOMAIN VarsOf[ModuleOf[scps[n]]] : VarsOf[ModuleOf[scps[n]]][j] = w
      BY DEF VarSet
  <2>2. j < i
      BY <1>1, <1>2, KeysType, LayoutAssumption
  <2> QED BY <1>1, <1>2, <2>1, <2>2 DEF Visited
<1>7. \A k \in 1 .. Cardinality(Scopes) : k < n' => k < n \/ k = n
    BY <1>1, <1>2
<1>8. \A k \in 1 .. Cardinality(Scopes) : k < n' =>
         \A v \in VarSet(ModuleOf[scps[k]]) : <<scps[k], v>> \in DOMAIN memLocMap
    BY <1>2, <1>6, <1>7 DEF Visited
<1>9. n' \in 1 .. Cardinality(Scopes) => ModuleOf[scps[n']] \in Modules
    BY <1>2, ScpsLength, LayoutAssumption
<1>10. Visited'
    BY <1>2, <1>8, <1>9, KeysType DEF Visited
<1>11. Complete'
    BY <1>2 DEF Complete, Placed
<1> QED BY <1>3, <1>5, <1>10, <1>11

LEMMA AllocateKept == LayoutInv /\ Allocate => LayoutInv'
<1> SUFFICES ASSUME LayoutInv, Allocate PROVE LayoutInv'
    OBVIOUS
<1> USE DEF LayoutInv
<1>1. /\ pc = "scopes" /\ pc' = "construct" /\ n > Cardinality(Scopes)
      /\ UNCHANGED layoutVars
    BY ScpsLength DEF Allocate
<1>2. UNCHANGED <<scps, n, i, count, memLoc, memLocMap>>
    BY <1>1 DEF layoutVars
<1>3. LayoutType'
    BY <1>1, <1>2 DEF LayoutType
<1>4. (\A s, v : Loc(s, v)' = Loc(s, v)) /\ (\A s, v : Assigned(s, v)' <=> Assigned(s, v))
    BY <1>1, <1>2 DEF Loc, Assigned
<1>5. Below' /\ Apart'
    BY <1>2, <1>4 DEF Below, Apart, Before
<1>6. Visited'
    BY <1>1, <1>2 DEF Visited
<1>7. ASSUME NEW x \in Keys PROVE Assigned(x[1], x[2])
  <2>1. x[1] \in Scopes /\ x[2] \in VarSet(ModuleOf[x[1]])
      BY DEF Keys
  <2>2. PICK k \in 1 .. Cardinality(Scopes) : scps[k] = x[1]
      BY <1>1, <2>1 DEF Visited
  <2>3. k < n
      BY <1>1, ScpsLength DEF LayoutType
  <2>4. <<x[1], x[2]>> \in DOMAIN memLocMap
      BY <1>1, <2>1, <2>2, <2>3 DEF Visited
  <2> QED BY <1>1, <2>4 DEF Assigned
<1>8. Complete'
    BY <1>4, <1>7 DEF Complete
<1> QED BY <1>3, <1>5, <1>6, <1>8

LEMMA LayoutNext == LayoutInv /\ [Next]_vars => LayoutInv'
<1> SUFFICES ASSUME LayoutInv, [Next]_vars PROVE LayoutInv'
    OBVIOUS
<1>1. CASE AssignTopVar
    BY <1>1, TopVarKept
<1>2. CASE SortScps
    BY <1>2, SortKept
<1>3. CASE AssignVar
    BY <1>3, ScopeVarKept
<1>4. CASE NextScope
    BY <1>4, NextScopeKept
<1>5. CASE Allocate
    BY <1>5, AllocateKept
<1>6. CASE \E s \in Scopes : Construct(s)
    BY <1>6, LayoutKept DEF Construct, Placed
<1>7. CASE Simulate
    BY <1>7, LayoutKept DEF Simulate, Placed
<1>8. ASSUME NEW a, NEW x, NEW d, Store(a, x, d) PROVE LayoutInv'
    BY <1>8, LayoutKept DEF Store, Placed
<1>9. CASE UNCHANGED vars
  <2>1. UNCHANGED <<pc, scps, n, i, count, memLoc, memLocMap>>
      BY <1>9 DEF vars, layoutVars
  <2> QED BY <2>1 DEF LayoutInv, LayoutType, Below, Apart, Visited, Complete,
                      Assigned, Loc, Before, Placed
<1> QED BY <1>1, <1>2, <1>3, <1>4, <1>5, <1>6, <1>7, <1>8, <1>9
        DEF Next, Put, KernelStore

-----------------------------------------------------------------------------
(* From offsets to addresses.                                               *)

LEMMA TimesMonotone ==
  ASSUME NEW a \in Nat, NEW b \in Nat, NEW c \in Nat, a <= b
  PROVE  c * a <= c * b /\ a * c <= b * c /\ c * a \in Nat /\ a * c \in Nat
<1>1. PICK d \in Nat : b = a + d
    BY b - a \in Nat
<1>2. c * b = c * a + c * d /\ b * c = a * c + d * c
    BY <1>1
<1>3. \A x, y \in Nat : x * y \in Nat
    OBVIOUS
<1> QED BY <1>2, <1>3

\* The words of stimulus t of a block of size c, at offset l of a batch of b.
LEMMA WordInBlock ==
  ASSUME NEW b \in Nat, NEW c \in Nat, NEW l \in Nat,
         NEW t \in Nat, NEW w \in Nat, t < b, w < c
  PROVE  /\ t * c + w < b * c
         /\ b * l <= t * c + b * l + w
         /\ t * c + b * l + w < b * (l + c)
         /\ t * c \in Nat /\ b * l \in Nat /\ b * c \in Nat /\ b * (l + c) \in Nat
<1>1. (t + 1) * c <= b * c
    BY TimesMonotone
<1>2. (t + 1) * c = t * c + c
    OBVIOUS
<1>3. b * (l + c) = b * l + b * c
    OBVIOUS
<1>4. \A x, y \in Nat : x * y \in Nat
    OBVIOUS
<1> QED BY <1>1, <1>2, <1>3, <1>4

\* Within a block an address determines the stimulus and the word.
LEMMA WordUnique ==
  ASSUME NEW c \in Nat, NEW t1 \in Nat, NEW w1 \in Nat, NEW t2 \in Nat, NEW w2 \in Nat,
         w1 < c, w2 < c, t1 * c + w1 = t2 * c + w2
  PROVE  t1 = t2 /\ w1 = w2
<1>1. ASSUME NEW p \in Nat, NEW q \in Nat, NEW u \in Nat, NEW x \in Nat, p < q, u < c
      PROVE  p * c + u < q * c + x
  <2>1. (p + 1) * c <= q * c /\ (p + 1) * c \in Nat
      BY <1>1, TimesMonotone
  <2>2. (p + 1) * c = p * c + c
      BY <1>1
  <2>3. \A y, z \in Nat : y * z \in Nat
      OBVIOUS
  <2> QED BY <1>1, <2>1, <2>2, <2>3
<1>2. ~(t1 < t2) /\ ~(t2 < t1)
  <2>1. t1 * c \in Nat /\ t2 * c \in Nat
      OBVIOUS
  <2> QED BY <1>1, <2>1
<1>3. t1 = t2
    BY <1>2
<1> QED BY <1>3

LEMMA SlotType ==
  ASSUME BatchFits, NEW x \in Slots
  PROVE  /\ x = <<x[1], x[2], x[3], x[4]>>
         /\ <<x[1], x[2]>> \in Keys /\ x[2] \in Vars
         /\ x[3] \in Nat /\ x[3] < THREADS
         /\ x[4] \in Nat /\ x[4] < Size(x[2])
<1>1. PICK s \in Scopes : \E v \in VarSet(ModuleOf[s]) : x \in SlotsOf(s, v)
    BY DEF Slots
<1>2. PICK v \in VarSet(ModuleOf[s]) : x \in SlotsOf(s, v)
    BY <1>1
<1>3. v \in Vars
    BY KeysType, LayoutAssumption
<1>4. PICK t \in Stimuli : \E w \in 0 .. Size(v) - 1 : x = <<s, v, t, w>>
    BY <1>2 DEF SlotsOf
<1>5. PICK w \in 0 .. Size(v) - 1 : x = <<s, v, t, w>>
    BY <1>4
<1>6. t \in Nat /\ t < THREADS /\ w \in Nat /\ w < Size(v)
    BY <1>3, SizeType, LayoutAssumption DEF Stimuli, BatchFits
<1> QED BY <1>3, <1>5, <1>6 DEF Keys

\* The cell of a slot, and the block of its variable it lies in.
LEMMA SlotAddress ==
  ASSUME BatchFits, LayoutInv, NEW u \in Slots, Placed \/ Assigned(u[1], u[2])
  PROVE  LET l == Loc(u[1], u[2])
             c == Size(u[2])
         IN  /\ Assigned(u[1], u[2]) /\ l \in Nat /\ c \in Nat
             /\ u[3] * c \in Nat
             /\ SlotAddr(u) = u[3] * c + THREADS * l + u[4]
             /\ THREADS * l <= SlotAddr(u)
             /\ SlotAddr(u) \in Int /\ SlotAddr(u) < THREADS * (l + c)
             /\ THREADS * l \in Nat /\ THREADS * (l + c) \in Nat
<1> DEFINE L(x) == Loc(x[1], x[2])
           S(x) == Size(x[2])
<1>0. THREADS \in Nat
    BY LayoutAssumption
<1>1. Assigned(u[1], u[2])
    BY SlotType DEF LayoutInv, Complete
<1>2. L(u) \in Nat /\ S(u) \in Nat
    BY <1>1, SlotType, SizeType DEF LayoutInv, LayoutType, Assigned, Loc
<1> HIDE DEF L, S
<1> DEFINE t == u[3]
           w == u[4]
<1>8. t \in Nat /\ t < THREADS /\ w \in Nat /\ w < S(u)
    BY SlotType DEF S
<1> HIDE DEF t, w
<1>3. /\ t * S(u) + w < THREADS * S(u)
      /\ t * S(u) \in Nat /\ THREADS * S(u) \in Nat
      /\ THREADS * L(u) <= t * S(u) + THREADS * L(u) + w
      /\ t * S(u) + THREADS * L(u) + w < THREADS * (L(u) + S(u))
      /\ THREADS * L(u) \in Nat /\ THREADS * (L(u) + S(u)) \in Nat
    BY <1>0, <1>2, <1>8, WordInBlock
<1>4. THREADS * S(u) <= UIntSpan
    BY SlotType DEF BatchFits, S
<1>5. t * S(u) < UIntSpan /\ UIntSpan \in Nat \ {0}
    BY <1>3, <1>4, <1>8, LayoutAssumption
<1>6. \A a \in Nat, b \in Nat \ {0} : a < b => a % b = a
    OBVIOUS
<1>7. (t * S(u)) % UIntSpan = t * S(u)
    BY <1>3, <1>5, <1>6
<1>9. SlotAddr(u) = t * S(u) + THREADS * L(u) + w
    BY <1>7 DEF SlotAddr, KernelAddr, L, S, t, w
<1>10. SlotAddr(u) \in Int
    BY <1>3, <1>8, <1>9
<1> QED BY <1>1, <1>2, <1>3, <1>9, <1>10 DEF t, w, L, S

LEMMA AddressesApart ==
  ASSUME BatchFits, LayoutInv PROVE Disjoint
<1> USE DEF LayoutInv
<1> SUFFICES ASSUME Placed, NEW x \in Slots, NEW y \in Slots,
                    ArrayOf(x[2]) = ArrayOf(y[2]), SlotAddr(x) = SlotAddr(y)
             PROVE  x = y
    BY DEF Disjoint
<1> DEFINE L(u) == Loc(u[1], u[2])
           S(u) == Size(u[2])
<1>1. THREADS \in Nat
    BY LayoutAssumption
<1>2. ASSUME NEW u \in Slots
      PROVE  /\ Assigned(u[1], u[2]) /\ L(u) \in Nat /\ S(u) \in Nat
             /\ u[3] * S(u) \in Nat
             /\ SlotAddr(u) = u[3] * S(u) + THREADS * L(u) + u[4]
             /\ THREADS * L(u) <= SlotAddr(u)
             /\ SlotAddr(u) \in Int /\ SlotAddr(u) < THREADS * (L(u) + S(u))
             /\ THREADS * L(u) \in Nat /\ THREADS * (L(u) + S(u)) \in Nat
    BY SlotAddress
<1>3. ASSUME NEW u \in Slots, NEW z \in Slots, L(u) + S(u) <= L(z)
      PROVE  SlotAddr(u) < SlotAddr(z)
  <2>1. THREADS * (L(u) + S(u)) <= THREADS * L(z)
      BY <1>1, <1>2, <1>3, TimesMonotone
  <2>2. \A a, b, c, d \in Int : a < b /\ b <= c /\ c <= d => a < d
      OBVIOUS
  <2> QED BY <1>2, <2>1, <2>2
<1>4. <<x[1], x[2]>> = <<y[1], y[2]>>
  <2>1. SUFFICES ASSUME <<x[1], x[2]>> # <<y[1], y[2]>> PROVE FALSE
      OBVIOUS
  <2>2. L(x) + S(x) <= L(y) \/ L(y) + S(y) <= L(x)
      BY <1>2, <2>1, SlotType DEF Apart, Before
  <2> QED BY <1>2, <1>3, <2>2
<1>5. L(x) = L(y) /\ S(x) = S(y)
    BY <1>4
<1>6. /\ x[3] \in Nat /\ x[4] \in Nat /\ x[4] < S(x)
      /\ y[3] \in Nat /\ y[4] \in Nat /\ y[4] < S(y)
    BY SlotType
<1> HIDE DEF L, S
<1>7. x[3] * S(x) + THREADS * L(x) + x[4] = y[3] * S(x) + THREADS * L(x) + y[4]
    BY <1>2, <1>5
<1>8. \A a, b, c, d, e \in Nat : a + e + b = c + e + d => a + b = c + d
    OBVIOUS
<1>9. x[3] * S(x) + x[4] = y[3] * S(x) + y[4]
  <2>1. x[3] * S(x) \in Nat /\ y[3] * S(x) \in Nat /\ THREADS * L(x) \in Nat
      BY <1>2, <1>5
  <2> QED BY <1>6, <1>7, <1>8, <2>1
<1>10. x[3] = y[3] /\ x[4] = y[4]
  <2>1. S(x) \in Nat /\ y[4] < S(x)
      BY <1>2, <1>5, <1>6
  <2>2. PICK c \in Nat, t \in Nat, w \in Nat, u \in Nat, z \in Nat :
          c = S(x) /\ t = x[3] /\ w = x[4] /\ u = y[3] /\ z = y[4]
      BY <1>6, <2>1
  <2>3. w < c /\ z < c
      BY <1>6, <2>1, <2>2
  <2>4. t * c + w = u * c + z
      BY <1>9, <2>2
  <2>5. t = u /\ w = z
      BY <2>3, <2>4, WordUnique
  <2> QED BY <2>2, <2>5
<1> QED BY <1>4, <1>10, SlotType

-----------------------------------------------------------------------------
\* For every design, every order sortScps may choose and every batch whose
\* offsets fit an unsigned int, the words cudaMemAssign places never share a
\* cell: not those of two variables, of two instances, or of two stimuli.
THEOREM LayoutIsDisjoint == BatchFits => (Spec => []Disjoint)
<1> SUFFICES ASSUME BatchFits PROVE Spec => []Disjoint
    OBVIOUS
<1>1. Init => LayoutInv
    BY LayoutInit
<1>2. LayoutInv /\ [Next]_vars => LayoutInv'
    BY LayoutNext
<1>3. LayoutInv => Disjoint
    BY AddressesApart
<1> QED BY <1>1, <1>2, <1>3, PTL DEF Spec

-----------------------------------------------------------------------------
(* How many words a set of variables has in an array.                       *)

\* The variables of module m before the j-th, and their words in array a.
FirstVars(m, j) == {VarsOf[m][h] : h \in {h \in DOMAIN VarsOf[m] : h < j}}
Prefix(m, j, a) == Cardinality(WordsIn(FirstVars(m, j), a))
Total(m, a) == Cardinality(WordsIn(VarSet(m), a))

LEMMA WordsFinite ==
  ASSUME NEW V \in SUBSET Vars, IsFiniteSet(V), NEW a
  PROVE  IsFiniteSet(WordsIn(V, a)) /\ Cardinality(WordsIn(V, a)) \in Nat
<1> DEFINE U == {u \in V : ArrayOf(u) = a}
           W(v) == {v} \X (0 .. Size(v) - 1)
           T == {W(v) : v \in U}
           f == [v \in U |-> W(v)]
<1>1. IsFiniteSet(U)
  BY FS_Subset
<1>2. f \in Surjection(U, T)
  BY DEF Surjection
<1>3. IsFiniteSet(T)
  <2> HIDE DEF U, T, f
  <2> QED BY <1>1, <1>2, FS_Surjection
<1>4. \A v \in U : IsFiniteSet(W(v))
  <2> SUFFICES ASSUME NEW v \in U PROVE IsFiniteSet(W(v))
    OBVIOUS
  <2>1. 0 \in Int /\ Size(v) - 1 \in Int
    BY SizeType
  <2>2. IsFiniteSet(0 .. Size(v) - 1)
    BY <2>1, FS_Interval
  <2>3. IsFiniteSet({v})
    BY FS_Singleton
  <2> HIDE DEF U
  <2> QED BY <2>2, <2>3, FS_Product
<1>5. \A S \in T : IsFiniteSet(S)
  BY <1>4
<1>6. WordsIn(V, a) = UNION T
  BY DEF WordsIn
<1> HIDE DEF T
<1> QED BY <1>3, <1>5, <1>6, FS_UNION, FS_CardinalityType

LEMMA WordsAdd ==
  ASSUME NEW V \in SUBSET Vars, IsFiniteSet(V), NEW v \in Vars, v \notin V, NEW a
  PROVE  Cardinality(WordsIn(V \cup {v}, a))
           = Cardinality(WordsIn(V, a)) + IF ArrayOf(v) = a THEN Size(v) ELSE 0
<1> DEFINE W == {v} \X (0 .. Size(v) - 1)
<1>1. IsFiniteSet(WordsIn(V, a)) /\ Cardinality(WordsIn(V, a)) \in Nat
  BY WordsFinite
<1>2. CASE ArrayOf(v) # a
  <2>1. WordsIn(V \cup {v}, a) = WordsIn(V, a)
    BY <1>2 DEF WordsIn
  <2> QED BY <1>1, <1>2, <2>1
<1>3. CASE ArrayOf(v) = a
  <2>1. WordsIn(V \cup {v}, a) = WordsIn(V, a) \cup W
    BY <1>3 DEF WordsIn
  <2>2. WordsIn(V, a) \cap W = {}
    BY DEF WordsIn
  <2>3. Size(v) \in Nat \ {0}
    BY SizeType
  <2>4. IsFiniteSet({v}) /\ Cardinality({v}) = 1
    BY FS_Singleton
  <2>5. IsFiniteSet(0 .. Size(v) - 1) /\ Cardinality(0 .. Size(v) - 1) = Size(v)
    BY <2>3, FS_Interval
  <2>6. IsFiniteSet(W) /\ Cardinality(W) = 1 * Size(v)
    BY <2>4, <2>5, FS_Product
  <2>7. 1 * Size(v) = Size(v)
    BY <2>3
  <2>8. Cardinality(WordsIn(V, a) \cup W)
          = Cardinality(WordsIn(V, a)) + Cardinality(W) - Cardinality(WordsIn(V, a) \cap W)
    BY <1>1, <2>6, FS_Union
  <2> HIDE DEF W
  <2>9. Cardinality(WordsIn(V, a) \cap W) = 0
    BY <2>2, FS_EmptySet
  <2>10. \A x, y \in Nat : x + y - 0 = x + y
    OBVIOUS
  <2>11. Cardinality(WordsIn(V, a)) + Size(v) - 0 = Cardinality(WordsIn(V, a)) + Size(v)
    BY <1>1, <2>3, <2>10
  <2>12. Cardinality(WordsIn(V \cup {v}, a)) = Cardinality(WordsIn(V, a)) + Size(v)
    BY <2>1, <2>6, <2>7, <2>8, <2>9, <2>11, Zenon
  <2> QED BY <1>3, <2>12
<1> QED BY <1>2, <1>3

LEMMA VarSetFinite ==
  ASSUME NEW m \in Modules
  PROVE  IsFiniteSet(VarSet(m))
<1> DEFINE D == DOMAIN VarsOf[m]
           f == [k \in D |-> VarsOf[m][k]]
<1>1. IsFiniteSet(D)
  <2>1. VarsOf[m] \in Seq(Vars)
    BY LayoutAssumption
  <2>2. D = 1 .. Len(VarsOf[m]) /\ Len(VarsOf[m]) \in Int /\ 1 \in Int
    BY <2>1
  <2> QED BY <2>2, FS_Interval
<1>2. f \in [D -> VarSet(m)] /\ \A v \in VarSet(m) : \E k \in D : f[k] = v
  BY DEF VarSet
<1> HIDE DEF D, f
<1>3. f \in Surjection(D, VarSet(m))
  BY <1>2, Fun_IsSurj
<1> QED BY <1>1, <1>3, FS_Surjection

\* The words before the j-th variable, step by step, are those of the module.
LEMMA PrefixFacts ==
  ASSUME NEW m \in Modules, NEW a
  PROVE  /\ \A j : Prefix(m, j, a) \in Nat
         /\ Total(m, a) \in Nat
         /\ Prefix(m, 1, a) = 0
         /\ \A j \in DOMAIN VarsOf[m] :
              Prefix(m, j + 1, a)
                = Prefix(m, j, a) + IF ArrayOf(VarsOf[m][j]) = a THEN Size(VarsOf[m][j]) ELSE 0
         /\ \A j \in Nat : j > Len(VarsOf[m]) => Prefix(m, j, a) = Total(m, a)
<1>1. /\ VarSet(m) \in SUBSET Vars
      /\ \A k \in DOMAIN VarsOf[m] : k \in Nat /\ 1 <= k /\ k <= Len(VarsOf[m])
      /\ VarsOf[m] \in Seq(Vars) /\ Len(VarsOf[m]) \in Nat
      /\ DOMAIN VarsOf[m] = 1 .. Len(VarsOf[m])
  BY KeysType, LayoutAssumption
<1>2. IsFiniteSet(VarSet(m))
  BY VarSetFinite
<1>3. \A j : FirstVars(m, j) \in SUBSET VarSet(m)
  BY DEF FirstVars, VarSet
<1>4. \A j : FirstVars(m, j) \in SUBSET Vars /\ IsFiniteSet(FirstVars(m, j))
  BY <1>1, <1>2, <1>3, FS_Subset
<1>5. \A j : Prefix(m, j, a) \in Nat
  BY <1>4, WordsFinite DEF Prefix
<1>6. Total(m, a) \in Nat
  BY <1>1, <1>2, WordsFinite DEF Total
<1>7. Prefix(m, 1, a) = 0
  <2>1. FirstVars(m, 1) = {}
    BY <1>1 DEF FirstVars
  <2>2. WordsIn({}, a) = {}
    BY DEF WordsIn
  <2> QED BY <2>1, <2>2, FS_EmptySet DEF Prefix
<1>8. ASSUME NEW j \in DOMAIN VarsOf[m]
      PROVE  Prefix(m, j + 1, a)
               = Prefix(m, j, a) + IF ArrayOf(VarsOf[m][j]) = a THEN Size(VarsOf[m][j]) ELSE 0
  <2>1. \A h \in DOMAIN VarsOf[m] : h < j + 1 <=> h < j \/ h = j
    BY <1>1
  <2>2. FirstVars(m, j + 1) = FirstVars(m, j) \cup {VarsOf[m][j]}
    BY <2>1 DEF FirstVars
  <2>3. VarsOf[m][j] \notin FirstVars(m, j)
    <3> SUFFICES ASSUME VarsOf[m][j] \in FirstVars(m, j) PROVE FALSE
      OBVIOUS
    <3>1. PICK h \in DOMAIN VarsOf[m] : h < j /\ VarsOf[m][h] = VarsOf[m][j]
      BY DEF FirstVars
    <3>2. h = j
      BY <3>1, LayoutAssumption
    <3> QED BY <1>1, <3>1, <3>2
  <2>4. VarsOf[m][j] \in Vars
    BY <1>1 DEF VarSet
  <2> QED BY <1>4, <2>2, <2>3, <2>4, WordsAdd DEF Prefix
<1>9. ASSUME NEW j \in Nat, j > Len(VarsOf[m]) PROVE Prefix(m, j, a) = Total(m, a)
  <2>1. \A h \in DOMAIN VarsOf[m] : h < j
    BY <1>1, <1>9
  <2>2. FirstVars(m, j) = VarSet(m)
    BY <2>1 DEF FirstVars, VarSet
  <2> QED BY <2>2 DEF Prefix, Total
<1> QED BY <1>5, <1>6, <1>7, <1>8, <1>9

-----------------------------------------------------------------------------
(* The blocks of the scopes of a module.                                    *)

Index == 1 .. Cardinality(Scopes)
Mod(k) == ModuleOf[scps[k]]
ScopesOf(m) == {s \in Scopes : ModuleOf[s] = m}

\* m_scps holds every scope once, the scopes of a module next to each other.
ScpsOK ==
  /\ scps \in [Index -> Scopes]
  /\ \A s \in Scopes : \E k \in Index : scps[k] = s
  /\ Sorted(scps)

LEMMA ScpsFacts ==
  ASSUME ScpsOK
  PROVE  /\ Cardinality(Scopes) \in Nat /\ IsFiniteSet(Index)
         /\ Len(scps) = Cardinality(Scopes) /\ DOMAIN scps = Index
         /\ \A k \in Index : k \in Nat /\ 1 <= k /\ scps[k] \in Scopes /\ Mod(k) \in Modules
         /\ \A j, k \in Index : scps[j] = scps[k] => j = k
         /\ \A j, k, l \in Index : j < k /\ k < l /\ Mod(j) = Mod(l) => Mod(k) = Mod(l)
<1>1. Cardinality(Scopes) \in Nat
  BY FS_CardinalityType, LayoutAssumption
<1>2. IsFiniteSet(Index) /\ Cardinality(Index) = Cardinality(Scopes)
  BY <1>1, FS_Interval DEF Index
<1>3. Len(scps) = Cardinality(Scopes) /\ DOMAIN scps = Index
  BY <1>1 DEF ScpsOK, Index
<1>4. \A k \in Index : k \in Nat /\ 1 <= k /\ scps[k] \in Scopes /\ Mod(k) \in Modules
  BY <1>1, LayoutAssumption DEF ScpsOK, Index, Mod
<1>5. scps \in Surjection(Index, Scopes)
  BY Fun_IsSurj DEF ScpsOK
<1>6. scps \in Injection(Index, Scopes)
  BY <1>2, <1>5, FS_SurjSameCardinalityImpliesInj
<1>7. \A j, k \in Index : scps[j] = scps[k] => j = k
  BY <1>6, Fun_InjectionProperties
<1>8. ASSUME NEW j \in Index, NEW k \in Index, NEW l \in Index,
             j < k, k < l, Mod(j) = Mod(l)
      PROVE  Mod(k) = Mod(l)
  <2>1. Rank[Mod(j)] <= Rank[Mod(k)] /\ Rank[Mod(k)] <= Rank[Mod(l)]
    BY <1>3, <1>8 DEF ScpsOK, Sorted, Mod
  <2>2. Rank[Mod(k)] \in Nat /\ Rank[Mod(l)] \in Nat
    BY <1>4, LayoutAssumption
  <2>3. Rank[Mod(k)] = Rank[Mod(l)]
    BY <1>8, <2>1, <2>2
  <2> QED BY <1>4, <2>3, LayoutAssumption
<1> QED BY <1>1, <1>2, <1>3, <1>4, <1>7, <1>8

Peers(k) == {j \in 1 .. k - 1 : ModuleOf[scps[j]] = ModuleOf[scps[k]]}

LEMMA PeersFacts ==
  ASSUME ScpsOK, NEW k \in Index
  PROVE  /\ IsFiniteSet(Peers(k)) /\ BlockOf(k) = Cardinality(Peers(k)) /\ BlockOf(k) \in Nat
         /\ \A j : j \in Peers(k) <=> j \in Index /\ j < k /\ Mod(j) = Mod(k)
<1>1. k \in Nat /\ 1 <= k /\ k <= Cardinality(Scopes) /\ Cardinality(Scopes) \in Nat
  BY ScpsFacts DEF Index
<1>2. \A j : j \in 1 .. k - 1 <=> j \in Index /\ j < k
  BY <1>1 DEF Index
<1>3. Peers(k) \in SUBSET (1 .. k - 1) /\ IsFiniteSet(1 .. k - 1)
  <2>1. 1 \in Int /\ k - 1 \in Int
    BY <1>1
  <2> QED BY <2>1, FS_Interval DEF Peers
<1>4. IsFiniteSet(Peers(k))
  BY <1>3, FS_Subset
<1> QED BY <1>2, <1>4, FS_CardinalityType DEF Peers, BlockOf, Mod

\* The blocks of a module are numbered from 0 in the order of m_scps.
LEMMA BlockSteps ==
  ASSUME ScpsOK, NEW k \in Index
  PROVE  /\ FirstOfModule(k) => /\ BlockOf(k) = 0
                                /\ \A j \in Index : j < k => Mod(j) # Mod(k)
         /\ k + 1 \in Index /\ ~FirstOfModule(k + 1) =>
              Mod(k + 1) = Mod(k) /\ BlockOf(k + 1) = BlockOf(k) + 1
         /\ \A j \in Index : j < k /\ Mod(j) = Mod(k) => BlockOf(j) < BlockOf(k)
<1>1. /\ k \in Nat /\ 1 <= k /\ k <= Cardinality(Scopes) /\ Cardinality(Scopes) \in Nat
      /\ \A j \in Index : j \in Nat /\ 1 <= j
  BY ScpsFacts DEF Index
<1>2. ASSUME FirstOfModule(k)
      PROVE  BlockOf(k) = 0 /\ \A j \in Index : j < k => Mod(j) # Mod(k)
  <2>1. ASSUME NEW j \in Index, j < k, Mod(j) = Mod(k) PROVE FALSE
    <3>1. k # 1 /\ k - 1 \in Index /\ (j < k - 1 \/ j = k - 1) /\ k - 1 < k
      BY <1>1, <2>1 DEF Index
    <3>2. Mod(k - 1) = Mod(k)
      BY <2>1, <3>1, ScpsFacts
    <3> QED BY <1>2, <3>1, <3>2 DEF FirstOfModule, Mod
  <2>2. Peers(k) = {}
    BY <2>1, PeersFacts
  <2> QED BY <2>1, <2>2, PeersFacts, FS_EmptySet
<1>3. ASSUME k + 1 \in Index, ~FirstOfModule(k + 1)
      PROVE  Mod(k + 1) = Mod(k) /\ BlockOf(k + 1) = BlockOf(k) + 1
  <2>1. (k + 1) - 1 = k
    BY <1>1
  <2>2. Mod(k + 1) = Mod(k)
    <3>1. ModuleOf[scps[(k + 1) - 1]] = ModuleOf[scps[k + 1]]
      BY <1>3, Zenon DEF FirstOfModule
    <3> QED BY <2>1, <3>1, Zenon DEF Mod
  <2>3. \A j \in Index : j < k + 1 <=> j < k \/ j = k
    BY <1>1
  <2>4. Peers(k + 1) = Peers(k) \cup {k} /\ k \notin Peers(k)
    <3>1. \A j : j \in Peers(k + 1) <=> j \in Index /\ j < k + 1 /\ Mod(j) = Mod(k + 1)
      BY <1>3, PeersFacts
    <3>2. \A j : j \in Peers(k) <=> j \in Index /\ j < k /\ Mod(j) = Mod(k)
      BY PeersFacts
    <3>3. ~(k < k)
      BY <1>1
    <3> QED BY <2>2, <2>3, <3>1, <3>2, <3>3
  <2>5. IsFiniteSet(Peers(k)) /\ BlockOf(k) = Cardinality(Peers(k))
        /\ BlockOf(k + 1) = Cardinality(Peers(k + 1))
    BY <1>3, PeersFacts
  <2>6. Cardinality(Peers(k) \cup {k}) = Cardinality(Peers(k)) + 1
    BY <2>4, <2>5, FS_AddElement
  <2> QED BY <2>2, <2>4, <2>5, <2>6
<1>4. ASSUME NEW j \in Index, j < k, Mod(j) = Mod(k)
      PROVE  BlockOf(j) < BlockOf(k)
  <2>1. \A h \in Index : h < j => h < k
    BY <1>1, <1>4
  <2>2. Peers(j) \cup {j} \in SUBSET Peers(k) /\ j \notin Peers(j)
    <3>1. \A h : h \in Peers(j) <=> h \in Index /\ h < j /\ Mod(h) = Mod(j)
      BY PeersFacts
    <3>2. \A h : h \in Peers(k) <=> h \in Index /\ h < k /\ Mod(h) = Mod(k)
      BY PeersFacts
    <3>3. ~(j < j)
      BY <1>1
    <3> QED BY <1>4, <2>1, <3>1, <3>2, <3>3
  <2>3. IsFiniteSet(Peers(j)) /\ IsFiniteSet(Peers(k))
        /\ BlockOf(j) = Cardinality(Peers(j)) /\ BlockOf(k) = Cardinality(Peers(k))
        /\ BlockOf(j) \in Nat /\ BlockOf(k) \in Nat
    BY PeersFacts
  <2>4. Cardinality(Peers(j) \cup {j}) = Cardinality(Peers(j)) + 1
    BY <2>2, <2>3, FS_AddElement
  <2>5. Cardinality(Peers(j) \cup {j}) <= Cardinality(Peers(k))
    BY <2>2, <2>3, FS_Subset
  <2> QED BY <2>3, <2>4, <2>5
<1> QED BY <1>2, <1>3, <1>4

LEMMA BlockUnique ==
  ASSUME ScpsOK, NEW j \in Index, NEW k \in Index, Mod(j) = Mod(k), BlockOf(j) = BlockOf(k)
  PROVE  j = k
<1>1. j \in Nat /\ k \in Nat /\ BlockOf(j) \in Nat /\ BlockOf(k) \in Nat
  BY ScpsFacts, PeersFacts
<1>2. ~(j < k) /\ ~(k < j)
  BY <1>1, BlockSteps
<1> QED BY <1>1, <1>2

\* A module has as many blocks as scopes.
LEMMA BlocksOfModule ==
  ASSUME ScpsOK, NEW m \in Modules
  PROVE  /\ IsFiniteSet(ScopesOf(m)) /\ Cardinality(ScopesOf(m)) \in Nat
         /\ \A k \in Index : Mod(k) = m => BlockOf(k) < Cardinality(ScopesOf(m))
         /\ \A b \in Nat : b < Cardinality(ScopesOf(m)) =>
              \E k \in Index : Mod(k) = m /\ BlockOf(k) = b
<1> DEFINE I == {k \in Index : Mod(k) = m}
           N == Cardinality(ScopesOf(m))
           f == [k \in I |-> scps[k]]
           g == [k \in I |-> BlockOf(k)]
<1>1. ScopesOf(m) \in SUBSET Scopes
  BY DEF ScopesOf
<1>2. IsFiniteSet(ScopesOf(m)) /\ N \in Nat
  BY <1>1, FS_Subset, FS_CardinalityType, LayoutAssumption
<1>3. f \in [I -> ScopesOf(m)]
  BY ScpsFacts DEF ScopesOf, Mod
<1>4. \A j, k \in I : f[j] = f[k] => j = k
  BY ScpsFacts
<1>5. \A s \in ScopesOf(m) : \E k \in I : f[k] = s
  <2> SUFFICES ASSUME NEW s \in ScopesOf(m) PROVE \E k \in I : f[k] = s
    OBVIOUS
  <2>1. PICK k \in Index : scps[k] = s
    BY DEF ScpsOK, ScopesOf
  <2>2. k \in I
    BY <2>1 DEF ScopesOf, Mod
  <2> QED BY <2>1, <2>2
<1>6. IsFiniteSet(I) /\ Cardinality(I) = N
  <2> HIDE DEF I, f
  <2>1. f \in Injection(I, ScopesOf(m)) /\ f \in Surjection(I, ScopesOf(m))
    BY <1>3, <1>4, <1>5, Fun_IsInj, Fun_IsSurj
  <2> QED BY <1>2, <2>1, FS_Injection
<1>7. ASSUME NEW k \in Index, Mod(k) = m PROVE BlockOf(k) < N
  <2>1. Peers(k) \cup {k} \in SUBSET I
    BY <1>7, PeersFacts
  <2>2. k \notin Peers(k)
    BY ScpsFacts, PeersFacts
  <2>3. IsFiniteSet(Peers(k)) /\ BlockOf(k) = Cardinality(Peers(k)) /\ BlockOf(k) \in Nat
    BY PeersFacts
  <2> HIDE DEF I, N
  <2>4. Cardinality(Peers(k) \cup {k}) <= N
    BY <1>6, <2>1, FS_Subset
  <2>5. Cardinality(Peers(k) \cup {k}) = BlockOf(k) + 1
    BY <2>2, <2>3, FS_AddElement
  <2> QED BY <1>2, <2>3, <2>4, <2>5
<1>8. ASSUME NEW b \in Nat, b < N
      PROVE  \E k \in Index : Mod(k) = m /\ BlockOf(k) = b
  <2>1. IsFiniteSet(0 .. N - 1) /\ Cardinality(0 .. N - 1) = N
    <3> HIDE DEF N
    <3>1. 0 \in Int /\ N - 1 \in Int /\ N - 1 - 0 + 1 = N /\ ~(0 > N - 1)
      BY <1>2, <1>8
    <3> QED BY <3>1, FS_Interval
  <2>2. \A k \in I : g[k] \in 0 .. N - 1
    <3>1. \A k \in I : g[k] = BlockOf(k) /\ BlockOf(k) \in Nat /\ BlockOf(k) < N
      BY <1>7, PeersFacts
    <3> HIDE DEF I, g, N
    <3> QED BY <1>2, <3>1
  <2>3. \A j, k \in I : g[j] = g[k] => j = k
    BY BlockUnique
  <2>4. g \in [I -> 0 .. N - 1]
    BY <2>2
  <2>5. b \in 0 .. N - 1
    BY <1>2, <1>8
  <2>6. \E k \in I : g[k] = b
    <3> HIDE DEF I, g, N
    <3>1. g \in Injection(I, 0 .. N - 1)
      BY <2>3, <2>4, Fun_IsInj
    <3>2. g \in Surjection(I, 0 .. N - 1)
      BY <1>6, <2>1, <3>1, FS_Injection
    <3> QED BY <2>5, <3>2 DEF Surjection
  <2> QED BY <2>6
<1> QED BY <1>2, <1>7, <1>8

LEMMA TopBlock ==
  ASSUME ScpsOK, NEW k \in Index, Mod(k) = Top
  PROVE  BlockOf(k) = 0
<1>1. PICK s \in Scopes : ModuleOf[s] = Top /\ \A x \in Scopes : ModuleOf[x] = Top => x = s
  BY TopScope
<1>2. ScopesOf(Top) = {s} /\ Top \in Modules
  BY <1>1, LayoutAssumption DEF ScopesOf
<1>3. Cardinality(ScopesOf(Top)) = 1
  BY <1>2, FS_Singleton
<1>4. BlockOf(k) < 1
  BY <1>2, <1>3, BlocksOfModule
<1>5. BlockOf(k) \in Nat
  BY PeersFacts
<1> QED BY <1>4, <1>5

-----------------------------------------------------------------------------
(* Where the offsets lie: the k-th scope's variables are a block of its      *)
(* module, BlockOf(k) blocks after the module's own offsets.                *)

VarAt(k, j) == VarsOf[Mod(k)][j]
Visit(k, j) == k < n \/ (k = n /\ j < i)

\* m_memLocMap has the pairs visited so far and no others.
OnlyVisited ==
  \A p \in DOMAIN memLocMap :
    pc # "top" /\ \E k \in Index : \E j \in DOMAIN VarsOf[Mod(k)] :
                    Visit(k, j) /\ p = <<scps[k], VarAt(k, j)>>

Tiles ==
  pc # "top" =>
    \A k \in Index : \A j \in DOMAIN VarsOf[Mod(k)] :
      Visit(k, j) =>
        memLocMap[<<scps[k], VarAt(k, j)>>]
          = memLoc[VarAt(k, j)] + BlockOf(k) * Total(Mod(k), ArrayOf(VarAt(k, j)))

\* The counter, seen from the offset of the j-th variable of the module.
FillAt(j, a) ==
  count[a] + Prefix(Mod(n), j, a)
    = memLoc[VarAt(n, j)] + BlockOf(n) * Total(Mod(n), a) + Prefix(Mod(n), i, a)

Fill ==
  pc # "top" /\ n \in Index =>
    \A j \in DOMAIN VarsOf[Mod(n)] :
      j < i \/ ~FirstOfModule(n) => FillAt(j, ArrayOf(VarAt(n, j)))

PlaceInv ==
  /\ pc # "top" => ScpsOK
  /\ pc = "top" => scps = <<>>
  /\ n <= Cardinality(Scopes) + 1
  /\ Placed => n > Cardinality(Scopes)
  /\ OnlyVisited
  /\ Tiles
  /\ Fill

LEMMA VarAtFacts ==
  ASSUME ScpsOK, NEW k \in Index, NEW j \in DOMAIN VarsOf[Mod(k)]
  PROVE  /\ j \in Nat /\ 1 <= j /\ j <= Len(VarsOf[Mod(k)])
         /\ VarAt(k, j) \in Vars /\ VarAt(k, j) \in VarSet(Mod(k))
         /\ Size(VarAt(k, j)) \in Nat /\ ArrayOf(VarAt(k, j)) \in Arrays
         /\ \A l \in Index : \A h \in DOMAIN VarsOf[Mod(l)] :
              VarAt(l, h) = VarAt(k, j) => Mod(l) = Mod(k) /\ h = j
<1>1. \A l \in Index : Mod(l) \in Modules
  BY ScpsFacts
<1>2. VarAt(k, j) \in VarSet(Mod(k))
  BY DEF VarAt, VarSet
<1>3. VarAt(k, j) \in Vars
  BY <1>1, <1>2, KeysType
<1>4. j \in Nat /\ 1 <= j /\ j <= Len(VarsOf[Mod(k)])
  BY <1>1, KeysType
<1>5. \A l \in Index : \A h \in DOMAIN VarsOf[Mod(l)] :
        VarAt(l, h) = VarAt(k, j) => Mod(l) = Mod(k) /\ h = j
  BY <1>1, LayoutAssumption DEF VarAt
<1> QED BY <1>2, <1>3, <1>4, <1>5, SizeType

LEMMA PlaceInit == Init => PlaceInv
<1> SUFFICES ASSUME Init PROVE PlaceInv
  OBVIOUS
<1>1. Cardinality(Scopes) \in Nat
  BY FS_CardinalityType, LayoutAssumption
<1> QED BY <1>1 DEF Init, PlaceInv, OnlyVisited, Tiles, Fill, Placed

\* What cudaMemAssign has computed is not touched at run time.
LEMMA PlaceKept ==
  ASSUME PlaceInv, UNCHANGED layoutVars, pc # "top", pc' # "top",
         Placed' => n > Cardinality(Scopes)
  PROVE  PlaceInv'
<1>1. UNCHANGED <<scps, n, i, count, memLoc, memLocMap>>
  BY DEF layoutVars
<1>2. ScpsOK'
  BY <1>1 DEF PlaceInv, ScpsOK, Sorted
<1>3. \A k : Mod(k)' = Mod(k) /\ BlockOf(k)' = BlockOf(k)
  BY <1>1 DEF Mod, BlockOf
<1>4. \A k, j : VarAt(k, j)' = VarAt(k, j) /\ (Visit(k, j)' <=> Visit(k, j))
  BY <1>1, <1>3 DEF VarAt, Visit
<1>5. OnlyVisited'
  BY <1>1, <1>3, <1>4 DEF PlaceInv, OnlyVisited
<1>6. Tiles'
  BY <1>1, <1>3, <1>4 DEF PlaceInv, Tiles
<1>7. Fill'
  BY <1>1, <1>3, <1>4 DEF PlaceInv, Fill, FillAt, FirstOfModule
<1> QED BY <1>1, <1>2, <1>5, <1>6, <1>7 DEF PlaceInv

LEMMA TopVarPlaced == LayoutInv /\ PlaceInv /\ AssignTopVar => PlaceInv'
<1> SUFFICES ASSUME LayoutInv, PlaceInv, AssignTopVar PROVE PlaceInv'
  OBVIOUS
<1>1. pc = "top" /\ UNCHANGED <<pc, scps, n, memLocMap>>
  BY DEF AssignTopVar
<1>2. OnlyVisited'
  BY <1>1 DEF PlaceInv, OnlyVisited
<1> QED BY <1>1, <1>2 DEF PlaceInv, Tiles, Fill, Placed

LEMMA SortPlaced == LayoutInv /\ PlaceInv /\ SortScps => PlaceInv'
<1> SUFFICES ASSUME LayoutInv, PlaceInv, SortScps PROVE PlaceInv'
  OBVIOUS
<1>1. /\ pc = "top" /\ pc' = "scopes" /\ i' = 1 /\ n = 1
      /\ UNCHANGED <<n, count, memLoc, memLocMap>>
      /\ scps' \in [1 .. Cardinality(Scopes) -> Scopes]
      /\ \A s \in Scopes : \E k \in 1 .. Cardinality(Scopes) : scps'[k] = s
      /\ Sorted(scps')
  BY DEF SortScps, LayoutInv, Visited
<1>2. ScpsOK'
  <2>1. Sorted(scps)'
    BY <1>1 DEF Sorted
  <2> QED BY <1>1, <2>1 DEF ScpsOK, Index
<1>3. OnlyVisited'
  BY <1>1 DEF PlaceInv, OnlyVisited
<1>4. ASSUME NEW k \in Index, NEW j \in DOMAIN VarsOf[Mod(k)'] PROVE 1 <= k /\ 1 <= j
  <2>1. Cardinality(Scopes) \in Nat
    BY FS_CardinalityType, LayoutAssumption
  <2>2. Mod(k)' \in Modules
    BY <1>1, LayoutAssumption DEF Mod, Index
  <2> QED BY <2>1, <2>2, KeysType DEF Index
<1>5. Tiles'
  <2> SUFFICES ASSUME NEW k \in Index, NEW j \in DOMAIN VarsOf[Mod(k)'], Visit(k, j)'
               PROVE  FALSE
    BY DEF Tiles
  <2>1. k \in Nat /\ j \in Nat
    <3>1. Mod(k)' \in Modules
      BY <1>1, LayoutAssumption DEF Mod, Index
    <3> QED BY <3>1, KeysType DEF Index
  <2> QED BY <1>1, <1>4, <2>1 DEF Visit
<1>6. Fill'
  <2> SUFFICES ASSUME 1 \in Index, NEW j \in DOMAIN VarsOf[Mod(1)'], j < 1
               PROVE  FALSE
    BY <1>1 DEF Fill, FirstOfModule
  <2>1. Mod(1)' \in Modules
    BY <1>1, LayoutAssumption DEF Mod, Index
  <2> QED BY <2>1, KeysType
<1> QED BY <1>1, <1>2, <1>3, <1>5, <1>6 DEF PlaceInv, Placed

\* Where the iteration over the scopes stands.
LEMMA HereFacts ==
  ASSUME LayoutInv, PlaceInv, pc = "scopes", n <= Len(scps)
  PROVE  /\ ScpsOK /\ n \in Index /\ Mod(n) \in Modules /\ n \in Nat /\ i \in Nat /\ 1 <= i
         /\ Cardinality(Scopes) \in Nat /\ IsFiniteSet(VarSet(Mod(n)))
         /\ BlockOf(n) \in Nat
         /\ \A a \in Arrays : count[a] \in Nat
         /\ \A v \in Vars : memLoc[v] \in Nat
<1>1. ScpsOK
  BY DEF PlaceInv
<1>2. n \in Index /\ Cardinality(Scopes) \in Nat /\ i \in Nat /\ 1 <= i
  BY <1>1, ScpsFacts DEF LayoutInv, LayoutType, Index
<1>3. Mod(n) \in Modules /\ n \in Nat /\ BlockOf(n) \in Nat
  BY <1>1, <1>2, ScpsFacts, PeersFacts
<1>4. IsFiniteSet(VarSet(Mod(n)))
  BY <1>3, VarSetFinite
<1> QED BY <1>1, <1>2, <1>3, <1>4 DEF LayoutInv, LayoutType

LEMMA ScopeVarPlaced == LayoutInv /\ PlaceInv /\ AssignVar => PlaceInv'
<1> SUFFICES ASSUME LayoutInv, PlaceInv, AssignVar PROVE PlaceInv'
  OBVIOUS
<1> DEFINE v == VarAt(n, i)
           p == <<scps[n], v>>
<1>1. /\ pc = "scopes" /\ n <= Len(scps) /\ i <= Len(VarsOf[Mod(n)])
      /\ memLocMap' = [x \in DOMAIN memLocMap \cup {p} |->
                         IF x \in DOMAIN memLocMap THEN memLocMap[x] ELSE count[ArrayOf(v)]]
      /\ memLoc' = IF FirstOfModule(n) THEN [memLoc EXCEPT ![v] = count[ArrayOf(v)]]
                   ELSE memLoc
      /\ CountMem(v) /\ i' = i + 1 /\ UNCHANGED <<pc, scps, n>>
  BY DEF AssignVar, Mod, VarAt
<1>2. /\ ScpsOK /\ n \in Index /\ Mod(n) \in Modules /\ n \in Nat /\ i \in Nat /\ 1 <= i
      /\ BlockOf(n) \in Nat
      /\ \A a \in Arrays : count[a] \in Nat
      /\ \A u \in Vars : memLoc[u] \in Nat
  BY <1>1, HereFacts
<1>3. i \in DOMAIN VarsOf[Mod(n)]
  BY <1>1, <1>2, KeysType
<1>4. v \in Vars /\ Size(v) \in Nat /\ ArrayOf(v) \in Arrays
  BY <1>2, <1>3, VarAtFacts
<1>5. /\ \A k : Mod(k)' = Mod(k) /\ BlockOf(k)' = BlockOf(k)
                /\ (FirstOfModule(k)' <=> FirstOfModule(k))
      /\ \A k, j : VarAt(k, j)' = VarAt(k, j)
  BY <1>1 DEF Mod, BlockOf, FirstOfModule, VarAt
<1>6. \A k \in Index : \A j \in DOMAIN VarsOf[Mod(k)] :
        Visit(k, j)' <=> Visit(k, j) \/ (k = n /\ j = i)
  <2>1. \A k \in Index : \A j \in DOMAIN VarsOf[Mod(k)] : j \in Nat
    BY <1>2, VarAtFacts
  <2>2. \A j \in Nat : j < i + 1 <=> j < i \/ j = i
    BY <1>2
  <2> QED BY <1>1, <2>1, <2>2 DEF Visit
<1>7. ~Visit(n, i)
  BY <1>2 DEF Visit
<1>8. \A k \in Index : \A j \in DOMAIN VarsOf[Mod(k)] :
        /\ <<scps[k], VarAt(k, j)>> = p => k = n /\ j = i
        /\ VarAt(k, j) = v => Mod(k) = Mod(n) /\ j = i
  BY <1>2, <1>3, ScpsFacts, VarAtFacts
<1>9. p \notin DOMAIN memLocMap
  BY <1>7, <1>8 DEF PlaceInv, OnlyVisited
<1>10. memLocMap'[p] = count[ArrayOf(v)]
  BY <1>1, <1>9
<1>11. OnlyVisited'
  <2> SUFFICES ASSUME NEW x \in DOMAIN memLocMap'
               PROVE  \E k \in Index : \E j \in DOMAIN VarsOf[Mod(k)] :
                        Visit(k, j)' /\ x = <<scps[k], VarAt(k, j)>>
    BY <1>1, <1>5 DEF OnlyVisited
  <2>1. CASE x \in DOMAIN memLocMap
    BY <2>1, <1>6 DEF PlaceInv, OnlyVisited
  <2>2. CASE x = p
    BY <2>2, <1>2, <1>3, <1>6
  <2> QED BY <1>1, <2>1, <2>2
<1>12. memLoc'[v] + BlockOf(n) * Total(Mod(n), ArrayOf(v)) = count[ArrayOf(v)]
  <2> DEFINE T == Total(Mod(n), ArrayOf(v))
             P == Prefix(Mod(n), i, ArrayOf(v))
  <2>1. T \in Nat /\ P \in Nat
    BY <1>2, PrefixFacts
  <2>2. CASE FirstOfModule(n)
    <3>1. BlockOf(n) = 0
      BY <1>2, <2>2, BlockSteps
    <3>2. memLoc'[v] = count[ArrayOf(v)]
      BY <1>1, <1>4, <2>2 DEF LayoutInv, LayoutType
    <3> HIDE DEF T
    <3>3. 0 * T = 0
      BY <2>1
    <3> QED BY <1>2, <1>4, <3>1, <3>2, <3>3 DEF T
  <2>3. CASE ~FirstOfModule(n)
    <3>1. FillAt(i, ArrayOf(v))
      BY <1>1, <1>2, <1>3, <2>3 DEF PlaceInv, Fill
    <3>2. count[ArrayOf(v)] + P = memLoc[v] + BlockOf(n) * T + P
      BY <3>1 DEF FillAt
    <3>3. memLoc'[v] = memLoc[v]
      BY <1>1, <2>3
    <3> HIDE DEF T, P, v
    <3>4. memLoc[v] \in Nat /\ count[ArrayOf(v)] \in Nat /\ BlockOf(n) * T \in Nat
      BY <1>2, <1>4, <2>1
    <3>5. \A x, y, z, w \in Nat : x + w = y + z + w => y + z = x
      OBVIOUS
    <3> QED BY <2>1, <3>2, <3>3, <3>4, <3>5 DEF T
  <2> QED BY <2>2, <2>3
<1>13. Tiles'
  <2> SUFFICES ASSUME NEW k \in Index, NEW j \in DOMAIN VarsOf[Mod(k)], Visit(k, j)'
               PROVE  memLocMap'[<<scps[k], VarAt(k, j)>>]
                        = memLoc'[VarAt(k, j)]
                          + BlockOf(k) * Total(Mod(k), ArrayOf(VarAt(k, j)))
    BY <1>1, <1>5 DEF Tiles
  <2>1. CASE k = n /\ j = i
    BY <1>10, <1>12, <2>1
  <2>2. CASE Visit(k, j) /\ ~(k = n /\ j = i)
    <3>1. <<scps[k], VarAt(k, j)>> \in DOMAIN memLocMap
      <4>1. k \in 1 .. Cardinality(Scopes) /\ Mod(k) \in Modules
        BY <1>2, ScpsFacts DEF Index
      <4> QED BY <1>1, <2>2, <4>1 DEF LayoutInv, Visited, Visit, VarAt, Mod, VarSet
    <3>2. memLocMap'[<<scps[k], VarAt(k, j)>>] = memLocMap[<<scps[k], VarAt(k, j)>>]
      BY <1>1, <3>1
    <3>3. memLoc'[VarAt(k, j)] = memLoc[VarAt(k, j)]
      <4>1. CASE VarAt(k, j) = v /\ FirstOfModule(n)
        <5>1. Mod(k) = Mod(n) /\ j = i
          BY <1>8, <4>1
        <5>2. k < n
          BY <2>2, <5>1 DEF Visit
        <5> QED BY <1>2, <4>1, <5>1, <5>2, BlockSteps
      <4>2. CASE VarAt(k, j) # v \/ ~FirstOfModule(n)
        <5>1. VarAt(k, j) \in Vars
          BY <1>2, VarAtFacts
        <5> QED BY <1>1, <4>2, <5>1 DEF LayoutInv, LayoutType
      <4> QED BY <4>1, <4>2
    <3> QED BY <1>1, <2>2, <3>2, <3>3 DEF PlaceInv, Tiles
  <2> QED BY <1>6, <2>1, <2>2
<1>14. Fill'
  <2> SUFFICES ASSUME NEW j \in DOMAIN VarsOf[Mod(n)], j < i + 1 \/ ~FirstOfModule(n)
               PROVE  count'[ArrayOf(VarAt(n, j))] + Prefix(Mod(n), j, ArrayOf(VarAt(n, j)))
                        = memLoc'[VarAt(n, j)] + BlockOf(n) * Total(Mod(n), ArrayOf(VarAt(n, j)))
                          + Prefix(Mod(n), i + 1, ArrayOf(VarAt(n, j)))
    BY <1>1, <1>5 DEF Fill, FillAt
  <2> DEFINE u == VarAt(n, j)
             a == ArrayOf(u)
             d == IF ArrayOf(v) = a THEN Size(v) ELSE 0
             T == Total(Mod(n), a)
             P == Prefix(Mod(n), j, a)
             Q == Prefix(Mod(n), i, a)
  <2>1. u \in Vars /\ a \in Arrays /\ j \in Nat
    BY <1>2, VarAtFacts
  <2>2. d \in Nat /\ T \in Nat /\ P \in Nat /\ Q \in Nat
    BY <1>2, <1>4, PrefixFacts
  <2>3. Prefix(Mod(n), i + 1, a) = Q + d
    BY <1>2, <1>3, PrefixFacts DEF VarAt
  <2>4. count'[a] = count[a] + d
    BY <1>1, <1>2, <1>4, <2>1 DEF CountMem, LayoutInv, LayoutType
  <2>5. count[a] \in Nat /\ memLoc[u] \in Nat /\ BlockOf(n) * T \in Nat
    <3> HIDE DEF a, u, T
    <3> QED BY <1>2, <2>1, <2>2
  <2>6. CASE j = i
    <3>1. u = v
      BY <2>6
    <3>2. memLoc'[u] + BlockOf(n) * T = count[a] /\ P = Q
      BY <1>12, <2>6, <3>1
    <3> HIDE DEF a, u, T, P, Q, d
    <3> QED BY <2>2, <2>3, <2>4, <2>5, <3>2 DEF a, u, T, P
  <2>7. CASE j # i
    <3>1. j < i \/ ~FirstOfModule(n)
      BY <1>2, <2>1, <2>7
    <3>2. FillAt(j, a)
      BY <1>1, <1>2, <3>1 DEF PlaceInv, Fill
    <3>3. count[a] + P = memLoc[u] + BlockOf(n) * T + Q
      BY <3>2 DEF FillAt
    <3>4. u # v
      BY <1>2, <1>8, <2>7
    <3>5. memLoc'[u] = memLoc[u]
      BY <1>1, <2>1, <3>4 DEF LayoutInv, LayoutType
    <3> HIDE DEF a, u, T, P, Q, d
    <3>6. \A x, y, z, w, q, e \in Nat : x + w = y + z + q => (x + e) + w = y + z + (q + e)
      OBVIOUS
    <3> QED BY <2>2, <2>3, <2>4, <2>5, <3>3, <3>5, <3>6 DEF a, u, T, P
  <2> QED BY <2>6, <2>7
<1> QED BY <1>1, <1>2, <1>11, <1>13, <1>14 DEF PlaceInv, Placed, ScpsOK, Sorted

LEMMA NextScopePlaced == LayoutInv /\ PlaceInv /\ NextScope => PlaceInv'
<1> SUFFICES ASSUME LayoutInv, PlaceInv, NextScope PROVE PlaceInv'
  OBVIOUS
<1>1. /\ pc = "scopes" /\ n <= Len(scps) /\ i > Len(VarsOf[Mod(n)])
      /\ n' = n + 1 /\ i' = 1 /\ UNCHANGED <<pc, scps, count, memLoc, memLocMap>>
  BY DEF NextScope, Mod
<1>2. /\ ScpsOK /\ n \in Index /\ Mod(n) \in Modules /\ n \in Nat /\ i \in Nat /\ 1 <= i
      /\ BlockOf(n) \in Nat /\ Cardinality(Scopes) \in Nat
      /\ \A a \in Arrays : count[a] \in Nat
      /\ \A u \in Vars : memLoc[u] \in Nat
  BY <1>1, HereFacts
<1>3. /\ \A k : Mod(k)' = Mod(k) /\ BlockOf(k)' = BlockOf(k)
                /\ (FirstOfModule(k)' <=> FirstOfModule(k))
      /\ \A k, j : VarAt(k, j)' = VarAt(k, j)
  BY <1>1 DEF Mod, BlockOf, FirstOfModule, VarAt
<1>4. \A k \in Index : \A j \in DOMAIN VarsOf[Mod(k)] : Visit(k, j)' <=> Visit(k, j)
  <2> SUFFICES ASSUME NEW k \in Index, NEW j \in DOMAIN VarsOf[Mod(k)]
               PROVE  Visit(k, j)' <=> Visit(k, j)
    OBVIOUS
  <2>1. k \in Nat /\ j \in Nat /\ 1 <= j /\ j <= Len(VarsOf[Mod(k)])
    BY <1>2, ScpsFacts, VarAtFacts
  <2>2. k = n => j < i
    <3>1. k = n => j <= Len(VarsOf[Mod(n)]) /\ Len(VarsOf[Mod(n)]) \in Nat
      BY <1>2, <2>1, LayoutAssumption
    <3> QED BY <1>1, <1>2, <2>1, <3>1
  <2>3. k < n + 1 <=> k < n \/ k = n
    BY <1>2, <2>1
  <2> QED BY <1>1, <2>1, <2>2, <2>3 DEF Visit
<1>5. OnlyVisited'
  BY <1>1, <1>3, <1>4 DEF PlaceInv, OnlyVisited
<1>6. Tiles'
  BY <1>1, <1>3, <1>4 DEF PlaceInv, Tiles
<1>7. Fill'
  <2> SUFFICES ASSUME n + 1 \in Index, NEW j \in DOMAIN VarsOf[Mod(n + 1)],
                      j < 1 \/ ~FirstOfModule(n + 1)
               PROVE  count[ArrayOf(VarAt(n + 1, j))]
                        + Prefix(Mod(n + 1), j, ArrayOf(VarAt(n + 1, j)))
                      = memLoc[VarAt(n + 1, j)]
                        + BlockOf(n + 1) * Total(Mod(n + 1), ArrayOf(VarAt(n + 1, j)))
                        + Prefix(Mod(n + 1), 1, ArrayOf(VarAt(n + 1, j)))
    BY <1>1, <1>3 DEF Fill, FillAt
  <2>1. 1 <= j /\ j \in Nat
    BY <1>2, VarAtFacts
  <2>2. Mod(n + 1) = Mod(n) /\ BlockOf(n + 1) = BlockOf(n) + 1
    BY <1>2, <2>1, BlockSteps
  <2> DEFINE u == VarAt(n, j)
             a == ArrayOf(u)
             T == Total(Mod(n), a)
             P == Prefix(Mod(n), j, a)
  <2>3. VarAt(n + 1, j) = u
    BY <2>2 DEF VarAt
  <2>4. u \in Vars /\ a \in Arrays /\ j <= Len(VarsOf[Mod(n)])
    BY <1>2, <2>2, VarAtFacts
  <2>5. j < i
    <3>1. Len(VarsOf[Mod(n)]) \in Nat
      BY <1>2, LayoutAssumption
    <3> QED BY <1>1, <1>2, <2>1, <2>4, <3>1
  <2>6. FillAt(j, a)
    BY <1>1, <1>2, <2>2, <2>5 DEF PlaceInv, Fill
  <2>7. /\ T \in Nat /\ P \in Nat
        /\ Prefix(Mod(n), 1, a) = 0 /\ Prefix(Mod(n), i, a) = T
    BY <1>1, <1>2, PrefixFacts
  <2>8. count[a] + P = memLoc[u] + BlockOf(n) * T + T
    BY <2>6, <2>7 DEF FillAt
  <2>9. count[a] \in Nat /\ memLoc[u] \in Nat
    BY <1>2, <2>4
  <2>10. (BlockOf(n) + 1) * T = BlockOf(n) * T + T /\ BlockOf(n) * T \in Nat
    <3> HIDE DEF T
    <3> QED BY <1>2, <2>7
  <2>11. count[a] + P = memLoc[u] + (BlockOf(n) + 1) * T + 0
    <3> HIDE DEF a, u, T, P
    <3> QED BY <2>7, <2>8, <2>9, <2>10
  <2> QED BY <2>2, <2>3, <2>7, <2>11
<1>8. n + 1 <= Cardinality(Scopes) + 1
  BY <1>2 DEF Index
<1> QED BY <1>1, <1>2, <1>5, <1>6, <1>7, <1>8 DEF PlaceInv, Placed, ScpsOK, Sorted

LEMMA PlaceNext == LayoutInv /\ PlaceInv /\ [Next]_vars => PlaceInv'
<1> SUFFICES ASSUME LayoutInv, PlaceInv, [Next]_vars PROVE PlaceInv'
  OBVIOUS
<1>1. CASE AssignTopVar
  BY <1>1, TopVarPlaced
<1>2. CASE SortScps
  BY <1>2, SortPlaced
<1>3. CASE AssignVar
  BY <1>3, ScopeVarPlaced
<1>4. CASE NextScope
  BY <1>4, NextScopePlaced
<1>5. CASE Allocate
  <2>1. Len(scps) = Cardinality(Scopes)
    BY <1>5, ScpsFacts DEF Allocate, PlaceInv
  <2> QED BY <1>5, <2>1, PlaceKept DEF Allocate
<1>6. CASE \E s \in Scopes : Construct(s)
  BY <1>6, PlaceKept DEF Construct, Placed, PlaceInv
<1>7. CASE Simulate
  BY <1>7, PlaceKept DEF Simulate, Placed, PlaceInv
<1>8. ASSUME NEW a, NEW x, NEW d, Store(a, x, d) PROVE PlaceInv'
  BY <1>8, PlaceKept DEF Store, Placed, PlaceInv
<1>9. CASE UNCHANGED vars
  <2>1. UNCHANGED <<pc, scps, n, i, count, memLoc, memLocMap>>
    BY <1>9 DEF vars, layoutVars
  <2>2. CASE pc = "top"
    <3>1. OnlyVisited'
      BY <2>1, <2>2 DEF PlaceInv, OnlyVisited
    <3> QED BY <2>1, <2>2, <3>1 DEF PlaceInv, Tiles, Fill, Placed
  <2>3. CASE pc # "top"
    BY <2>1, <2>3, PlaceKept DEF layoutVars, Placed, PlaceInv
  <2> QED BY <2>2, <2>3
<1> QED BY <1>1, <1>2, <1>3, <1>4, <1>5, <1>6, <1>7, <1>8, <1>9
        DEF Next, Put, KernelStore

-----------------------------------------------------------------------------
(* Run time: the arrays, and the constructors that have run.                *)

Built(m) == {s \in constructed : ModuleOf[s] = m}

RunInv ==
  /\ DOMAIN cells = Arrays
  /\ Placed => \A a \in Arrays :
                 cells[a] \in [0 .. gpu_threads * count[a] - 1 -> Content]
  /\ constructed \subseteq Scopes
  /\ reset_cell_counter \in [Modules -> Nat]
  /\ \A m \in Modules : reset_cell_counter[m] = Cardinality(Built(m))
  /\ ~Placed => constructed = {}
  /\ pc = "simulate" => constructed = Scopes
  /\ stores \in 0 .. MaxStores

LEMMA RunInit == Init => RunInv
<1> SUFFICES ASSUME Init PROVE RunInv
  OBVIOUS
<1>1. \A m \in Modules : Built(m) = {}
  BY DEF Init, Built
<1>2. \A m \in Modules : reset_cell_counter[m] = Cardinality(Built(m))
  BY <1>1, FS_EmptySet DEF Init
<1>3. 0 \in 0 .. MaxStores
  BY LayoutAssumption
<1> QED BY <1>2, <1>3 DEF Init, RunInv, Placed

LEMMA BuiltFinite ==
  ASSUME RunInv, NEW m \in Modules
  PROVE  IsFiniteSet(Built(m)) /\ Built(m) \in SUBSET ScopesOf(m)
<1>1. Built(m) \in SUBSET Scopes /\ Built(m) \in SUBSET ScopesOf(m)
  BY DEF RunInv, Built, ScopesOf
<1> QED BY <1>1, FS_Subset, LayoutAssumption

\* The steps of the compiler leave the run time alone.
LEMMA RunKept ==
  ASSUME RunInv, UNCHANGED <<pc, count, cells, constructed, reset_cell_counter, stores>>
  PROVE  RunInv'
  BY DEF RunInv, Placed, Built

LEMMA ConstructRuns ==
  ASSUME RunInv, NEW s \in Scopes, Construct(s)
  PROVE  RunInv'
<1> DEFINE m == ModuleOf[s]
<1>1. m \in Modules
  BY LayoutAssumption
<1>2. /\ pc = "construct" /\ s \notin constructed
      /\ cells' = [a \in Arrays |-> AfterReset(m, a)]
      /\ reset_cell_counter' = [reset_cell_counter EXCEPT ![m] = @ + 1]
      /\ constructed' = constructed \cup {s}
      /\ UNCHANGED <<pc, count, stores>>
  BY DEF Construct, layoutVars
<1>3. ASSUME NEW a \in Arrays
      PROVE  cells'[a] \in [0 .. gpu_threads * count[a] - 1 -> Content]
  <2> DEFINE D == 0 .. gpu_threads * count[a] - 1
             V == VarSet(m) \ NoReset
             Hit(x) == \E v \in V : ArrayOf(v) = a /\ x \in ResetAddrs(v, m)
             Owner(x) == CHOOSE v \in V : ArrayOf(v) = a /\ x \in ResetAddrs(v, m)
  <2>1. cells[a] \in [D -> Content]
    BY <1>2 DEF RunInv, Placed
  <2>2. V \subseteq Vars
    BY <1>1, KeysType
  <2>3. \A x : Hit(x) => Owner(x) \in V
    <3> HIDE DEF V
    <3> QED OBVIOUS
  <2>4. AfterReset(m, a) = [x \in DOMAIN cells[a] |->
                               IF Hit(x) THEN Owner(x) ELSE cells[a][x]]
    BY DEF AfterReset
  <2>5. cells'[a] = AfterReset(m, a)
    BY <1>2
  <2> HIDE DEF D, Hit, Owner, V
  <2>6. \A x \in D : (IF Hit(x) THEN Owner(x) ELSE cells[a][x]) \in Content
    BY <2>1, <2>2, <2>3 DEF Content
  <2>7. AfterReset(m, a) \in [D -> Content]
    BY <2>1, <2>4, <2>6
  <2> QED BY <2>5, <2>7 DEF D
<1>4. \A k \in Modules : reset_cell_counter'[k] = Cardinality(Built(k)')
  <2> SUFFICES ASSUME NEW k \in Modules
               PROVE  reset_cell_counter'[k] = Cardinality(Built(k)')
    OBVIOUS
  <2>1. IsFiniteSet(Built(k)) /\ reset_cell_counter[k] = Cardinality(Built(k))
    BY BuiltFinite DEF RunInv
  <2>2. CASE k = m
    <3>1. Built(k)' = Built(k) \cup {s} /\ s \notin Built(k)
      BY <1>2, <2>2 DEF Built
    <3>2. Cardinality(Built(k) \cup {s}) = Cardinality(Built(k)) + 1
      BY <2>1, <3>1, FS_AddElement
    <3> QED BY <1>1, <1>2, <2>1, <2>2, <3>1, <3>2 DEF RunInv
  <2>3. CASE k # m
    <3>1. Built(k)' = Built(k)
      BY <1>2, <2>3 DEF Built
    <3> QED BY <1>1, <1>2, <2>1, <2>3, <3>1 DEF RunInv
  <2> QED BY <2>2, <2>3
<1>5. reset_cell_counter' \in [Modules -> Nat]
  BY <1>1, <1>2 DEF RunInv
<1> QED BY <1>2, <1>3, <1>4, <1>5 DEF RunInv, Placed

LEMMA StoreRuns ==
  ASSUME RunInv, NEW a, NEW x, NEW d \in Data, Store(a, x, d)
  PROVE  RunInv'
<1>1. /\ pc = "simulate" /\ stores < MaxStores /\ stores' = stores + 1
      /\ cells' = [cells EXCEPT ![a][x] = d]
      /\ UNCHANGED <<pc, count, constructed, reset_cell_counter>>
  BY DEF Store, layoutVars
<1>2. stores' \in 0 .. MaxStores
  BY <1>1, LayoutAssumption DEF RunInv
<1>3. ASSUME NEW b \in Arrays
      PROVE  cells'[b] \in [0 .. gpu_threads * count[b] - 1 -> Content]
  <2>1. cells[b] \in [0 .. gpu_threads * count[b] - 1 -> Content]
    BY <1>1 DEF RunInv, Placed
  <2>2. cells'[b] = IF b = a THEN [cells[b] EXCEPT ![x] = d] ELSE cells[b]
    BY <1>1 DEF RunInv
  <2>3. d \in Content
    BY DEF Content
  <2> QED BY <2>1, <2>2, <2>3
<1>4. \A m \in Modules : Built(m)' = Built(m)
  BY <1>1 DEF Built
<1> QED BY <1>1, <1>2, <1>3, <1>4 DEF RunInv, Placed

LEMMA RunNext == LayoutInv /\ RunInv /\ [Next]_vars => RunInv'
<1> SUFFICES ASSUME LayoutInv, RunInv, [Next]_vars PROVE RunInv'
  OBVIOUS
<1>1. CASE AssignTopVar \/ AssignVar
  <2>1. /\ ~Placed /\ UNCHANGED <<pc, cells, constructed, reset_cell_counter, stores>>
    BY <1>1 DEF AssignTopVar, AssignVar, Placed
  <2> QED BY <2>1 DEF RunInv, Placed, Built
<1>2. CASE SortScps
  <2>1. pc = "top" /\ pc' = "scopes" /\ UNCHANGED <<cells, constructed, reset_cell_counter, stores>>
    BY <1>2 DEF SortScps
  <2> QED BY <2>1 DEF RunInv, Placed, Built
<1>3. CASE NextScope
  BY <1>3, RunKept DEF NextScope
<1>4. CASE Allocate
  <2>1. /\ pc = "scopes" /\ pc' = "construct"
        /\ cells' = [a \in Arrays |-> [x \in 0 .. gpu_threads * count[a] - 1 |-> Raw]]
        /\ UNCHANGED <<count, constructed, reset_cell_counter, stores>>
    BY <1>4 DEF Allocate, layoutVars
  <2>2. \A a \in Arrays : cells'[a] \in [0 .. gpu_threads * count[a] - 1 -> Content]
    BY <2>1 DEF Content
  <2> QED BY <2>1, <2>2 DEF RunInv, Placed, Built
<1>5. CASE \E s \in Scopes : Construct(s)
  BY <1>5, ConstructRuns
<1>6. CASE Simulate
  <2>1. /\ pc = "construct" /\ pc' = "simulate" /\ constructed = Scopes
        /\ UNCHANGED <<count, cells, constructed, reset_cell_counter, stores>>
    BY <1>6 DEF Simulate, layoutVars
  <2> QED BY <2>1 DEF RunInv, Placed, Built
<1>7. ASSUME NEW a, NEW x, NEW d \in Data, Store(a, x, d) PROVE RunInv'
  BY <1>7, StoreRuns
<1>8. CASE UNCHANGED vars
  BY <1>8, RunKept DEF vars, layoutVars
<1> QED BY <1>1, <1>2, <1>3, <1>4, <1>5, <1>6, <1>7, <1>8
        DEF Next, Put, KernelStore

AllInv == LayoutInv /\ PlaceInv /\ RunInv

LEMMA AllInit == Init => AllInv
  BY LayoutInit, PlaceInit, RunInit DEF AllInv

LEMMA AllNext == AllInv /\ [Next]_vars => AllInv'
  BY LayoutNext, PlaceNext, RunNext DEF AllInv

LEMMA AllType == AllInv => TypeOK
<1> SUFFICES ASSUME AllInv PROVE TypeOK
  OBVIOUS
<1>1. Cardinality(Scopes) \in Nat
  BY FS_CardinalityType, LayoutAssumption
<1>2. n \in 1 .. Cardinality(Scopes) + 1
  BY <1>1 DEF AllInv, LayoutInv, LayoutType, PlaceInv
<1>3. DOMAIN memLocMap \subseteq Scopes \X Vars
  <2> SUFFICES ASSUME NEW p \in DOMAIN memLocMap PROVE p \in Scopes \X Vars
    OBVIOUS
  <2>1. ScpsOK
    BY DEF AllInv, PlaceInv, OnlyVisited
  <2>2. PICK k \in Index : \E j \in DOMAIN VarsOf[Mod(k)] : p = <<scps[k], VarAt(k, j)>>
    BY DEF AllInv, PlaceInv, OnlyVisited
  <2>3. PICK j \in DOMAIN VarsOf[Mod(k)] : p = <<scps[k], VarAt(k, j)>>
    BY <2>2
  <2>4. scps[k] \in Scopes /\ VarAt(k, j) \in Vars
    BY <2>1, ScpsFacts, VarAtFacts
  <2> QED BY <2>3, <2>4
<1>4. scps \in {<<>>} \cup [1 .. Cardinality(Scopes) -> Scopes]
  BY DEF AllInv, LayoutInv, LayoutType, PlaceInv
<1> QED BY <1>2, <1>3, <1>4 DEF AllInv, LayoutInv, LayoutType, RunInv, TypeOK

\* For every design and batch the state of the layout, of the arrays and of
\* the constructors has the types of TypeOK.
THEOREM TypeCorrect == Spec => []TypeOK
<1>1. Init => AllInv
  BY AllInit
<1>2. AllInv /\ [Next]_vars => AllInv'
  BY AllNext
<1>3. AllInv => TypeOK
  BY AllType
<1> QED BY <1>1, <1>2, <1>3, PTL DEF Spec

-----------------------------------------------------------------------------
(* Constructors, kernel threads and port accesses use the same cells.       *)

\* emitVarReset multiplies the stimulus by the words of one element: for an
\* unpacked array of wide elements that is not the size of the variable.
PlainArrays == \A v \in Vars \ NoReset : ~(IsWide(v) /\ IsArray(v))

\* The port table multiplies it by the words of one element for every array.
ScalarPorts == \A v \in Ports : ~IsArray(v)

LEMMA MakeSlot ==
  ASSUME NEW s \in Scopes, NEW v \in VarSet(ModuleOf[s]),
         NEW t \in Stimuli, NEW w \in 0 .. Size(v) - 1
  PROVE  <<s, v, t, w>> \in Slots
  BY DEF Slots, SlotsOf

LEMMA SlotInBounds ==
  ASSUME BatchFits, LayoutInv, NEW u \in Slots, Placed \/ Assigned(u[1], u[2])
  PROVE  /\ SlotAddr(u) \in Nat
         /\ SlotAddr(u) < gpu_threads * count[ArrayOf(u[2])]
         /\ SlotAddr(u) \in 0 .. gpu_threads * count[ArrayOf(u[2])] - 1
<1> DEFINE l == Loc(u[1], u[2])
           c == Size(u[2])
           top == count[ArrayOf(u[2])]
<1>1. /\ Assigned(u[1], u[2]) /\ l \in Nat /\ c \in Nat
      /\ THREADS * l <= SlotAddr(u)
      /\ SlotAddr(u) \in Int /\ SlotAddr(u) < THREADS * (l + c)
      /\ THREADS * l \in Nat /\ THREADS * (l + c) \in Nat
  BY SlotAddress
<1>2. l + c <= top /\ top \in Nat
  BY <1>1, SlotType, SizeType DEF LayoutInv, LayoutType, Below
<1>3. THREADS \in Nat /\ gpu_threads = THREADS
  BY LayoutAssumption DEF BatchFits
<1> HIDE DEF l, c, top
<1>4. THREADS * (l + c) <= THREADS * top /\ THREADS * top \in Nat
  BY <1>1, <1>2, <1>3, TimesMonotone
<1>5. SlotAddr(u) \in Nat /\ SlotAddr(u) < THREADS * top
  BY <1>1, <1>4
<1> QED BY <1>3, <1>4, <1>5 DEF top

LEMMA PortAt ==
  ASSUME BatchFits, ScalarPorts, LayoutInv, Placed,
         NEW s \in Scopes, ModuleOf[s] = Top, NEW v \in Ports,
         NEW t \in Stimuli, NEW w \in 0 .. Size(v) - 1
  PROVE  /\ <<s, v, t, w>> \in Slots
         /\ PortAddr(v, t, w) = KernelAddr(s, v, t, w)
         /\ PortAddr(v, t, w) = SlotAddr(<<s, v, t, w>>)
<1>1. v \in VarSet(ModuleOf[s]) /\ v \in Vars
  BY KeysType, LayoutAssumption
<1>2. <<s, v, t, w>> \in Slots
  BY <1>1, MakeSlot
<1>3. SlotAddr(<<s, v, t, w>>) = KernelAddr(s, v, t, w)
  BY DEF SlotAddr
<1>4. SlotAddr(<<s, v, t, w>>) = t * Size(v) + THREADS * Loc(s, v) + w
  BY <1>2, SlotAddress
<1>5. Loc(s, v) = memLoc[v]
  BY DEF Loc
<1>6. PortSize(v) = Size(v)
  <2>1. (IF IsWide(v) THEN WidthWords(v) ELSE 1) \in Nat
    BY <1>1, LayoutAssumption DEF IsWide, WidthWords
  <2>2. \A x \in Nat : 1 * x = x
    OBVIOUS
  <2> QED BY <2>1, <2>2 DEF ScalarPorts, PortSize, Size
<1> QED BY <1>2, <1>3, <1>4, <1>5, <1>6 DEF PortAddr

\* The scope whose variables the next constructor of a module initialises.
LEMMA NextBlock ==
  ASSUME AllInv, Placed, NEW s \in Scopes, s \notin constructed
  PROVE  \E k \in Index : Mod(k) = ModuleOf[s] /\ BlockOf(k) = reset_cell_counter[ModuleOf[s]]
<1> DEFINE m == ModuleOf[s]
<1>1. ScpsOK /\ m \in Modules
  BY LayoutAssumption DEF AllInv, PlaceInv, Placed
<1>2. s \in ScopesOf(m) /\ s \notin Built(m)
  BY DEF ScopesOf, Built
<1>3. Built(m) \in SUBSET ScopesOf(m) /\ reset_cell_counter[m] = Cardinality(Built(m))
      /\ reset_cell_counter[m] \in Nat
  BY <1>1, BuiltFinite DEF AllInv, RunInv
<1>4. IsFiniteSet(ScopesOf(m)) /\ Cardinality(ScopesOf(m)) \in Nat
  BY <1>1, BlocksOfModule
<1> HIDE DEF m
<1>5. reset_cell_counter[m] < Cardinality(ScopesOf(m))
  BY <1>2, <1>3, <1>4, FS_Subset
<1>6. \E k \in Index : Mod(k) = m /\ BlockOf(k) = reset_cell_counter[m]
  BY <1>1, <1>3, <1>5, BlocksOfModule
<1> QED BY <1>6 DEF m

\* The offsets of a scope are those of its module, moved by whole blocks.
LEMMA BlockBase ==
  ASSUME AllInv, Placed, NEW k \in Index, NEW v \in VarSet(Mod(k)),
         reset_cell_counter[Mod(k)] = BlockOf(k)
  PROVE  /\ Loc(scps[k], v) \in Nat
         /\ ResetBase(v, Mod(k)) = THREADS * Loc(scps[k], v)
<1> DEFINE b == BlockOf(k)
           l == memLoc[v]
           size == ModSize(Mod(k), ArrayOf(v))
<1>1. ScpsOK
  BY DEF AllInv, PlaceInv, Placed
<1>2. Mod(k) \in Modules /\ k \in Nat /\ b \in Nat /\ k <= Cardinality(Scopes)
      /\ Cardinality(Scopes) \in Nat
  BY <1>1, ScpsFacts, PeersFacts DEF Index
<1>3. v \in Vars /\ ArrayOf(v) \in Arrays
  BY <1>2, KeysType, SizeType
<1>4. l \in Nat /\ size \in Nat /\ THREADS \in Nat
  <2>1. Cardinality(WordsIn(VarSet(Mod(k)), ArrayOf(v))) \in Nat
    BY <1>2, PrefixFacts DEF Total
  <2> QED BY <1>3, <2>1, LayoutAssumption DEF ModSize, AllInv, LayoutInv, LayoutType
<1>5. Loc(scps[k], v) = l + b * size
  <2>1. CASE Mod(k) = Top
    <3>1. b = 0
      BY <1>1, <2>1, TopBlock
    <3>2. Loc(scps[k], v) = l
      BY <2>1 DEF Loc, Mod
    <3> HIDE DEF b, l, size
    <3>3. l + 0 * size = l
      BY <1>4
    <3> QED BY <3>1, <3>2, <3>3
  <2>2. CASE Mod(k) # Top
    <3>1. PICK j \in DOMAIN VarsOf[Mod(k)] : v = VarAt(k, j)
      BY DEF VarSet, VarAt
    <3>2. Visit(k, j)
      <4>1. n > Cardinality(Scopes) /\ n \in Nat
        BY DEF AllInv, PlaceInv, LayoutInv, LayoutType
      <4> QED BY <1>2, <4>1 DEF Visit
    <3>3. memLocMap[<<scps[k], v>>] = l + b * Total(Mod(k), ArrayOf(v))
      BY <3>1, <3>2 DEF AllInv, PlaceInv, Tiles, Placed
    <3>4. Total(Mod(k), ArrayOf(v)) = size
      BY <2>2 DEF Total, ModSize
    <3>5. Loc(scps[k], v) = memLocMap[<<scps[k], v>>]
      BY <2>2 DEF Loc, Mod
    <3> QED BY <3>3, <3>4, <3>5
  <2> QED BY <2>1, <2>2
<1>6. ResetBase(v, Mod(k)) = b * THREADS * size + l * THREADS
  BY DEF ResetBase
<1> HIDE DEF b, l, size
<1>7. \A w, x, y, z \in Nat : w * x * y + z * x = x * (z + w * y) /\ z + w * y \in Nat
  OBVIOUS
<1> QED BY <1>2, <1>4, <1>5, <1>6, <1>7

\* The constructor that finds the counter at the scope's block initialises
\* just the cells in which kernel threads find the scope's variables.
LEMMA ResetAt ==
  ASSUME BatchFits, PlainArrays, AllInv, Placed,
         NEW k \in Index, NEW v \in VarSet(Mod(k)), v \notin NoReset,
         reset_cell_counter[Mod(k)] = BlockOf(k)
  PROVE  \A x : x \in ResetAddrs(v, Mod(k)) <=>
                  \E t \in Stimuli, w \in 0 .. Size(v) - 1 : x = SlotAddr(<<scps[k], v, t, w>>)
<1> DEFINE base == ResetBase(v, Mod(k))
           l == Loc(scps[k], v)
<1>1. ScpsOK
  BY DEF AllInv, PlaceInv, Placed
<1>2. Mod(k) \in Modules /\ scps[k] \in Scopes /\ Mod(k) = ModuleOf[scps[k]]
  BY <1>1, ScpsFacts DEF Mod
<1>3. v \in Vars /\ Size(v) \in Nat
  BY <1>2, KeysType, SizeType
<1>4. l \in Nat /\ base = THREADS * l /\ THREADS \in Nat
  BY BlockBase, LayoutAssumption
<1>5. ResetStride(v) = Size(v)
  <2>1. WidthWords(v) \in Nat /\ Elements[v] \in Nat
    BY <1>3, LayoutAssumption DEF WidthWords
  <2>2. \A x \in Nat : 1 * x = x /\ x * 1 = x
    OBVIOUS
  <2> QED BY <1>3, <2>1, <2>2 DEF PlainArrays, ResetStride, Size
<1>6. Stimuli = 0 .. THREADS - 1
  BY DEF Stimuli, BatchFits
<1>7. ASSUME NEW t \in Stimuli, NEW w \in 0 .. Size(v) - 1
      PROVE  base + t * ResetStride(v) + w = SlotAddr(<<scps[k], v, t, w>>)
  <2>1. <<scps[k], v, t, w>> \in Slots
    BY <1>2, MakeSlot
  <2>2. SlotAddr(<<scps[k], v, t, w>>) = t * Size(v) + THREADS * l + w
    BY <2>1, SlotAddress DEF AllInv
  <2>3. t \in Nat /\ w \in Nat
    BY <1>3, <1>4, <1>6
  <2> HIDE DEF base, l
  <2>4. THREADS * l \in Nat /\ t * Size(v) \in Nat
    BY <1>3, <1>4, <2>3
  <2>5. \A x, y, z \in Nat : x + y + z = y + x + z
    OBVIOUS
  <2> QED BY <1>4, <1>5, <2>2, <2>3, <2>4, <2>5
<1> DEFINE addr(t, w) == base + t * ResetStride(v) + w
           slot(t, w) == SlotAddr(<<scps[k], v, t, w>>)
<1>8. \A x : x \in ResetAddrs(v, Mod(k)) <=>
              \E t \in Stimuli, w \in 0 .. Size(v) - 1 : x = addr(t, w)
  BY <1>6 DEF ResetAddrs
<1>9. \A t \in Stimuli, w \in 0 .. Size(v) - 1 : addr(t, w) = slot(t, w)
  BY <1>7
<1> HIDE DEF addr, slot
<1>10. \A x : x \in ResetAddrs(v, Mod(k)) <=>
               \E t \in Stimuli, w \in 0 .. Size(v) - 1 : x = slot(t, w)
  BY <1>8, <1>9
<1> QED BY <1>10 DEF slot

LEMMA AllInBounds ==
  ASSUME BatchFits, PlainArrays, ScalarPorts, AllInv
  PROVE  InBounds
<1> SUFFICES ASSUME Placed
             PROVE  /\ \A x \in Slots : SlotAddr(x) < gpu_threads * count[ArrayOf(x[2])]
                    /\ \A v \in Ports, t \in Stimuli : \A w \in 0 .. Size(v) - 1 :
                         PortAddr(v, t, w) < gpu_threads * count[ArrayOf(v)]
                    /\ \A m \in Modules : \A v \in VarSet(m) \ NoReset :
                         (\E s \in Scopes \ constructed : ModuleOf[s] = m) =>
                            \A x \in ResetAddrs(v, m) : x < gpu_threads * count[ArrayOf(v)]
  BY DEF InBounds
<1> USE DEF AllInv
<1>1. \A x \in Slots : SlotAddr(x) < gpu_threads * count[ArrayOf(x[2])]
  BY SlotInBounds
<1>2. ASSUME NEW v \in Ports, NEW t \in Stimuli, NEW w \in 0 .. Size(v) - 1
      PROVE  PortAddr(v, t, w) < gpu_threads * count[ArrayOf(v)]
  <2>1. PICK s \in Scopes : ModuleOf[s] = Top
    BY TopScope
  <2>2. <<s, v, t, w>> \in Slots /\ PortAddr(v, t, w) = SlotAddr(<<s, v, t, w>>)
    BY <2>1, PortAt
  <2> QED BY <1>1, <2>2
<1>3. ASSUME NEW m \in Modules, NEW v \in VarSet(m) \ NoReset,
             NEW s \in Scopes \ constructed, ModuleOf[s] = m, NEW x \in ResetAddrs(v, m)
      PROVE  x < gpu_threads * count[ArrayOf(v)]
  <2>1. PICK k \in Index : Mod(k) = m /\ BlockOf(k) = reset_cell_counter[m]
    BY <1>3, NextBlock
  <2>2. PICK t \in Stimuli, w \in 0 .. Size(v) - 1 : x = SlotAddr(<<scps[k], v, t, w>>)
    BY <2>1, ResetAt
  <2>3. scps[k] \in Scopes /\ ModuleOf[scps[k]] = m
    BY <2>1, ScpsFacts DEF PlaceInv, Placed, Mod
  <2>4. <<scps[k], v, t, w>> \in Slots
    BY <2>3, MakeSlot
  <2> QED BY <1>1, <2>2, <2>4
<1> QED BY <1>1, <1>2, <1>3

\* With plain arrays and scalar ports no constructor, kernel thread or port
\* access of any design reaches outside the arrays RTLflow allocates.
THEOREM AccessesInBounds ==
  BatchFits /\ PlainArrays /\ ScalarPorts => (Spec => []InBounds)
<1> SUFFICES ASSUME BatchFits, PlainArrays, ScalarPorts PROVE Spec => []InBounds
  OBVIOUS
<1>1. Init => AllInv
  BY AllInit
<1>2. AllInv /\ [Next]_vars => AllInv'
  BY AllNext
<1>3. AllInv => InBounds
  BY AllInBounds
<1> QED BY <1>1, <1>2, <1>3, PTL DEF Spec

\* The application finds every scalar port of every stimulus where the
\* kernel threads have it.
THEOREM PortsFound == BatchFits /\ ScalarPorts => (Spec => []PortsAgree)
<1> SUFFICES ASSUME BatchFits, ScalarPorts PROVE Spec => []PortsAgree
  OBVIOUS
<1>1. Init => LayoutInv
  BY LayoutInit
<1>2. LayoutInv /\ [Next]_vars => LayoutInv'
  BY LayoutNext
<1>3. LayoutInv => PortsAgree
  <2> SUFFICES ASSUME LayoutInv, Placed, NEW s \in Scopes, NEW v \in Ports, NEW t \in Stimuli,
                      ModuleOf[s] = Top, NEW w \in 0 .. Size(v) - 1
               PROVE  PortAddr(v, t, w) = KernelAddr(s, v, t, w)
    BY DEF PortsAgree
  <2> QED BY PortAt
<1> QED BY <1>1, <1>2, <1>3, PTL DEF Spec

-----------------------------------------------------------------------------
(* The layout implements the store of slots.                                *)

LayoutFits == BatchFits /\ PlainArrays /\ ScalarPorts

\* The numbers of the scopes that have been initialised.
Done(k) == Placed /\ BlockOf(k) < reset_cell_counter[Mod(k)]

LEMMA InitialisedAre ==
  ASSUME AllInv
  PROVE  \A s : s \in Initialised <=> \E k \in Index : Done(k) /\ s = scps[k]
<1>1. Placed => DOMAIN scps = Index
  BY ScpsFacts DEF AllInv, PlaceInv, Placed
<1>2. \A s : s \in Initialised <=> \E k \in DOMAIN scps : Done(k) /\ s = scps[k]
  BY DEF Initialised, Done, Mod
<1> QED BY <1>1, <1>2 DEF Done

LEMMA SlotScope ==
  ASSUME NEW x \in Slots
  PROVE  /\ x[1] \in Scopes /\ x[2] \in VarSet(ModuleOf[x[1]])
         /\ x[3] \in Stimuli /\ x[4] \in 0 .. Size(x[2]) - 1
         /\ x = <<x[1], x[2], x[3], x[4]>>
<1>1. PICK s \in Scopes : \E v \in VarSet(ModuleOf[s]) : x \in SlotsOf(s, v)
    BY DEF Slots
<1>2. PICK v \in VarSet(ModuleOf[s]) : x \in SlotsOf(s, v)
    BY <1>1
<1>3. PICK t \in Stimuli : \E w \in 0 .. Size(v) - 1 : x = <<s, v, t, w>>
    BY <1>2 DEF SlotsOf
<1>4. PICK w \in 0 .. Size(v) - 1 : x = <<s, v, t, w>>
    BY <1>3
<1> QED BY <1>2, <1>4

LEMMA AbstractInit == Init => Abstract!Init
<1> SUFFICES ASSUME Init PROVE Abstract!Init
  OBVIOUS
<1>1. pc = "top" /\ ~Placed
  BY DEF Init, Placed
<1>2. Ready = FALSE /\ Initialised = {}
  BY <1>1 DEF Ready, Initialised
<1>3. SlotContent = [x \in Slots |-> Raw]
  BY <1>1 DEF SlotContent
<1> QED BY <1>2, <1>3 DEF Abstract!Init

\* Nothing the compiler does is visible.
LEMMA CompilerStutters ==
  ASSUME pc \in {"top", "scopes"}, pc' \in {"top", "scopes"}
  PROVE  UNCHANGED <<Ready, Initialised, SlotContent>>
<1>1. ~Placed /\ ~Placed'
  BY DEF Placed
<1>2. Ready = FALSE /\ Ready' = FALSE
  BY DEF Ready
<1>3. Initialised = {} /\ Initialised' = {}
  BY <1>1 DEF Initialised
<1>4. SlotContent = [x \in Slots |-> Raw] /\ SlotContent' = [x \in Slots |-> Raw]
  BY <1>1 DEF SlotContent
<1> QED BY <1>2, <1>3, <1>4

LEMMA SameLayout ==
  ASSUME UNCHANGED layoutVars
  PROVE  /\ \A x : SlotAddr(x)' = SlotAddr(x)
         /\ \A k : Mod(k)' = Mod(k) /\ BlockOf(k)' = BlockOf(k)
         /\ scps' = scps
<1>1. UNCHANGED <<scps, n, i, count, memLoc, memLocMap>>
  BY DEF layoutVars
<1>2. \A s, v : Loc(s, v)' = Loc(s, v)
  BY <1>1 DEF Loc
<1> QED BY <1>1, <1>2 DEF SlotAddr, KernelAddr, Mod, BlockOf

LEMMA AllocateStutters ==
  ASSUME BatchFits, AllInv, AllInv', Allocate
  PROVE  UNCHANGED <<Ready, Initialised, SlotContent>>
<1>1. /\ pc = "scopes" /\ pc' = "construct" /\ Placed' /\ ~Placed
      /\ cells' = [a \in Arrays |-> [x \in 0 .. gpu_threads * count[a] - 1 |-> Raw]]
      /\ UNCHANGED layoutVars /\ UNCHANGED <<constructed, reset_cell_counter>>
  BY DEF Allocate, Placed
<1>2. count' = count /\ scps' = scps
  BY <1>1 DEF layoutVars
<1>3. ScpsOK /\ Len(scps) = Cardinality(Scopes)
  BY <1>1, ScpsFacts DEF AllInv, PlaceInv
<1>4. \A x \in Slots : SlotAddr(x)' \in 0 .. gpu_threads * count[ArrayOf(x[2])] - 1
  <2> SUFFICES ASSUME NEW x \in Slots
               PROVE  SlotAddr(x)' \in 0 .. gpu_threads * count[ArrayOf(x[2])] - 1
    OBVIOUS
  <2>1. Assigned(x[1], x[2])'
    BY <1>1, SlotType DEF AllInv, LayoutInv, Complete
  <2>2. Assigned(x[1], x[2])
    BY <1>1, <2>1 DEF Assigned, layoutVars
  <2>3. SlotAddr(x)' = SlotAddr(x)
    BY <1>1, SameLayout
  <2> QED BY <2>2, <2>3, SlotInBounds DEF AllInv
<1>5. \A x \in Slots : ArrayOf(x[2]) \in Arrays
  BY SlotType, SizeType
<1>6. SlotContent' = [x \in Slots |-> Raw]
  BY <1>1, <1>4, <1>5 DEF SlotContent
<1>7. SlotContent = [x \in Slots |-> Raw]
  BY <1>1 DEF SlotContent
<1>8. \A m \in Modules : reset_cell_counter[m] = 0
  <2> SUFFICES ASSUME NEW m \in Modules PROVE reset_cell_counter[m] = 0
    OBVIOUS
  <2>1. Built(m) = {}
    BY <1>1 DEF AllInv, RunInv, Built
  <2> QED BY <2>1, FS_EmptySet DEF AllInv, RunInv
<1>9. Initialised = {}
  BY <1>1 DEF Initialised
<1>10. Initialised' = {}
  <2>1. \A k \in DOMAIN scps : ~(BlockOf(k)' < reset_cell_counter[ModuleOf[scps[k]]])
    <3> SUFFICES ASSUME NEW k \in DOMAIN scps
                 PROVE  ~(BlockOf(k)' < reset_cell_counter[ModuleOf[scps[k]]])
      OBVIOUS
    <3>1. k \in Index /\ Mod(k) \in Modules
      BY <1>3, ScpsFacts
    <3>2. BlockOf(k) \in Nat /\ BlockOf(k)' = BlockOf(k)
      BY <1>1, <1>3, <3>1, PeersFacts, SameLayout
    <3> QED BY <1>8, <3>1, <3>2 DEF Mod
  <2> QED BY <1>1, <1>2, <2>1 DEF Initialised
<1> QED BY <1>1, <1>6, <1>7, <1>9, <1>10 DEF Ready

\* Two slots of one array never share a cell.
LEMMA SlotsApart ==
  ASSUME BatchFits, LayoutInv, Placed, NEW x \in Slots, NEW y \in Slots,
         ArrayOf(x[2]) = ArrayOf(y[2]), SlotAddr(x) = SlotAddr(y)
  PROVE  x = y
  BY AddressesApart DEF Disjoint

\* What the constructor leaves in the cells of the k-th scope and of others.
LEMMA ConstructedSlot ==
  ASSUME LayoutFits, AllInv, Placed, NEW k \in Index,
         reset_cell_counter[Mod(k)] = BlockOf(k), NEW x \in Slots
  PROVE  AfterReset(Mod(k), ArrayOf(x[2]))[SlotAddr(x)]
           = IF x[1] = scps[k] /\ x[2] \notin NoReset THEN x[2]
             ELSE cells[ArrayOf(x[2])][SlotAddr(x)]
<1> DEFINE a == ArrayOf(x[2])
           m == Mod(k)
           V == VarSet(m) \ NoReset
           Hit(v) == ArrayOf(v) = a /\ SlotAddr(x) \in ResetAddrs(v, m)
<1>1. BatchFits /\ PlainArrays /\ LayoutInv /\ ScpsOK
  BY DEF LayoutFits, AllInv, PlaceInv, Placed
<1>2. scps[k] \in Scopes /\ m = ModuleOf[scps[k]]
  BY <1>1, ScpsFacts DEF Mod
<1>3. a \in Arrays /\ x[2] \in Vars
  BY <1>1, SlotType, SizeType
<1>4. SlotAddr(x) \in DOMAIN cells[a]
  <2>1. cells[a] \in [0 .. gpu_threads * count[a] - 1 -> Content]
    BY <1>3 DEF AllInv, RunInv
  <2>2. SlotAddr(x) \in 0 .. gpu_threads * count[a] - 1
    BY <1>1, SlotInBounds
  <2> QED BY <2>1, <2>2
<1>5. AfterReset(m, a)[SlotAddr(x)] =
        IF \E v \in V : Hit(v) THEN CHOOSE v \in V : Hit(v) ELSE cells[a][SlotAddr(x)]
  BY <1>4 DEF AfterReset
<1>6. ASSUME NEW v \in V, Hit(v)
      PROVE  x[1] = scps[k] /\ x[2] = v /\ x[2] \notin NoReset
  <2>1. PICK t \in Stimuli, w \in 0 .. Size(v) - 1 : SlotAddr(x) = SlotAddr(<<scps[k], v, t, w>>)
    BY <1>1, <1>6, ResetAt
  <2>2. <<scps[k], v, t, w>> \in Slots
    BY <1>2, MakeSlot
  <2>3. x = <<scps[k], v, t, w>>
    BY <1>1, <1>6, <2>1, <2>2, SlotsApart
  <2> QED BY <2>3
<1>7. ASSUME x[1] = scps[k], x[2] \notin NoReset
      PROVE  x[2] \in V /\ Hit(x[2])
  <2>1. /\ x[2] \in VarSet(m) /\ x[3] \in Stimuli /\ x[4] \in 0 .. Size(x[2]) - 1
        /\ x = <<scps[k], x[2], x[3], x[4]>>
    BY <1>2, <1>7, SlotScope
  <2>2. \E t \in Stimuli, w \in 0 .. Size(x[2]) - 1 :
          SlotAddr(x) = SlotAddr(<<scps[k], x[2], t, w>>)
    BY <2>1
  <2> QED BY <1>1, <1>7, <2>1, <2>2, ResetAt
<1> HIDE DEF V, Hit
<1>8. CASE x[1] = scps[k] /\ x[2] \notin NoReset
  <2>1. (CHOOSE v \in V : Hit(v)) = x[2]
    BY <1>6, <1>7, <1>8
  <2> QED BY <1>5, <1>7, <1>8, <2>1
<1>9. CASE ~(x[1] = scps[k] /\ x[2] \notin NoReset)
  BY <1>5, <1>6, <1>9
<1> QED BY <1>8, <1>9

\* Constructing an instance initialises a scope that was not initialised yet.
LEMMA ConstructInitialises ==
  ASSUME LayoutFits, AllInv, AllInv', NEW s \in Scopes, Construct(s)
  PROVE  \E r \in Scopes : Abstract!Initialise(r)
<1>1. /\ pc = "construct" /\ Placed /\ Placed' /\ s \notin constructed
      /\ cells' = [a \in Arrays |-> AfterReset(ModuleOf[s], a)]
      /\ reset_cell_counter' = [reset_cell_counter EXCEPT ![ModuleOf[s]] = @ + 1]
      /\ UNCHANGED layoutVars /\ UNCHANGED pc
  BY DEF Construct, Placed
<1>2. ModuleOf[s] \in Modules /\ ScpsOK
  BY <1>1, LayoutAssumption DEF AllInv, PlaceInv
<1>3. PICK k \in Index : Mod(k) = ModuleOf[s] /\ BlockOf(k) = reset_cell_counter[ModuleOf[s]]
  BY <1>1, NextBlock
<1> DEFINE r == scps[k]
<1>4. r \in Scopes /\ \A j \in Index : scps[j] = r => j = k
  BY <1>2, ScpsFacts
<1>5. \A j \in Index : BlockOf(j) \in Nat /\ Mod(j) \in Modules
  BY <1>2, ScpsFacts, PeersFacts
<1>6. r \notin Initialised
  <2> SUFFICES ASSUME r \in Initialised PROVE FALSE
    OBVIOUS
  <2>1. PICK j \in Index : Done(j) /\ r = scps[j]
    BY InitialisedAre
  <2> QED BY <1>3, <1>4, <1>5, <2>1 DEF Done
<1>7. \A j \in Index : Done(j)' <=> Done(j) \/ j = k
  <2> SUFFICES ASSUME NEW j \in Index PROVE Done(j)' <=> Done(j) \/ j = k
    OBVIOUS
  <2>1. Done(j)' <=> BlockOf(j) < reset_cell_counter'[Mod(j)]
    BY <1>1, SameLayout DEF Done
  <2>2. \A m \in Modules : reset_cell_counter[m] \in Nat
    BY DEF AllInv, RunInv
  <2>3. CASE Mod(j) = Mod(k)
    <3>1. reset_cell_counter'[Mod(j)] = BlockOf(k) + 1
      BY <1>1, <1>2, <1>3, <2>3 DEF AllInv, RunInv
    <3>2. BlockOf(j) < BlockOf(k) + 1 <=> BlockOf(j) < BlockOf(k) \/ BlockOf(j) = BlockOf(k)
      BY <1>5
    <3>3. BlockOf(j) = BlockOf(k) <=> j = k
      BY <1>2, <2>3, BlockUnique
    <3> QED BY <1>1, <1>3, <2>1, <2>3, <3>1, <3>2, <3>3 DEF Done
  <2>4. CASE Mod(j) # Mod(k)
    <3>1. reset_cell_counter'[Mod(j)] = reset_cell_counter[Mod(j)]
      BY <1>1, <1>3, <1>5, <2>4 DEF AllInv, RunInv
    <3> QED BY <1>1, <2>1, <2>4, <3>1 DEF Done
  <2> QED BY <2>3, <2>4
<1>8. Initialised' = Initialised \cup {r}
  <2>1. scps' = scps /\ DOMAIN scps = Index
    BY <1>1, <1>2, ScpsFacts, SameLayout
  <2>2. \A q : q \in Initialised' <=> \E j \in Index : Done(j)' /\ q = scps[j]
    BY <2>1 DEF Initialised, Done, Mod
  <2>3. \A q : q \in Initialised <=> \E j \in Index : Done(j) /\ q = scps[j]
    BY InitialisedAre
  <2>4. \A q : q \in Initialised' <=> q \in Initialised \cup {r}
    BY <1>7, <2>2, <2>3
  <2> QED BY <2>4
<1>9. SlotContent' = [x \in Slots |-> IF x[1] = r /\ x[2] \notin NoReset
                                      THEN x[2] ELSE SlotContent[x]]
  <2>1. \A x \in Slots : ArrayOf(x[2]) \in Arrays
    BY SlotType, SizeType DEF LayoutFits
  <2>2. SlotContent' = [x \in Slots |-> cells'[ArrayOf(x[2])][SlotAddr(x)]]
    BY <1>1, SameLayout DEF SlotContent
  <2>3. SlotContent = [x \in Slots |-> cells[ArrayOf(x[2])][SlotAddr(x)]]
    BY <1>1 DEF SlotContent
  <2>4. \A x \in Slots : cells'[ArrayOf(x[2])][SlotAddr(x)]
                           = IF x[1] = r /\ x[2] \notin NoReset THEN x[2]
                             ELSE cells[ArrayOf(x[2])][SlotAddr(x)]
    BY <1>1, <1>3, <2>1, ConstructedSlot
  <2> QED BY <2>2, <2>3, <2>4
<1>10. Ready = FALSE /\ Ready' = FALSE
  BY <1>1 DEF Ready
<1>11. Abstract!Initialise(r)
  BY <1>6, <1>8, <1>9, <1>10 DEF Abstract!Initialise
<1> QED BY <1>4, <1>11

\* When every instance has been constructed every scope is initialised.
LEMMA SimulateBegins ==
  ASSUME AllInv, Simulate
  PROVE  Abstract!Begin
<1>1. /\ pc = "construct" /\ pc' = "simulate" /\ Placed /\ Placed' /\ constructed = Scopes
      /\ UNCHANGED layoutVars /\ UNCHANGED <<cells, constructed, reset_cell_counter>>
  BY DEF Simulate, Placed
<1>2. ScpsOK
  BY <1>1 DEF AllInv, PlaceInv
<1>3. \A k \in Index : Done(k)
  <2> SUFFICES ASSUME NEW k \in Index PROVE Done(k)
    OBVIOUS
  <2>1. Mod(k) \in Modules
    BY <1>2, ScpsFacts
  <2>2. Built(Mod(k)) = ScopesOf(Mod(k))
    BY <1>1 DEF Built, ScopesOf
  <2>3. reset_cell_counter[Mod(k)] = Cardinality(ScopesOf(Mod(k)))
    BY <2>1, <2>2 DEF AllInv, RunInv
  <2> QED BY <1>1, <1>2, <2>1, <2>3, BlocksOfModule DEF Done
<1>4. Initialised = Scopes
  <2>1. \A r : r \in Initialised <=> \E k \in Index : r = scps[k]
    BY <1>3, InitialisedAre
  <2>2. \A k \in Index : scps[k] \in Scopes
    BY <1>2, ScpsFacts
  <2>3. \A r \in Scopes : \E k \in Index : scps[k] = r
    BY <1>2 DEF ScpsOK
  <2> QED BY <2>1, <2>2, <2>3
<1>5. Initialised' = Initialised
  BY <1>1, SameLayout DEF Initialised
<1>6. SlotContent' = SlotContent
  BY <1>1, SameLayout DEF SlotContent
<1>7. Ready = FALSE /\ Ready' = TRUE
  BY <1>1 DEF Ready
<1> QED BY <1>4, <1>5, <1>6, <1>7 DEF Abstract!Begin

\* A store to the cell of a slot changes that slot alone.
LEMMA StoreWrites ==
  ASSUME BatchFits, AllInv, NEW y \in Slots, NEW d \in Data,
         Store(ArrayOf(y[2]), SlotAddr(y), d)
  PROVE  Abstract!Write(y, d)
<1>1. /\ pc = "simulate" /\ Placed /\ Placed' /\ UNCHANGED pc
      /\ cells' = [cells EXCEPT ![ArrayOf(y[2])][SlotAddr(y)] = d]
      /\ UNCHANGED layoutVars /\ UNCHANGED <<constructed, reset_cell_counter>>
  BY DEF Store, Placed
<1>2. Initialised' = Initialised
  BY <1>1, SameLayout DEF Initialised
<1>3. Ready = TRUE /\ Ready' = TRUE
  BY <1>1 DEF Ready
<1>4. \A x \in Slots : /\ ArrayOf(x[2]) \in Arrays
                       /\ SlotAddr(x) \in DOMAIN cells[ArrayOf(x[2])]
  <2> SUFFICES ASSUME NEW x \in Slots
               PROVE  /\ ArrayOf(x[2]) \in Arrays
                      /\ SlotAddr(x) \in DOMAIN cells[ArrayOf(x[2])]
    OBVIOUS
  <2>1. ArrayOf(x[2]) \in Arrays
    BY SlotType, SizeType
  <2>2. SlotAddr(x) \in 0 .. gpu_threads * count[ArrayOf(x[2])] - 1
    BY <1>1, SlotInBounds DEF AllInv
  <2>3. cells[ArrayOf(x[2])] \in [0 .. gpu_threads * count[ArrayOf(x[2])] - 1 -> Content]
    BY <1>1, <2>1 DEF AllInv, RunInv
  <2> QED BY <2>1, <2>2, <2>3
<1>5. DOMAIN cells = Arrays
  BY DEF AllInv, RunInv
<1>6. \A x \in Slots : cells'[ArrayOf(x[2])][SlotAddr(x)]
                         = IF x = y THEN d ELSE cells[ArrayOf(x[2])][SlotAddr(x)]
  <2> SUFFICES ASSUME NEW x \in Slots
               PROVE  cells'[ArrayOf(x[2])][SlotAddr(x)]
                        = IF x = y THEN d ELSE cells[ArrayOf(x[2])][SlotAddr(x)]
    OBVIOUS
  <2>1. CASE x = y
    BY <1>1, <1>4, <1>5, <2>1
  <2>2. CASE x # y
    <3>1. ArrayOf(x[2]) # ArrayOf(y[2]) \/ SlotAddr(x) # SlotAddr(y)
      BY <1>1, <2>2, SlotsApart DEF AllInv
    <3> QED BY <1>1, <1>4, <1>5, <2>2, <3>1
  <2> QED BY <2>1, <2>2
<1>7. SlotContent = [x \in Slots |-> cells[ArrayOf(x[2])][SlotAddr(x)]]
  BY <1>1 DEF SlotContent
<1>8. SlotContent' = [x \in Slots |-> cells'[ArrayOf(x[2])][SlotAddr(x)]]
  BY <1>1, SameLayout DEF SlotContent
<1>9. SlotContent' = [SlotContent EXCEPT ![y] = d]
  BY <1>6, <1>7, <1>8
<1> QED BY <1>2, <1>3, <1>9 DEF Abstract!Write

LEMMA AbstractNext ==
  ASSUME LayoutFits, AllInv, AllInv', [Next]_vars
  PROVE  [Abstract!Next]_Abstract!vars
<1> USE DEF LayoutFits
<1>1. CASE AssignTopVar \/ SortScps \/ AssignVar \/ NextScope
  <2>1. pc \in {"top", "scopes"} /\ pc' \in {"top", "scopes"}
    BY <1>1 DEF AssignTopVar, SortScps, AssignVar, NextScope
  <2> QED BY <2>1, CompilerStutters DEF Abstract!vars
<1>2. CASE Allocate
  BY <1>2, AllocateStutters DEF Abstract!vars
<1>3. CASE \E s \in Scopes : Construct(s)
  BY <1>3, ConstructInitialises DEF Abstract!Next
<1>4. CASE Simulate
  BY <1>4, SimulateBegins DEF Abstract!Next
<1>5. ASSUME NEW d \in Data, NEW t \in Stimuli, NEW v \in Ports, NEW w \in 0 .. Size(v) - 1,
             Put(v, t, w, d)
      PROVE  Abstract!Next
  <2>1. PICK s \in Scopes : ModuleOf[s] = Top
    BY TopScope
  <2>2. Placed
    BY <1>5 DEF Put, Store, Placed
  <2> DEFINE y == <<s, v, t, w>>
  <2>3. y \in Slots /\ PortAddr(v, t, w) = SlotAddr(y)
    BY <2>1, <2>2, PortAt DEF AllInv
  <2>4. Store(ArrayOf(y[2]), SlotAddr(y), d)
    BY <1>5, <2>3 DEF Put
  <2>5. Abstract!Write(y, d)
    BY <2>3, <2>4, StoreWrites
  <2> QED BY <2>3, <2>5 DEF Abstract!Next
<1>6. ASSUME NEW d \in Data, NEW t \in Stimuli, NEW s \in Scopes,
             NEW v \in VarSet(ModuleOf[s]), NEW w \in 0 .. Size(v) - 1,
             KernelStore(s, v, t, w, d)
      PROVE  Abstract!Next
  <2> DEFINE y == <<s, v, t, w>>
  <2>1. y \in Slots
    BY MakeSlot
  <2>2. Store(ArrayOf(y[2]), SlotAddr(y), d)
    BY <1>6 DEF KernelStore, SlotAddr
  <2>3. Abstract!Write(y, d)
    BY <2>1, <2>2, StoreWrites
  <2> QED BY <2>1, <2>3 DEF Abstract!Next
<1>7. CASE UNCHANGED vars
  <2>1. UNCHANGED <<pc, cells, reset_cell_counter>> /\ UNCHANGED layoutVars
    BY <1>7 DEF vars
  <2>2. Initialised' = Initialised /\ SlotContent' = SlotContent /\ Ready' = Ready
    BY <2>1, SameLayout DEF Initialised, SlotContent, Ready, Placed
  <2> QED BY <2>2 DEF Abstract!vars
<1> QED BY <1>1, <1>2, <1>3, <1>4, <1>5, <1>6, <1>7 DEF Next

\* For every design without arrays of wide elements or array ports, every
\* order of the scopes and of the constructors, the four device arrays are a
\* store of independent words: each is initialised once, by a constructor of
\* its module, before the simulation, and then changes only when it is written.
THEOREM LayoutImplementsStore == LayoutFits => (Spec => StoreSpec)
<1> SUFFICES ASSUME LayoutFits PROVE Spec => StoreSpec
  OBVIOUS
<1>1. Init => AllInv
  BY AllInit
<1>2. AllInv /\ [Next]_vars => AllInv'
  BY AllNext
<1>3. Init => Abstract!Init
  BY AbstractInit
<1>4. AllInv /\ AllInv' /\ [Next]_vars => [Abstract!Next]_Abstract!vars
  BY AbstractNext
<1> QED BY <1>1, <1>2, <1>3, <1>4, PTL DEF Spec, StoreSpec, Abstract!Spec

-----------------------------------------------------------------------------
(* What the store promises: before the simulation begins every slot that a  *)
(* constructor initialises has been.                                        *)

Filled ==
  /\ Ready => Initialised = Scopes
  /\ \A x \in Slots : x[1] \in Initialised /\ x[2] \notin NoReset => SlotContent[x] # Raw

LEMMA FilledInit == Abstract!Init => Filled
  BY DEF Abstract!Init, Filled

LEMMA FilledNext ==
  ASSUME Filled, BatchFits, [Abstract!Next]_Abstract!vars
  PROVE  Filled'
<1>0. \A x \in Slots : x[2] # Raw
  BY SlotType, LayoutAssumption
<1>1. ASSUME NEW s \in Scopes, Abstract!Initialise(s) PROVE Filled'
  BY <1>0, <1>1 DEF Abstract!Initialise, Filled
<1>2. CASE Abstract!Begin
  BY <1>2 DEF Abstract!Begin, Filled
<1>3. ASSUME NEW y \in Slots, NEW d \in Data, Abstract!Write(y, d) PROVE Filled'
  BY <1>3 DEF Abstract!Write, Filled, Data, Raw, SlotContent
<1>4. CASE UNCHANGED Abstract!vars
  BY <1>4 DEF Abstract!vars, Filled
<1> QED BY <1>1, <1>2, <1>3, <1>4 DEF Abstract!Next

\* For every such design no word that a constructor initialises is still raw
\* memory when the simulation begins.
THEOREM InitialisedInTime == LayoutFits => (Spec => []NothingRaw)
<1> SUFFICES ASSUME LayoutFits PROVE Spec => []NothingRaw
  OBVIOUS
<1>1. Init => AllInv /\ Filled
  BY AllInit, AbstractInit, FilledInit
<1>2. AllInv /\ [Next]_vars => AllInv'
  BY AllNext
<1>3. AllInv /\ AllInv' /\ Filled /\ [Next]_vars => Filled'
  BY AbstractNext, FilledNext DEF LayoutFits
<1>4. Filled => NothingRaw
  <2> SUFFICES ASSUME Filled, pc = "simulate", NEW x \in Slots, x[2] \notin NoReset
               PROVE  cells[ArrayOf(x[2])][SlotAddr(x)] # Raw
    BY DEF NothingRaw
  <2>1. Initialised = Scopes /\ SlotContent[x] = cells[ArrayOf(x[2])][SlotAddr(x)]
    BY DEF Filled, Ready, SlotContent, Placed
  <2> QED BY <2>1, SlotScope DEF Filled
<1> QED BY <1>1, <1>2, <1>3, <1>4, PTL DEF Spec
=============================================================================
