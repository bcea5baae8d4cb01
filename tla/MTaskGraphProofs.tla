-------------------------- MODULE MTaskGraphProofs --------------------------
(***************************************************************************)
(* What the proofs about V3Partition use of graphs without a cycle: what    *)
(* Before is, that a finite one can be walked from either end, and that a   *)
(* merge of two mtasks that no path connects leaves it without a cycle.     *)
(***************************************************************************)
EXTENDS MTaskGraph, FiniteSetTheorems, WellFoundedInduction, TLAPS

\* A non-empty set has an element of least rank.
LEMMA LeastRank ==
  ASSUME NEW S, NEW f \in [S -> Nat], S # {}
  PROVE  \E x \in S : \A y \in S : f[x] <= f[y]
<1> DEFINE T == {f[x] : x \in S}
<1>1. T \subseteq Nat /\ T # {}
  OBVIOUS
<1>2. PICK m \in T : \A n \in T : ~(<<n, m>> \in OpToRel(<, Nat))
  <2> HIDE DEF T
  <2> QED BY <1>1, NatLessThanWellFounded, WFMin
<1>3. PICK x \in S : m = f[x]
  OBVIOUS
<1>4. ASSUME NEW y \in S PROVE f[x] <= f[y]
  <2>1. f[y] \in T
    OBVIOUS
  <2>2. ~(f[y] < m)
    BY <1>2, <2>1, <1>3 DEF OpToRel
  <2> QED BY <2>2, <1>3
<1> QED BY <1>4

\* Of finite sets, one has the fewest elements.
LEMMA Fewest ==
  ASSUME NEW N, IsFiniteSet(N), NEW C, C \subseteq SUBSET N, C # {}
  PROVE  \E S \in C : \A T \in C : T \subseteq S => T = S
<1> DEFINE f == [S \in C |-> Cardinality(S)]
<1>1. ASSUME NEW S \in C PROVE IsFiniteSet(S) /\ Cardinality(S) \in Nat
  BY FS_Subset, FS_CardinalityType
<1>2. f \in [C -> Nat]
  BY <1>1
<1>3. PICK S \in C : \A T \in C : f[S] <= f[T]
  <2> HIDE DEF f
  <2> QED BY <1>2, LeastRank
<1>4. ASSUME NEW T \in C, T \subseteq S, T # S PROVE FALSE
  <2>1. Cardinality(T) <= Cardinality(S) /\ (Cardinality(S) = Cardinality(T) => S = T)
    BY <1>1, <1>4, FS_Subset
  <2>2. Cardinality(S) <= Cardinality(T)
    BY <1>3
  <2> QED BY <1>1, <1>4, <2>1, <2>2
<1> QED BY <1>4

\* A finite set of numbers has a greatest.
LEMMA Greatest ==
  ASSUME NEW S \in SUBSET Nat, IsFiniteSet(S), S # {}
  PROVE  Max(S) \in S /\ \A n \in S : Max(S) >= n
<1> DEFINE Above(m) == {n \in S : n > m}
           f == [m \in S |-> Cardinality(Above(m))]
<1>1. \A m \in S : IsFiniteSet(Above(m)) /\ Cardinality(Above(m)) \in Nat
  BY FS_Subset, FS_CardinalityType
<1>2. f \in [S -> Nat]
  BY <1>1
<1>3. PICK m \in S : \A n \in S : f[m] <= f[n]
  <2> HIDE DEF f
  <2> QED BY <1>2, LeastRank
<1>4. ASSUME NEW n \in S, n > m PROVE FALSE
  <2>0. m \in Nat /\ n \in Nat /\ n \in Above(m) /\ n \notin Above(n)
    BY <1>4
  <2>a. ASSUME NEW x \in Above(n) PROVE x \in Above(m)
    <3>1. x \in S /\ x \in Nat /\ x > n
      OBVIOUS
    <3> QED BY <1>4, <2>0, <3>1
  <2>1. Above(n) \subseteq Above(m) /\ n \in Above(m) /\ n \notin Above(n)
    BY <2>0, <2>a
  <2>2. Cardinality(Above(n)) <= Cardinality(Above(m))
        /\ Cardinality(Above(m)) # Cardinality(Above(n))
    <3> HIDE DEF Above
    <3> QED BY <1>1, <2>1, FS_Subset
  <2>3. Cardinality(Above(m)) <= Cardinality(Above(n))
    BY <1>3
  <2> QED BY <1>1, <2>2, <2>3
<1>5. m \in S /\ \A n \in S : m >= n
  BY <1>4
<1> QED BY <1>5 DEF Max

-----------------------------------------------------------------------------
\* Before is a reflexive and transitive relation.

LEMMA BeforeItself ==
  ASSUME NEW N, NEW E, NEW t PROVE Before(N, E, t, t)
BY DEF Before

LEMMA BeforeStep ==
  ASSUME NEW N, NEW E, NEW t, NEW u, NEW v, Before(N, E, t, u), <<u, v>> \in E
  PROVE  Before(N, E, t, v)
<1> SUFFICES ASSUME NEW U \in SUBSET N, t \in U, \A e \in E : e[1] \in U => e[2] \in U
             PROVE  v \in U
  BY DEF Before
<1>1. u \in U
  BY DEF Before
<1>2. <<u, v>>[1] \in U => <<u, v>>[2] \in U
  OBVIOUS
<1> QED BY <1>1, <1>2

LEMMA BeforeMore ==
  ASSUME NEW N, NEW E, NEW F, E \subseteq F, NEW t, NEW u, Before(N, E, t, u)
  PROVE  Before(N, F, t, u)
BY DEF Before

LEMMA BeforeTransitive ==
  ASSUME NEW N, NEW E, NEW t, NEW u, NEW v, Before(N, E, t, u), Before(N, E, u, v)
  PROVE  Before(N, E, t, v)
BY DEF Before

LEMMA BeforeEdge ==
  ASSUME NEW N, NEW E, NEW t, NEW u, <<t, u>> \in E
  PROVE  Before(N, E, t, u)
BY BeforeItself, BeforeStep

LEMMA BeforeIn ==
  ASSUME NEW N, NEW E \in SUBSET (N \X N), NEW t \in N, NEW u, Before(N, E, t, u)
  PROVE  u \in N
<1>1. \A e \in E : e[1] \in N => e[2] \in N
  OBVIOUS
<1> QED BY <1>1 DEF Before

\* What is before another is one edge before what is before it, and after.
LEMMA FirstEdge ==
  ASSUME NEW N, NEW E \in SUBSET (N \X N), NEW t \in N, NEW u \in N, t # u, Before(N, E, t, u)
  PROVE  \E v \in N : <<t, v>> \in E /\ Before(N, E, v, u)
<1> DEFINE U == {w \in N : w = t \/ \E v \in N : <<t, v>> \in E /\ Before(N, E, v, w)}
<1>1. ASSUME NEW e \in E, e[1] \in U PROVE e[2] \in U
  <2>1. e = <<e[1], e[2]>> /\ e[2] \in N
    OBVIOUS
  <2>2. CASE e[1] = t
    BY <2>1, <2>2, BeforeItself
  <2>3. ASSUME NEW v \in N, <<t, v>> \in E, Before(N, E, v, e[1]) PROVE e[2] \in U
    <3>1. Before(N, E, v, e[2])
      BY <2>1, <2>3, BeforeStep
    <3> QED BY <2>1, <2>3, <3>1
  <2> QED BY <1>1, <2>2, <2>3
<1>2. t \in U /\ U \in SUBSET N
  OBVIOUS
<1>3. u \in U
  <2> HIDE DEF U
  <2> QED BY <1>1, <1>2 DEF Before
<1> QED BY <1>3

LEMMA LastEdge ==
  ASSUME NEW N, NEW E \in SUBSET (N \X N), NEW t \in N, NEW u \in N, t # u, Before(N, E, t, u)
  PROVE  \E v \in N : Before(N, E, t, v) /\ <<v, u>> \in E
<1> DEFINE U == {w \in N : w = t \/ \E v \in N : Before(N, E, t, v) /\ <<v, w>> \in E}
<1>1. ASSUME NEW e \in E, e[1] \in U PROVE e[2] \in U
  <2>1. e = <<e[1], e[2]>> /\ e[2] \in N /\ e[1] \in N
    OBVIOUS
  <2>2. Before(N, E, t, e[1])
    BY <1>1, BeforeItself, BeforeStep
  <2> QED BY <2>1, <2>2
<1>2. t \in U /\ U \in SUBSET N
  OBVIOUS
<1>3. u \in U
  <2> HIDE DEF U
  <2> QED BY <1>1, <1>2 DEF Before
<1> QED BY <1>3

\* A merge h of the tasks, and edges added to the merged ones, keep the order.
LEMMA BeforeMerged ==
  ASSUME NEW N, NEW E \in SUBSET (N \X N), NEW F, NEW h \in [N -> N],
         \A e \in E : <<h[e[1]], h[e[2]]>> \in F \/ h[e[1]] = h[e[2]],
         NEW t \in N, NEW u \in N, Before(N, E, t, u)
  PROVE  Before(N, F, h[t], h[u])
<1> SUFFICES ASSUME NEW U \in SUBSET N, h[t] \in U,
                    \A e \in F : e[1] \in U => e[2] \in U
             PROVE  h[u] \in U
  BY DEF Before
<1> DEFINE V == {x \in N : h[x] \in U}
<1>1. V \in SUBSET N /\ t \in V
  OBVIOUS
<1>2. ASSUME NEW e \in E, e[1] \in V PROVE e[2] \in V
  <2>1. e[2] \in N /\ h[e[1]] \in U
    BY <1>2
  <2>2. CASE <<h[e[1]], h[e[2]]>> \in F
    <3>1. <<h[e[1]], h[e[2]]>>[2] \in U
      BY <2>1, <2>2
    <3> QED BY <2>1, <3>1
  <2> QED BY <2>1, <2>2
<1>3. u \in V
  BY <1>1, <1>2 DEF Before
<1> QED BY <1>3

-----------------------------------------------------------------------------
\* Graphs without a cycle.

LEMMA NoLoop ==
  ASSUME NEW N, NEW E, HasNoCycle(N, E), NEW t \in N
  PROVE  <<t, t>> \notin E
<1>1. {t} \in SUBSET N /\ {t} # {}
  OBVIOUS
<1>2. PICK v \in {t} : \A u \in {t} : <<u, v>> \notin E
  BY <1>1 DEF HasNoCycle
<1> QED BY <1>2

LEMMA NoWayBack ==
  ASSUME NEW N, NEW E \in SUBSET (N \X N), HasNoCycle(N, E), NEW t \in N, NEW u \in N,
         Before(N, E, t, u), Before(N, E, u, t)
  PROVE  t = u
<1> SUFFICES ASSUME t # u PROVE FALSE
  OBVIOUS
<1> DEFINE S == {z \in N : Before(N, E, t, z) /\ Before(N, E, z, t)}
<1>1. t \in S /\ u \in S /\ S \in SUBSET N
  BY BeforeItself
<1>2. PICK s \in S : \A v \in S : <<v, s>> \notin E
  <2> HIDE DEF S
  <2> QED BY <1>1 DEF HasNoCycle
<1>3. PICK o \in {t, u} : o # s
  OBVIOUS
<1>4. Before(N, E, o, s) /\ Before(N, E, t, o)
  BY <1>2, <1>3, BeforeTransitive, BeforeItself
<1>5. PICK v \in N : Before(N, E, o, v) /\ <<v, s>> \in E
  BY <1>2, <1>3, <1>4, LastEdge
<1>6. Before(N, E, t, v)
  BY <1>4, <1>5, BeforeTransitive
<1>7. Before(N, E, v, s)
  BY <1>5, BeforeEdge
<1>8. Before(N, E, v, t)
  BY <1>2, <1>7, BeforeTransitive
<1> QED BY <1>2, <1>5, <1>6, <1>8

\* Walked from the other end, a finite graph without a cycle has no cycle either.
LEMMA SomeLast ==
  ASSUME NEW N, IsFiniteSet(N), NEW E, HasNoCycle(N, E), NEW S \in SUBSET N, S # {}
  PROVE  \E t \in S : \A u \in S : <<t, u>> \notin E
<1> DEFINE C == {T \in SUBSET S : T # {} /\ \A t \in T : \E u \in T : <<t, u>> \in E}
<1>1. CASE C = {}
  BY <1>1
<1>2. CASE C # {}
  <2>1. C \subseteq SUBSET N
    OBVIOUS
  <2>2. PICK T \in C : \A U \in C : U \subseteq T => U = T
    <3> HIDE DEF C
    <3> QED BY <1>2, <2>1, Fewest
  <2>3. PICK s \in T : \A u \in T : <<u, s>> \notin E
    BY DEF HasNoCycle
  <2>4. ASSUME NEW t \in T PROVE \E u \in T \ {s} : <<t, u>> \in E
    BY <2>3
  <2>5. T \ {s} \in C
    BY <2>3, <2>4
  <2> QED BY <2>2, <2>5
<1> QED BY <1>1, <1>2

\* Edges along the ways of a graph without a cycle close none.
LEMMA AlongNoCycle ==
  ASSUME NEW N, IsFiniteSet(N), NEW E \in SUBSET (N \X N), HasNoCycle(N, E),
         NEW F \in SUBSET (N \X N),
         \A e \in F : e[1] # e[2] /\ Before(N, E, e[1], e[2])
  PROVE  HasNoCycle(N, F)
<1> SUFFICES ASSUME NEW S \in SUBSET N, S # {}
             PROVE  \E t \in S : \A u \in S : <<u, t>> \notin F
  BY DEF HasNoCycle
<1> DEFINE Until(t) == {z \in N : Before(N, E, z, t)}
           f == [t \in S |-> Cardinality(Until(t))]
<1>1. \A t \in S : IsFiniteSet(Until(t)) /\ Cardinality(Until(t)) \in Nat
  BY FS_Subset, FS_CardinalityType
<1>2. f \in [S -> Nat]
  BY <1>1
<1>3. PICK t \in S : \A u \in S : f[t] <= f[u]
  <2> HIDE DEF f
  <2> QED BY <1>2, LeastRank
<1>4. ASSUME NEW u \in S, <<u, t>> \in F PROVE FALSE
  <2>1. u # t /\ Before(N, E, u, t)
    <3>1. <<u, t>>[1] # <<u, t>>[2] /\ Before(N, E, <<u, t>>[1], <<u, t>>[2])
      BY <1>4
    <3> QED BY <3>1
  <2>2. t \notin Until(u)
    BY <2>1, NoWayBack
  <2>3. t \in Until(t)
    BY BeforeItself
  <2>4. Until(u) \subseteq Until(t)
    BY <2>1, BeforeTransitive
  <2>5. Cardinality(Until(u)) <= Cardinality(Until(t))
        /\ Cardinality(Until(t)) # Cardinality(Until(u))
    <3> HIDE DEF Until
    <3> QED BY <1>1, <2>2, <2>3, <2>4, FS_Subset
  <2>6. Cardinality(Until(t)) <= Cardinality(Until(u))
    BY <1>3
  <2> QED BY <1>1, <2>5, <2>6
<1> QED BY <1>4

\* Two tasks that are on no way together can be merged.
LEMMA MergeNoCycle ==
  ASSUME NEW N, NEW E \in SUBSET (N \X N), HasNoCycle(N, E), NEW r \in N, NEW d \in N, r # d,
         ~Before(N, E, r, d), ~Before(N, E, d, r),
         NEW F \in SUBSET (N \X N),
         \A e \in F : \E o \in E : /\ e[1] = IF o[1] = d THEN r ELSE o[1]
                                   /\ e[2] = IF o[2] = d THEN r ELSE o[2]
  PROVE  HasNoCycle(N, F)
<1> SUFFICES ASSUME NEW S \in SUBSET N, S # {}
             PROVE  \E t \in S : \A u \in S : <<u, t>> \notin F
  BY DEF HasNoCycle
<1>1. ASSUME NEW x, NEW y, <<x, y>> \in F
      PROVE  /\ x \in N /\ y \in N /\ x # d /\ y # d
             /\ \E v \in N, w \in N : /\ <<v, w>> \in E
                                      /\ x = v \/ (x = r /\ v = d)
                                      /\ y = w \/ (y = r /\ w = d)
  <2>1. x \in N /\ y \in N
    BY <1>1
  <2>2. PICK o \in E : /\ <<x, y>>[1] = IF o[1] = d THEN r ELSE o[1]
                       /\ <<x, y>>[2] = IF o[2] = d THEN r ELSE o[2]
    BY <1>1
  <2>3. o = <<o[1], o[2]>> /\ o[1] \in N /\ o[2] \in N
    OBVIOUS
  <2> QED BY <2>1, <2>2, <2>3
<1> DEFINE Q == {z \in S : ~Before(N, E, r, z) /\ ~Before(N, E, d, z)}
<1>2. CASE Q # {}
  <2>1. PICK q \in Q : \A u \in Q : <<u, q>> \notin E
    <3>1. Q \in SUBSET N
      OBVIOUS
    <3> HIDE DEF Q
    <3> QED BY <1>2, <3>1 DEF HasNoCycle
  <2>2. q # r
    BY BeforeItself
  <2>3. ASSUME NEW u \in S, <<u, q>> \in F PROVE FALSE
    <3>1. PICK v \in N, w \in N : /\ <<v, w>> \in E
                                  /\ u = v \/ (u = r /\ v = d)
                                  /\ q = w \/ (q = r /\ w = d)
      BY <1>1, <2>3
    <3>2. <<v, q>> \in E
      BY <2>2, <3>1
    <3>3. ~Before(N, E, r, v) /\ ~Before(N, E, d, v)
      BY <3>2, BeforeStep
    <3>4. v # d
      BY <3>3, BeforeItself
    <3> QED BY <2>1, <3>1, <3>2, <3>3, <3>4
  <2> QED BY <2>1, <2>3
<1>3. CASE Q = {} /\ r \in S
  <2>1. ASSUME NEW u \in S, <<u, r>> \in F PROVE FALSE
    <3>1. PICK v \in N, w \in N : /\ <<v, w>> \in E
                                  /\ u = v \/ (u = r /\ v = d)
                                  /\ w \in {r, d}
      BY <1>1, <2>1
    <3>2. PICK o \in {r, d} : Before(N, E, o, v)
      <4>1. CASE v = d
        BY <4>1, BeforeItself
      <4>2. CASE v # d
        BY <1>3, <3>1, <4>2
      <4> QED BY <4>1, <4>2
    <3>3. Before(N, E, o, w)
      BY <3>1, <3>2, BeforeStep
    <3>4. o = w
      BY <3>1, <3>2, <3>3
    <3>5. Before(N, E, w, v) /\ Before(N, E, v, w)
      BY <3>1, <3>2, <3>4, BeforeEdge
    <3>6. v = w
      BY <3>1, <3>5, NoWayBack
    <3> QED BY <3>1, <3>6, NoLoop
  <2> QED BY <1>3, <2>1
<1>4. CASE Q = {} /\ r \notin S
  <2>1. PICK s \in S : \A u \in S : <<u, s>> \notin E
    BY DEF HasNoCycle
  <2>2. ASSUME NEW u \in S, <<u, s>> \in F PROVE FALSE
    <3>1. PICK v \in N, w \in N : /\ <<v, w>> \in E
                                  /\ u = v \/ (u = r /\ v = d)
                                  /\ s = w \/ (s = r /\ w = d)
      BY <1>1, <2>2
    <3> QED BY <1>4, <2>1, <3>1
  <2> QED BY <2>2
<1> QED BY <1>2, <1>3, <1>4

\* Without the edges that a longer way makes redundant, no order is lost.
LEMMA ReducedOrder ==
  ASSUME NEW N, IsFiniteSet(N), NEW E \in SUBSET (N \X N), HasNoCycle(N, E), NEW F,
         \A e \in E : e \in F \/ Before(N, E \ {e}, e[1], e[2]),
         NEW t \in N, NEW u \in N, Before(N, E, t, u)
  PROVE  Before(N, F, t, u)
<1> SUFFICES ASSUME NEW U \in SUBSET N, t \in U, \A e \in F : e[1] \in U => e[2] \in U,
                    u \notin U
             PROVE  FALSE
  BY DEF Before
<1> DEFINE Crossing == {p \in N \X N : p[1] \in U /\ p[2] \notin U /\ Before(N, E, p[1], p[2])}
           Between(x, y) == {z \in N : Before(N, E, x, z) /\ Before(N, E, z, y)}
           f == [p \in Crossing |-> Cardinality(Between(p[1], p[2]))]
<1>1. <<t, u>> \in Crossing
  OBVIOUS
<1>2. \A x, y \in N : IsFiniteSet(Between(x, y)) /\ Cardinality(Between(x, y)) \in Nat
  BY FS_Subset, FS_CardinalityType
<1>3. f \in [Crossing -> Nat]
  <2> HIDE DEF Between
  <2> QED BY <1>2
<1>4. PICK p \in Crossing : \A q \in Crossing : f[p] <= f[q]
  <2> HIDE DEF f, Crossing
  <2> QED BY <1>1, <1>3, LeastRank
<1> DEFINE x == p[1]
           y == p[2]
<1>5. /\ x \in N /\ y \in N /\ x \in U /\ y \notin U /\ Before(N, E, x, y) /\ x # y
      /\ p = <<x, y>>
  OBVIOUS
<1> HIDE DEF x, y
\* No task between x and y: one of the two pairs would be a closer one.
<1>6. ASSUME NEW z \in N, Before(N, E, x, z), Before(N, E, z, y), z # x, z # y PROVE FALSE
  <2>1. ASSUME NEW v \in N, NEW w \in N, v \in U, w \notin U, Before(N, E, v, w),
               Before(N, E, x, v), Before(N, E, w, y), v # x \/ w # y
        PROVE  FALSE
    <3>1. <<v, w>> \in Crossing
      BY <2>1
    <3>2. Cardinality(Between(x, y)) <= Cardinality(Between(v, w))
      <4>1. f[p] <= f[<<v, w>>]
        BY <1>4, <3>1
      <4>2. f[p] = Cardinality(Between(x, y))
        BY <1>5 DEF x, y
      <4>3. f[<<v, w>>] = Cardinality(Between(v, w))
        BY <3>1
      <4> QED BY <4>1, <4>2, <4>3
    <3>3. Between(v, w) \subseteq Between(x, y)
      BY <1>5, <2>1, BeforeTransitive
    <3>4. x \in Between(x, y) /\ y \in Between(x, y)
      BY <1>5, BeforeItself
    <3>5. x \notin Between(v, w) \/ y \notin Between(v, w)
      <4>1. CASE v # x
        BY <1>5, <2>1, <4>1, NoWayBack
      <4>2. CASE w # y
        BY <1>5, <2>1, <4>2, NoWayBack
      <4> QED BY <2>1, <4>1, <4>2
    <3> HIDE DEF Between
    <3>6. Cardinality(Between(v, w)) <= Cardinality(Between(x, y))
          /\ Cardinality(Between(x, y)) # Cardinality(Between(v, w))
      BY <1>2, <1>5, <3>3, <3>4, <3>5, FS_Subset
    <3>7. Cardinality(Between(v, w)) \in Nat /\ Cardinality(Between(x, y)) \in Nat
      BY <1>2, <1>5, <2>1
    <3> QED BY <3>2, <3>6, <3>7
  <2>2. CASE z \in U
    BY <1>5, <1>6, <2>1, <2>2, BeforeItself
  <2>3. CASE z \notin U
    BY <1>5, <1>6, <2>1, <2>3, BeforeItself
  <2> QED BY <2>2, <2>3
\* So the first edge from x leads to y, and so does every other way.
<1>7. ASSUME NEW G \in SUBSET E, Before(N, G, x, y) PROVE <<x, y>> \in G
  <2>1. G \in SUBSET (N \X N)
    OBVIOUS
  <2>2. PICK z \in N : <<x, z>> \in G /\ Before(N, G, z, y)
    BY <1>5, <1>7, <2>1, FirstEdge
  <2>3. Before(N, E, x, z) /\ Before(N, E, z, y)
    BY <2>2, BeforeEdge, BeforeMore
  <2>4. z # x
    BY <1>5, <2>2, NoLoop
  <2> QED BY <1>6, <2>2, <2>3, <2>4
<1>8. <<x, y>> \in E
  BY <1>5, <1>7
<1>9. ~Before(N, E \ {<<x, y>>}, x, y)
  <2>1. E \ {<<x, y>>} \in SUBSET E
    OBVIOUS
  <2> QED BY <1>7, <2>1
<1>10. <<x, y>> \in F
  <2>1. <<x, y>> \in F \/ Before(N, E \ {<<x, y>>}, <<x, y>>[1], <<x, y>>[2])
    BY <1>8
  <2> QED BY <1>9, <2>1
<1>11. <<x, y>>[1] \in U => <<x, y>>[2] \in U
  BY <1>10
<1> QED BY <1>5, <1>11

\* Tasks T can be taken out if the ways through them are bridged.
LEMMA BridgedOrder ==
  ASSUME NEW N, NEW E \in SUBSET (N \X N), NEW T \in SUBSET N, NEW F,
         \A x, y \in N \ T :
           \/ <<x, y>> \in E
           \/ \E t, u \in T : /\ <<x, t>> \in E /\ <<u, y>> \in E
                              /\ Before(T, {d \in E : d[1] \in T /\ d[2] \in T}, t, u)
           => <<x, y>> \in F,
         NEW v \in N \ T, NEW w \in N \ T, Before(N, E, v, w)
  PROVE  Before(N, F, v, w)
<1> SUFFICES ASSUME NEW U \in SUBSET N, v \in U, \A e \in F : e[1] \in U => e[2] \in U
             PROVE  w \in U
  BY DEF Before
<1> DEFINE Inside == {d \in E : d[1] \in T /\ d[2] \in T}
           Reached == {z \in T : \E x \in U \ T, t \in T : <<x, t>> \in E /\ Before(T, Inside, t, z)}
           V == (U \ T) \cup Reached
<1>1. ASSUME NEW x \in V, NEW y \in N, <<x, y>> \in E PROVE y \in V
  <2>1. CASE x \in U \ T /\ y \notin T
    <3>1. <<x, y>> \in F
      BY <1>1, <2>1
    <3>2. <<x, y>>[1] \in U => <<x, y>>[2] \in U
      BY <3>1
    <3> QED BY <2>1, <3>2
  <2>2. CASE x \in U \ T /\ y \in T
    <3>1. Before(T, Inside, y, y)
      BY BeforeItself
    <3> QED BY <1>1, <2>2, <3>1
  <2>3. ASSUME NEW o \in U \ T, NEW t \in T, x \in T, <<o, t>> \in E, Before(T, Inside, t, x)
        PROVE  y \in V
    <3>1. CASE y \in T
      <4>1. <<x, y>> \in Inside
        BY <1>1, <2>3, <3>1
      <4>2. Before(T, Inside, t, y)
        BY <2>3, <4>1, BeforeStep
      <4> QED BY <2>3, <3>1, <4>2
    <3>2. CASE y \notin T
      <4>1. <<o, y>> \in F
        BY <1>1, <2>3, <3>2
      <4>2. <<o, y>>[1] \in U => <<o, y>>[2] \in U
        BY <4>1
      <4> QED BY <3>2, <4>2
    <3> QED BY <3>1, <3>2
  <2> QED BY <1>1, <2>1, <2>2, <2>3
<1>2. ASSUME NEW e \in E, e[1] \in V PROVE e[2] \in V
  <2>1. e = <<e[1], e[2]>> /\ e[2] \in N
    OBVIOUS
  <2> QED BY <1>1, <1>2, <2>1
<1>3. v \in V /\ V \in SUBSET N
  OBVIOUS
<1>4. w \in V
  <2> HIDE DEF V
  <2> QED BY <1>2, <1>3 DEF Before
<1> QED BY <1>4

\* A way from x to y through T.
Bridge(E, T, x, y) ==
  \E t, u \in T : /\ <<x, t>> \in E /\ <<u, y>> \in E
                 /\ Before(T, {d \in E : d[1] \in T /\ d[2] \in T}, t, u)

LEMMA BridgedNoCycle ==
  ASSUME NEW N, IsFiniteSet(N), NEW E \in SUBSET (N \X N), HasNoCycle(N, E),
         NEW T \in SUBSET N, NEW F \in SUBSET (N \X N),
         \A e \in F : e[1] \notin T /\ e[2] \notin T,
         \A e \in F : e \in E \/ Bridge(E, T, e[1], e[2])
  PROVE  HasNoCycle(N, F)
<1> DEFINE Inside == {d \in E : d[1] \in T /\ d[2] \in T}
<1>1. ASSUME NEW e \in F PROVE e[1] # e[2] /\ Before(N, E, e[1], e[2])
  <2>1. e = <<e[1], e[2]>> /\ e[1] \in N \ T /\ e[2] \in N \ T
    OBVIOUS
  <2>2. CASE e \in E
    <3>1. Before(N, E, e[1], e[2])
      BY <2>1, <2>2, BeforeEdge
    <3> QED BY <2>1, <2>2, <3>1, NoLoop
  <2>3. ASSUME NEW t \in T, NEW u \in T, <<e[1], t>> \in E, <<u, e[2]>> \in E,
               Before(T, Inside, t, u)
        PROVE  e[1] # e[2] /\ Before(N, E, e[1], e[2])
    <3>1. Before(N, E, t, u)
      <4> SUFFICES ASSUME NEW U \in SUBSET N, t \in U, \A d \in E : d[1] \in U => d[2] \in U
                   PROVE  u \in U
        BY DEF Before
      <4>1. U \cap T \in SUBSET T /\ t \in U \cap T
        OBVIOUS
      <4>2. \A d \in Inside : d[1] \in U \cap T => d[2] \in U \cap T
        OBVIOUS
      <4>3. u \in U \cap T
        <5> HIDE DEF Inside
        <5> QED BY <2>3, <4>1, <4>2 DEF Before
      <4> QED BY <4>3
    <3>2. Before(N, E, e[1], t) /\ Before(N, E, u, e[2])
      BY <2>3, BeforeEdge
    <3>3. Before(N, E, e[1], u) /\ Before(N, E, e[1], e[2])
      BY <3>1, <3>2, BeforeTransitive
    <3>4. e[1] # u
      BY <2>1
    <3>5. e[1] # e[2]
      BY <2>1, <3>2, <3>3, <3>4, NoWayBack
    <3> QED BY <3>3, <3>5
  <2>4. CASE Bridge(E, T, e[1], e[2])
    <3>1. PICK t, u \in T : /\ <<e[1], t>> \in E /\ <<u, e[2]>> \in E
                            /\ Before(T, Inside, t, u)
      BY <2>4 DEF Bridge
    <3> QED BY <2>3, <3>1
  <2> QED BY <2>2, <2>4
<1>2. F \in SUBSET (N \X N)
  OBVIOUS
<1> QED BY <1>1, <1>2, AlongNoCycle

-----------------------------------------------------------------------------
\* Longest ways.

LEMMA HighestIs ==
  ASSUME NEW S, IsFiniteSet(S), NEW g, \A u \in S : g[u] \in Nat
  PROVE  /\ Highest(g, S) \in Nat
         /\ \A u \in S : g[u] <= Highest(g, S)
         /\ Highest(g, S) = 0 \/ \E u \in S : Highest(g, S) = g[u]
<1> DEFINE T == {g[u] : u \in S}
           M == {0} \cup T
<1>1. T \subseteq Nat /\ M = T \cup {0}
  OBVIOUS
<1>2. IsFiniteSet(T)
  <2> DEFINE k == [u \in S |-> g[u]]
  <2>1. k \in Surjection(S, T)
    BY DEF Surjection
  <2> HIDE DEF k, T
  <2> QED BY <2>1, FS_Surjection
<1>3. IsFiniteSet(M)
  <2> HIDE DEF T
  <2> QED BY <1>1, <1>2, FS_AddElement
<1>4. M \in SUBSET Nat /\ M # {}
  BY <1>1
<1>5. Max(M) \in M /\ \A n \in M : Max(M) >= n
  <2> HIDE DEF M
  <2> QED BY <1>3, <1>4, Greatest
<1>6. \A n \in M : n <= Max(M) /\ n \in Nat
  <2> HIDE DEF M
  <2> QED BY <1>4, <1>5
<1>7. Highest(g, S) = Max(M)
  BY DEF Highest
<1> HIDE DEF T
<1>8. Max(M) = 0 \/ Max(M) \in T
  BY <1>5
<1> QED BY <1>1, <1>4, <1>5, <1>6, <1>7, <1>8 DEF T

LEMMA HighestSame ==
  ASSUME NEW S, NEW g, NEW h, \A u \in S : g[u] = h[u]
  PROVE  Highest(g, S) = Highest(h, S)
<1>1. {g[u] : u \in S} = {h[u] : u \in S}
  OBVIOUS
<1> QED BY <1>1 DEF Highest

\* The values g[t] = D[t][highest of those before t] are known on A.
KnownOn(N, P, D, A) ==
  \E g \in [N -> Nat] : \A t \in A : P[t] \subseteq A /\ g[t] = D[t][Highest(g, P[t])]

LEMMA OneMore ==
  ASSUME NEW N, IsFiniteSet(N), NEW P \in [N -> SUBSET N], NEW D \in [N -> [Nat -> Nat]],
         NEW A \in SUBSET N, KnownOn(N, P, D, A), NEW t \in N, t \notin A, P[t] \subseteq A
  PROVE  KnownOn(N, P, D, A \cup {t})
<1>0. PICK g \in [N -> Nat] : \A v \in A : P[v] \subseteq A /\ g[v] = D[v][Highest(g, P[v])]
  BY DEF KnownOn
<1> DEFINE h == [g EXCEPT ![t] = D[t][Highest(g, P[t])]]
<1>1. Highest(g, P[t]) \in Nat
  <2>1. IsFiniteSet(P[t]) /\ \A u \in P[t] : g[u] \in Nat
    BY FS_Subset
  <2> QED BY <2>1, HighestIs
<1>2. h \in [N -> Nat] /\ h[t] = D[t][Highest(g, P[t])] /\ \A u \in A : h[u] = g[u]
  BY <1>1
<1> HIDE DEF h
<1>3. ASSUME NEW v \in A \cup {t} PROVE P[v] \subseteq A \cup {t} /\ h[v] = D[v][Highest(h, P[v])]
  <2>1. P[v] \subseteq A
    BY <1>0
  <2>2. Highest(h, P[v]) = Highest(g, P[v])
    BY <1>2, <2>1, HighestSame
  <2>3. CASE v = t
    BY <1>2, <2>1, <2>2, <2>3
  <2>4. CASE v # t
    BY <1>0, <1>2, <2>1, <2>2, <2>4
  <2> QED BY <2>3, <2>4
<1> QED BY <1>2, <1>3 DEF KnownOn

\* No way back through those before: every set has a first.
Founded(N, P) == \A S \in SUBSET N : S # {} => \E t \in S : \A u \in S : u \notin P[t]

\* What is defined from the highest value of those before it is defined.
LEMMA ByThoseBefore ==
  ASSUME NEW N, IsFiniteSet(N), NEW P \in [N -> SUBSET N], Founded(N, P),
         NEW D \in [N -> [Nat -> Nat]]
  PROVE  KnownOn(N, P, D, N)
<1> DEFINE Left == {B \in SUBSET N : KnownOn(N, P, D, N \ B)}
<1>1. N \in Left
  <2>1. [t \in N |-> 0] \in [N -> Nat] /\ N \ N = {}
    OBVIOUS
  <2> QED BY <2>1 DEF KnownOn
<1>2. Left \subseteq SUBSET N /\ Left # {}
  BY <1>1
<1>3. PICK B \in Left : \A C \in Left : C \subseteq B => C = B
  <2> HIDE DEF Left
  <2> QED BY <1>2, Fewest
<1>4. CASE B = {}
  <2>1. N \ B = N
    BY <1>4
  <2> QED BY <2>1
<1>5. CASE B # {}
  <2>1. B \in SUBSET N /\ KnownOn(N, P, D, N \ B)
    OBVIOUS
  <2>2. PICK t \in B : \A u \in B : u \notin P[t]
    BY <1>5, <2>1 DEF Founded
  <2>3. P[t] \subseteq N \ B /\ t \in N /\ t \notin N \ B /\ N \ B \in SUBSET N
    BY <2>1, <2>2
  <2>4. KnownOn(N, P, D, (N \ B) \cup {t})
    BY <2>1, <2>3, OneMore
  <2>5. (N \ B) \cup {t} = N \ (B \ {t}) /\ B \ {t} \in SUBSET N
    BY <2>1, <2>2
  <2>6. B \ {t} \in Left
    BY <2>4, <2>5
  <2>7. B \ {t} \subseteq B /\ B \ {t} # B
    BY <2>2
  <2> HIDE DEF Left
  <2> QED BY <1>3, <2>6, <2>7
<1> QED BY <1>4, <1>5

-----------------------------------------------------------------------------
\* Sums over a finite set.

Sum(c, S) == MapThenSumSet(LAMBDA l : c[l], S)

Some(s) == CHOOSE x \in s : TRUE

PartSums(c, S, it) ==
  it = [s \in SUBSET S |-> IF s = {} THEN 0 ELSE c[Some(s)] + it[s \ {Some(s)}]]

Iter(c, S) == CHOOSE it : PartSums(c, S, it)

LEMMA SumIsIter == ASSUME NEW c, NEW S PROVE Sum(c, S) = Iter(c, S)[S]
BY DEF Sum, Iter, PartSums, Some, MapThenSumSet, MapThenFoldSet

LEMMA SomeIs == ASSUME NEW s, s # {} PROVE Some(s) \in s
BY DEF Some

LEMMA PartSumsExist ==
  ASSUME NEW S, IsFiniteSet(S), NEW c, \A x \in S : c[x] \in Nat
  PROVE  \E g \in [SUBSET S -> Nat] : PartSums(c, S, g)
<1> DEFINE P == [s \in SUBSET S |-> IF s = {} THEN {} ELSE {s \ {Some(s)}}]
           D == [s \in SUBSET S |-> [m \in Nat |-> IF s = {} THEN 0 ELSE c[Some(s)] + m]]
<1>1. P \in [SUBSET S -> SUBSET (SUBSET S)]
  OBVIOUS
<1>2. D \in [SUBSET S -> [Nat -> Nat]]
  <2>1. ASSUME NEW s \in SUBSET S, s # {} PROVE c[Some(s)] \in Nat
    BY <2>1, SomeIs
  <2> QED BY <2>1
<1>3. ASSUME NEW C \in SUBSET (SUBSET S), C # {}
      PROVE  \E t \in C : \A u \in C : u \notin P[t]
  <2>1. PICK t \in C : \A u \in C : u \subseteq t => u = t
    BY <1>3, Fewest
  <2>2. ASSUME NEW u \in C, u \in P[t] PROVE FALSE
    <3>1. t # {} /\ u = t \ {Some(t)}
      BY <2>2
    <3>2. Some(t) \in t
      BY <3>1, SomeIs
    <3> QED BY <2>1, <3>1, <3>2
  <2> QED BY <2>2
<1>4. IsFiniteSet(SUBSET S)
  BY FS_SUBSET
<1>5. PICK g \in [SUBSET S -> Nat] : \A s \in SUBSET S : g[s] = D[s][Highest(g, P[s])]
  <2> DEFINE N == SUBSET S
  <2>1. P \in [N -> SUBSET N] /\ D \in [N -> [Nat -> Nat]] /\ IsFiniteSet(N)
    BY <1>1, <1>2, <1>4
  <2>2. Founded(N, P)
    BY <1>3 DEF Founded
  <2>3. KnownOn(N, P, D, N)
    <3> HIDE DEF P, D, N
    <3> QED BY <2>1, <2>2, ByThoseBefore
  <2> HIDE DEF P, D
  <2> QED BY <2>3 DEF KnownOn
<1>6. ASSUME NEW s \in SUBSET S
      PROVE  g[s] = IF s = {} THEN 0 ELSE c[Some(s)] + g[s \ {Some(s)}]
  <2>1. IsFiniteSet(P[s]) /\ \A u \in P[s] : u \in SUBSET S /\ g[u] \in Nat
    BY <1>1, <1>4, FS_Subset
  <2>2. Highest(g, P[s]) \in Nat
    BY <2>1, HighestIs
  <2>3. CASE s = {}
    BY <1>5, <2>2, <2>3
  <2>4. CASE s # {}
    <3> DEFINE r == s \ {Some(s)}
    <3>1. P[s] = {r} /\ r \in SUBSET S /\ g[r] \in Nat
      BY <2>4
    <3>2. \A u \in {r} : g[u] <= Highest(g, {r})
      BY <2>1, <3>1, HighestIs
    <3>3. Highest(g, {r}) = 0 \/ \E u \in {r} : Highest(g, {r}) = g[u]
      BY <2>1, <3>1, HighestIs
    <3>4. Highest(g, P[s]) = g[r]
      <4> HIDE DEF r, P
      <4> QED BY <2>2, <3>1, <3>2, <3>3
    <3>5. g[s] = D[s][g[r]]
      <4> HIDE DEF D, P, r
      <4> QED BY <1>5, <3>4
    <3> QED BY <2>4, <3>1, <3>5
  <2> QED BY <2>3, <2>4
<1>7. g = [s \in SUBSET S |-> IF s = {} THEN 0 ELSE c[Some(s)] + g[s \ {Some(s)}]]
  <2>1. g = [s \in SUBSET S |-> g[s]]
    OBVIOUS
  <2> QED BY <1>6, <2>1
<1> QED BY <1>7 DEF PartSums

LEMMA IterIs ==
  ASSUME NEW S, IsFiniteSet(S), NEW c, \A x \in S : c[x] \in Nat, NEW s \in SUBSET S
  PROVE  /\ Iter(c, S)[s] \in Nat
         /\ s = {} => Iter(c, S)[s] = 0
         /\ s # {} => Iter(c, S)[s] = c[Some(s)] + Iter(c, S)[s \ {Some(s)}]
<1> DEFINE it == Iter(c, S)
<1>1. PartSums(c, S, it)
  BY PartSumsExist DEF Iter
<1> HIDE DEF it
<1>2. ASSUME NEW t \in SUBSET S
      PROVE  /\ t = {} => it[t] = 0
             /\ t # {} => it[t] = c[Some(t)] + it[t \ {Some(t)}]
  BY <1>1 DEF PartSums
<1> DEFINE Bad == {t \in SUBSET S : it[t] \notin Nat}
<1>3. Bad = {}
  <2> SUFFICES ASSUME Bad # {} PROVE FALSE
    OBVIOUS
  <2>1. Bad \subseteq SUBSET S
    OBVIOUS
  <2>2. PICK t \in Bad : \A u \in Bad : u \subseteq t => u = t
    <3> HIDE DEF Bad
    <3> QED BY <2>1, Fewest
  <2>3. t \in SUBSET S /\ it[t] \notin Nat
    OBVIOUS
  <2>4. t # {}
    <3> SUFFICES ASSUME t = {} PROVE FALSE
      OBVIOUS
    <3>1. it[t] = 0
      BY <1>2, <2>3
    <3> HIDE DEF Bad
    <3> QED BY <2>3, <3>1
  <2>5. Some(t) \in t /\ c[Some(t)] \in Nat
    BY <2>3, <2>4, SomeIs
  <2>6. t \ {Some(t)} \notin Bad
    <3> HIDE DEF Bad
    <3> QED BY <2>2, <2>5
  <2>7. it[t \ {Some(t)}] \in Nat
    BY <2>3, <2>6
  <2> QED BY <1>2, <2>3, <2>4, <2>5, <2>7
<1>4. it[s] \in Nat
  BY <1>3
<1> QED BY <1>2, <1>4 DEF it

LEMMA IterAny ==
  ASSUME NEW S, IsFiniteSet(S), NEW c, \A x \in S : c[x] \in Nat, NEW s \in SUBSET S, NEW y \in s
  PROVE  Iter(c, S)[s] = c[y] + Iter(c, S)[s \ {y}]
<1> DEFINE it == Iter(c, S)
<1>1. \A t \in SUBSET S : /\ it[t] \in Nat
                          /\ t # {} => it[t] = c[Some(t)] + it[t \ {Some(t)}]
  BY IterIs
<1> HIDE DEF it
<1> DEFINE Bad == {t \in SUBSET S : \E z \in t : it[t] # c[z] + it[t \ {z}]}
<1>2. Bad = {}
  <2> SUFFICES ASSUME Bad # {} PROVE FALSE
    OBVIOUS
  <2>1. Bad \subseteq SUBSET S
    OBVIOUS
  <2>2. PICK t \in Bad : \A u \in Bad : u \subseteq t => u = t
    <3> HIDE DEF Bad
    <3> QED BY <2>1, Fewest
  <2>3. PICK z \in t : it[t] # c[z] + it[t \ {z}]
    OBVIOUS
  <2> DEFINE x == Some(t)
  <2>4. t \in SUBSET S /\ x \in t /\ x \in S /\ z \in S
    BY SomeIs
  <2> HIDE DEF x
  <2>5. it[t] = c[x] + it[t \ {x}]
    BY <1>1, <2>4 DEF x
  <2>6. x # z
    BY <2>3, <2>5
  <2>7. t \ {x} \notin Bad /\ t \ {z} \notin Bad
    <3> HIDE DEF Bad
    <3> QED BY <2>2, <2>4
  <2>8. it[t \ {x}] = c[z] + it[(t \ {x}) \ {z}] /\ it[t \ {z}] = c[x] + it[(t \ {z}) \ {x}]
    BY <2>4, <2>6, <2>7
  <2>9. (t \ {x}) \ {z} = (t \ {z}) \ {x} /\ (t \ {z}) \ {x} \in SUBSET S
    BY <2>4
  <2>10. it[(t \ {z}) \ {x}] \in Nat /\ c[x] \in Nat /\ c[z] \in Nat
    BY <1>1, <2>4, <2>9
  <2>11. it[t] = c[z] + it[t \ {z}]
    <3> DEFINE rest == it[(t \ {z}) \ {x}]
    <3>1. it[t] = c[x] + (c[z] + rest) /\ it[t \ {z}] = c[x] + rest
      BY <2>5, <2>8, <2>9
    <3> HIDE DEF rest, Bad
    <3>2. rest \in Nat
      BY <2>10 DEF rest
    <3> QED BY <2>10, <3>1, <3>2
  <2> QED BY <2>3, <2>11
<1> QED BY <1>2 DEF it

LEMMA IterPart ==
  ASSUME NEW S, IsFiniteSet(S), NEW c, \A x \in S : c[x] \in Nat, NEW T \in SUBSET S
  PROVE  Iter(c, T)[T] = Iter(c, S)[T]
<1>0. IsFiniteSet(T) /\ \A x \in T : c[x] \in Nat
  BY FS_Subset
<1> DEFINE it == Iter(c, S)
           jt == Iter(c, T)
<1>1. \A t \in SUBSET S : /\ t = {} => it[t] = 0
                          /\ t # {} => it[t] = c[Some(t)] + it[t \ {Some(t)}]
  BY IterIs
<1>2. \A t \in SUBSET T : /\ t = {} => jt[t] = 0
                          /\ t # {} => jt[t] = c[Some(t)] + jt[t \ {Some(t)}]
  BY <1>0, IterIs
<1> HIDE DEF it, jt
<1> DEFINE Bad == {t \in SUBSET T : it[t] # jt[t]}
<1>3. Bad = {}
  <2> SUFFICES ASSUME Bad # {} PROVE FALSE
    OBVIOUS
  <2>1. Bad \subseteq SUBSET T
    OBVIOUS
  <2>2. PICK t \in Bad : \A u \in Bad : u \subseteq t => u = t
    <3> HIDE DEF Bad
    <3> QED BY <1>0, <2>1, Fewest
  <2>3. t \in SUBSET T /\ t \in SUBSET S
    OBVIOUS
  <2>4. t # {}
    BY <1>1, <1>2, <2>3
  <2>5. Some(t) \in t
    BY <2>4, SomeIs
  <2>6. t \ {Some(t)} \notin Bad
    <3> HIDE DEF Bad
    <3> QED BY <2>2, <2>5
  <2>7. it[t \ {Some(t)}] = jt[t \ {Some(t)}]
    BY <2>3, <2>6
  <2> QED BY <1>1, <1>2, <2>3, <2>4, <2>7
<1> QED BY <1>3 DEF it, jt

LEMMA SumIs ==
  ASSUME NEW S, IsFiniteSet(S), NEW c, \A x \in S : c[x] \in Nat
  PROVE  /\ Sum(c, S) \in Nat
         /\ S = {} => Sum(c, S) = 0
         /\ \A y \in S : Sum(c, S) = c[y] + Sum(c, S \ {y})
<1>1. Sum(c, S) \in Nat /\ (S = {} => Sum(c, S) = 0)
  BY SumIsIter, IterIs
<1>2. ASSUME NEW y \in S PROVE Sum(c, S) = c[y] + Sum(c, S \ {y})
  <2>1. Sum(c, S) = c[y] + Iter(c, S)[S \ {y}]
    BY SumIsIter, IterAny
  <2>2. Iter(c, S \ {y})[S \ {y}] = Iter(c, S)[S \ {y}]
    BY IterPart
  <2> QED BY <2>1, <2>2, SumIsIter
<1> QED BY <1>1, <1>2

LEMMA SumOfTwo ==
  ASSUME NEW A, IsFiniteSet(A), NEW B, IsFiniteSet(B), A \cap B = {},
         NEW c, \A x \in A \cup B : c[x] \in Nat
  PROVE  Sum(c, A \cup B) = Sum(c, A) + Sum(c, B)
<1> DEFINE Bad == {C \in SUBSET B : Sum(c, A \cup C) # Sum(c, A) + Sum(c, C)}
<1>1. Bad = {}
  <2> SUFFICES ASSUME Bad # {} PROVE FALSE
    OBVIOUS
  <2>1. Bad \subseteq SUBSET B
    OBVIOUS
  <2>2. PICK C \in Bad : \A U \in Bad : U \subseteq C => U = C
    <3> HIDE DEF Bad
    <3> QED BY <2>1, Fewest
  <2>3. C \in SUBSET B /\ IsFiniteSet(C) /\ IsFiniteSet(A \cup C)
    BY FS_Subset, FS_Union
  <2>4. Sum(c, A) \in Nat
    BY SumIs
  <2>5. CASE C = {}
    <3>1. A \cup C = A /\ Sum(c, C) = 0
      BY <2>3, <2>5, SumIs
    <3>2. Sum(c, A) = Sum(c, A) + 0
      <4> HIDE DEF Bad
      <4> QED BY <2>4
    <3> QED BY <3>1, <3>2
  <2>6. CASE C # {}
    <3>1. PICK y \in C : TRUE
      BY <2>6
    <3>2. C \ {y} \notin Bad
      <4> HIDE DEF Bad
      <4> QED BY <2>2, <3>1
    <3>3. Sum(c, A \cup (C \ {y})) = Sum(c, A) + Sum(c, C \ {y})
      BY <2>3, <3>2
    <3>4. (A \cup C) \ {y} = A \cup (C \ {y})
      BY <2>3
    <3>5. Sum(c, A \cup C) = c[y] + Sum(c, (A \cup C) \ {y})
      BY <2>3, SumIs
    <3>6. Sum(c, C) = c[y] + Sum(c, C \ {y})
      BY <2>3, SumIs
    <3>7. c[y] \in Nat /\ Sum(c, C \ {y}) \in Nat
      <4>1. IsFiniteSet(C \ {y}) /\ \A x \in C \ {y} : c[x] \in Nat
        BY <2>3, FS_Subset
      <4> QED BY <2>3, <4>1, SumIs
    <3>8. Sum(c, A \cup C) = Sum(c, A) + Sum(c, C)
      <4> DEFINE less == Sum(c, C \ {y})
                 all == Sum(c, A)
      <4>1. /\ Sum(c, A \cup C) = c[y] + (all + less) /\ Sum(c, C) = c[y] + less
            /\ all \in Nat /\ less \in Nat
        BY <2>4, <3>3, <3>4, <3>5, <3>6, <3>7
      <4> HIDE DEF less, all, Bad
      <4>2. Sum(c, A \cup C) = all + Sum(c, C)
        BY <3>7, <4>1
      <4> QED BY <4>2 DEF all
    <3> QED BY <3>8
  <2> QED BY <2>5, <2>6
<1> QED BY <1>1
=============================================================================
