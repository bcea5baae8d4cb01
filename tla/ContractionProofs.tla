--------------------------- MODULE ContractionProofs ---------------------------
(***************************************************************************)
(* Merging keeps the graph of mtasks without a cycle, however the           *)
(* candidates come up, because the cached critical paths stay long enough   *)
(* for the cut search to be exact; and it stays within the limit.  They     *)
(* also stay as short as partCheckCriticalPaths asks of them.               *)
(***************************************************************************)
EXTENDS Contraction, MTaskGraphProofs

-----------------------------------------------------------------------------
(* One merge of a and b, seen in one way: E are the edges in this way, c    *)
(* and c2 the critical paths before and after, s the step costs, i the      *)
(* inclusive cost of the merged mtask.                                      *)

Long(E, c, s) == \A e \in E : c[e[2]] >= c[e[1]] + s[e[1]]

Heard(E, says, t) == Highest(says, {e[1] : e \in {d \in E : d[2] = t}})

\* What the mtasks announce, as PartPropagateCp does.
Spread(N, E, a, b, c, s, i, says) ==
  /\ IsFiniteSet(N) /\ E \in SUBSET (N \X N) /\ HasNoCycle(N, E)
  /\ a \in N /\ b \in N /\ i \in Nat
  /\ c \in [N -> Nat] /\ s \in [N -> Nat] /\ says \in [N -> Nat]
  /\ \A t \in {a, b} : says[t] = IF i > c[t] + s[t] THEN i ELSE 0
  /\ \A t \in N \ {a, b} :
       says[t] = IF Heard(E, says, t) > c[t] THEN Heard(E, says, t) + s[t] ELSE 0

\* The two are not ordered by another path.
Apart(N, E, a, b) == a # b /\ ~Before(N, E, a, b) /\ ~Before(N, E, b, a)

LEMMA MaxOfTwo ==
  ASSUME NEW x \in Nat, NEW y \in Nat
  PROVE  /\ Max({x, y}) \in Nat /\ Max({x, y}) >= x /\ Max({x, y}) >= y
         /\ x >= y => Max({x, y}) = x
         /\ y >= x => Max({x, y}) = y
<1>1. \E z \in {x, y} : \A w \in {x, y} : z >= w
  OBVIOUS
<1>2. Max({x, y}) \in {x, y} /\ \A w \in {x, y} : Max({x, y}) >= w
  BY <1>1 DEF Max
<1> QED BY <1>2

LEMMA HeardIs ==
  ASSUME NEW N, NEW E, NEW a, NEW b, NEW c, NEW s, NEW i, NEW says,
         Spread(N, E, a, b, c, s, i, says), NEW t \in N
  PROVE  /\ Heard(E, says, t) \in Nat
         /\ \A u \in N : <<u, t>> \in E => says[u] <= Heard(E, says, t)
         /\ Heard(E, says, t) = 0 \/ \E u \in N : <<u, t>> \in E /\ Heard(E, says, t) = says[u]
<1>0. IsFiniteSet(N) /\ E \in SUBSET (N \X N) /\ says \in [N -> Nat]
  BY DEF Spread
<1> DEFINE S == {e[1] : e \in {d \in E : d[2] = t}}
<1>1. S = {u \in N : <<u, t>> \in E}
  <2>1. ASSUME NEW u \in S PROVE u \in N /\ <<u, t>> \in E
    <3>1. PICK e \in E : e[2] = t /\ u = e[1]
      OBVIOUS
    <3>2. e = <<e[1], e[2]>> /\ e[1] \in N
      BY <1>0
    <3> QED BY <3>1, <3>2
  <2>2. ASSUME NEW u \in N, <<u, t>> \in E PROVE u \in S
    <3>1. <<u, t>>[1] = u /\ <<u, t>>[2] = t
      OBVIOUS
    <3> QED BY <2>2, <3>1
  <2> QED BY <2>1, <2>2
<1>2. IsFiniteSet(S)
  <2>1. S \subseteq N
    BY <1>1
  <2> HIDE DEF S
  <2> QED BY <1>0, <2>1, FS_Subset
<1>3. \A u \in S : says[u] \in Nat
  BY <1>0, <1>1
<1>4. /\ Highest(says, S) \in Nat
      /\ \A u \in S : says[u] <= Highest(says, S)
      /\ Highest(says, S) = 0 \/ \E u \in S : Highest(says, S) = says[u]
  <2> HIDE DEF S
  <2> QED BY <1>2, <1>3, HighestIs
<1>5. Heard(E, says, t) = Highest(says, S)
  BY DEF Heard
<1> HIDE DEF S
<1> QED BY <1>1, <1>4, <1>5

\* Who announces something is the merged mtask or after it.
LEMMA SaysAfter ==
  ASSUME NEW N, NEW E, NEW a, NEW b, NEW c, NEW s, NEW i, NEW says,
         Spread(N, E, a, b, c, s, i, says),
         NEW t \in N, says[t] > 0
  PROVE  Before(N, E, a, t) \/ Before(N, E, b, t)
<1>0. /\ IsFiniteSet(N) /\ E \in SUBSET (N \X N) /\ HasNoCycle(N, E)
      /\ a \in N /\ b \in N /\ i \in Nat
      /\ c \in [N -> Nat] /\ s \in [N -> Nat] /\ says \in [N -> Nat]
  BY DEF Spread
<1> DEFINE Bad == {u \in N : says[u] > 0 /\ ~Before(N, E, a, u) /\ ~Before(N, E, b, u)}
<1>1. CASE Bad = {}
  BY <1>1
<1>2. CASE Bad # {}
  <2>1. PICK u \in Bad : \A v \in Bad : <<v, u>> \notin E
    <3>1. Bad \in SUBSET N
      OBVIOUS
    <3> HIDE DEF Bad
    <3> QED BY <1>0, <1>2, <3>1 DEF HasNoCycle
  <2>2. u \in N \ {a, b} /\ says[u] > 0
    BY BeforeItself
  <2>3. says \in [N -> Nat] /\ c[u] \in Nat
    BY <1>0, <2>2
  <2>4. Heard(E, says, u) > c[u]
    BY <2>2 DEF Spread
  <2>5. Heard(E, says, u) # 0
    BY <2>3, <2>4
  <2>6. PICK v \in N : <<v, u>> \in E /\ Heard(E, says, u) = says[v]
    <3> HIDE DEF Bad
    <3>1. u \in N
      BY <2>2
    <3>2. Heard(E, says, u) = 0 \/ \E v \in N : <<v, u>> \in E /\ Heard(E, says, u) = says[v]
      BY <3>1, HeardIs
    <3> QED BY <2>5, <3>2
  <2>7. says[v] > 0
    BY <2>3, <2>4, <2>6
  <2>8. Before(N, E, a, v) \/ Before(N, E, b, v)
    BY <2>1, <2>6, <2>7
  <2> QED BY <2>6, <2>8, BeforeStep
<1> QED BY <1>1, <1>2

\* What is before the merged mtask has heard nothing.
LEMMA BeforeMergedSilent ==
  ASSUME NEW N, NEW E, NEW a, NEW b, NEW c, NEW s, NEW i, NEW says,
         Spread(N, E, a, b, c, s, i, says), Apart(N, E, a, b),
         NEW t \in N, NEW o, o \in {a, b}, <<t, o>> \in E
  PROVE  t \notin {a, b} /\ Heard(E, says, t) = 0
<1>0. /\ IsFiniteSet(N) /\ E \in SUBSET (N \X N) /\ HasNoCycle(N, E)
      /\ a \in N /\ b \in N /\ i \in Nat
      /\ c \in [N -> Nat] /\ s \in [N -> Nat] /\ says \in [N -> Nat]
  BY DEF Spread
<1>1. ~Before(N, E, a, t) /\ ~Before(N, E, b, t)
  <2>1. ASSUME NEW p \in {a, b}, Before(N, E, p, t) PROVE FALSE
    <3>1. Before(N, E, p, o)
      BY <2>1, BeforeStep
    <3>2. p = o
      BY <3>1 DEF Apart
    <3>3. Before(N, E, t, o)
      BY BeforeEdge
    <3>4. o \in N /\ Before(N, E, o, t)
      BY <1>0, <2>1, <3>2
    <3>5. t = o
      BY <1>0, <3>3, <3>4, NoWayBack
    <3>6. <<t, t>> \notin E
      BY <1>0, NoLoop
    <3> QED BY <3>5, <3>6
  <2> QED BY <2>1
<1>2. t \notin {a, b}
  BY <1>1, BeforeItself
<1>3. ASSUME Heard(E, says, t) # 0 PROVE FALSE
  <2>2. PICK v \in N : <<v, t>> \in E /\ Heard(E, says, t) = says[v]
    <3>1. Heard(E, says, t) = 0 \/ \E v \in N : <<v, t>> \in E /\ Heard(E, says, t) = says[v]
      BY HeardIs
    <3> QED BY <1>3, <3>1
  <2>3. says[v] > 0
    BY <1>0, <1>3, <2>2
  <2>4. Before(N, E, a, v) \/ Before(N, E, b, v)
    BY <2>3, SaysAfter
  <2> QED BY <1>1, <2>2, <2>4, BeforeStep
<1> QED BY <1>2, <1>3

\* The critical paths of the others after the merge.
Grown(N, E, a, b, c, says, c2) ==
  /\ c2 \in [N -> Nat]
  /\ \A t \in N \ {a, b} : c2[t] = Max({c[t], Heard(E, says, t)})

LEMMA GrownIs ==
  ASSUME NEW N, NEW E, NEW a, NEW b, NEW c, NEW s, NEW i, NEW says, NEW c2,
         Spread(N, E, a, b, c, s, i, says), Grown(N, E, a, b, c, says, c2),
         NEW t \in N \ {a, b}
  PROVE  /\ c2[t] >= c[t] /\ c2[t] >= Heard(E, says, t)
         /\ \/ c2[t] = c[t] /\ says[t] = 0 /\ Heard(E, says, t) <= c[t]
            \/ c2[t] = Heard(E, says, t) /\ Heard(E, says, t) > c[t] /\ says[t] = c2[t] + s[t]
<1>0. /\ IsFiniteSet(N) /\ E \in SUBSET (N \X N) /\ HasNoCycle(N, E)
      /\ a \in N /\ b \in N /\ i \in Nat
      /\ c \in [N -> Nat] /\ s \in [N -> Nat] /\ says \in [N -> Nat]
  BY DEF Spread
<1>2. Heard(E, says, t) \in Nat
  <2>1. t \in N
    OBVIOUS
  <2> QED BY <2>1, HeardIs
<1>3. c2[t] = Max({c[t], Heard(E, says, t)})
  BY DEF Grown
<1>4. says[t] = IF Heard(E, says, t) > c[t] THEN Heard(E, says, t) + s[t] ELSE 0
  BY DEF Spread
<1>5. c[t] \in Nat
  BY <1>0
<1> QED BY <1>2, <1>3, <1>4, <1>5, MaxOfTwo

\* The paths are long enough after the merge as well.
LEMMA GrownLong ==
  ASSUME NEW N, NEW E, NEW a, NEW b, NEW c, NEW s, NEW i, NEW says, NEW c2,
         Spread(N, E, a, b, c, s, i, says), Apart(N, E, a, b), Grown(N, E, a, b, c, says, c2),
         Long(E, c, s), NEW x \in N, NEW y \in N, <<x, y>> \in E
  PROVE  /\ x \notin {a, b} \/ y \notin {a, b}
         /\ x \notin {a, b} /\ y \notin {a, b} => c2[y] >= c2[x] + s[x]
         /\ x \in {a, b} => c2[y] >= i /\ (says[x] = i \/ i <= c[x] + s[x])
         /\ y \in {a, b} => c2[x] = c[x]
         /\ x \notin {a, b} => c2[x] = c[x] \/ says[x] = c2[x] + s[x]
<1>0. /\ IsFiniteSet(N) /\ E \in SUBSET (N \X N) /\ HasNoCycle(N, E)
      /\ a \in N /\ b \in N /\ i \in Nat
      /\ c \in [N -> Nat] /\ s \in [N -> Nat] /\ says \in [N -> Nat]
  BY DEF Spread
<1>1. /\ c[x] \in Nat /\ c[y] \in Nat /\ s[x] \in Nat
      /\ says[x] \in Nat /\ c2[x] \in Nat /\ c2[y] \in Nat
  BY <1>0 DEF Grown
<1>2. c[y] >= c[x] + s[x]
  <2>1. c[<<x, y>>[2]] >= c[<<x, y>>[1]] + s[<<x, y>>[1]]
    BY DEF Long
  <2> QED BY <2>1
<1>3. y \in {a, b} => x \notin {a, b} /\ Heard(E, says, x) = 0
  <2> SUFFICES ASSUME y \in {a, b} PROVE x \notin {a, b} /\ Heard(E, says, x) = 0
    OBVIOUS
  <2> QED BY BeforeMergedSilent
<1>4. y \notin {a, b} => c2[y] >= c[y] /\ c2[y] >= Heard(E, says, y)
  BY GrownIs
<1>5. says[x] <= Heard(E, says, y) /\ Heard(E, says, y) \in Nat
  BY HeardIs
<1>6. x \notin {a, b} => \/ c2[x] = c[x]
                         \/ c2[x] = Heard(E, says, x) /\ says[x] = c2[x] + s[x]
                            /\ Heard(E, says, x) > c[x]
  <2> SUFFICES ASSUME x \in N \ {a, b}
               PROVE  \/ c2[x] = c[x] /\ says[x] = 0 /\ Heard(E, says, x) <= c[x]
                      \/ /\ c2[x] = Heard(E, says, x) /\ Heard(E, says, x) > c[x]
                         /\ says[x] = c2[x] + s[x]
    OBVIOUS
  <2> QED BY GrownIs
<1>7. x \in {a, b} => says[x] = IF i > c[x] + s[x] THEN i ELSE 0
  BY DEF Spread
<1>8. x \notin {a, b} /\ y \notin {a, b} => c2[y] >= c2[x] + s[x]
  BY <1>1, <1>2, <1>4, <1>5, <1>6
<1>9. x \in {a, b} => c2[y] >= i /\ (says[x] = i \/ i <= c[x] + s[x])
  BY <1>0, <1>1, <1>2, <1>3, <1>4, <1>5, <1>7
<1>10. y \in {a, b} => c2[x] = c[x]
  BY <1>1, <1>3, <1>6
<1> QED BY <1>3, <1>6, <1>8, <1>9, <1>10

\* Whatever grows does so along a path from the merged mtask, so that no path
\* through it is longer than the one through the merged mtask.  (cr and m are
\* the critical paths in the other way, after the merge.)
LEMMA GrownWithin ==
  ASSUME NEW N, NEW E, NEW a, NEW b, NEW c, NEW s, NEW i, NEW says, NEW c2,
         Spread(N, E, a, b, c, s, i, says), Grown(N, E, a, b, c, says, c2),
         NEW cr \in [N -> Nat], NEW m \in Nat,
         \A x, y \in N \ {a, b} : <<x, y>> \in E => cr[x] >= cr[y] + s[y],
         \A x \in {a, b}, y \in N \ {a, b} : <<x, y>> \in E => m >= cr[y] + s[y],
         NEW t \in N \ {a, b}, c2[t] # c[t]
  PROVE  c2[t] + s[t] + cr[t] <= i + m
<1>0. /\ IsFiniteSet(N) /\ E \in SUBSET (N \X N) /\ HasNoCycle(N, E)
      /\ a \in N /\ b \in N /\ i \in Nat
      /\ c \in [N -> Nat] /\ s \in [N -> Nat] /\ says \in [N -> Nat]
  BY DEF Spread
<1>1. c2 \in [N -> Nat]
  BY DEF Grown
<1> DEFINE Bad == {u \in N \ {a, b} : c2[u] # c[u] /\ ~(c2[u] + s[u] + cr[u] <= i + m)}
<1>2. CASE Bad = {}
  BY <1>2
<1>3. CASE Bad # {}
  <2>1. PICK u \in Bad : \A v \in Bad : <<v, u>> \notin E
    <3>1. Bad \in SUBSET N
      OBVIOUS
    <3> HIDE DEF Bad
    <3> QED BY <1>0, <1>3, <3>1 DEF HasNoCycle
  <2>2. u \in N \ {a, b} /\ c2[u] # c[u] /\ ~(c2[u] + s[u] + cr[u] <= i + m)
    OBVIOUS
  <2>3. c2[u] = Heard(E, says, u) /\ Heard(E, says, u) > c[u]
    <3> HIDE DEF Bad
    <3>1. u \in N \ {a, b}
      BY <2>2
    <3>2. \/ c2[u] = c[u] /\ says[u] = 0 /\ Heard(E, says, u) <= c[u]
          \/ c2[u] = Heard(E, says, u) /\ Heard(E, says, u) > c[u] /\ says[u] = c2[u] + s[u]
      BY <3>1, GrownIs
    <3> QED BY <2>2, <3>2
  <2>4. Heard(E, says, u) # 0
    <3> HIDE DEF Bad
    <3>1. c[u] \in Nat
      BY <1>0, <2>2
    <3> QED BY <2>3, <3>1
  <2>5. PICK v \in N : <<v, u>> \in E /\ Heard(E, says, u) = says[v]
    <3> HIDE DEF Bad
    <3>1. u \in N
      BY <2>2
    <3>2. Heard(E, says, u) = 0 \/ \E v \in N : <<v, u>> \in E /\ Heard(E, says, u) = says[v]
      BY ONLY Spread(N, E, a, b, c, s, i, says), <3>1, HeardIs
    <3> QED BY <2>4, <3>2
  <2>6. /\ c2[u] \in Nat /\ s[u] \in Nat /\ cr[u] \in Nat /\ says[v] \in Nat
        /\ c2[v] \in Nat /\ s[v] \in Nat /\ cr[v] \in Nat
    BY <1>0, <1>1, <2>2
  <2>7. CASE v \in {a, b}
    <3>1. says[v] = i
      <4>1. says[v] = IF i > c[v] + s[v] THEN i ELSE 0
        BY <2>7 DEF Spread
      <4> QED BY <2>4, <2>5, <4>1
    <3>2. m >= cr[u] + s[u]
      BY <2>2, <2>5, <2>7
    <3> HIDE DEF Bad
    <3> QED BY <1>0, <2>2, <2>3, <2>5, <2>6, <3>1, <3>2
  <2>8. CASE v \notin {a, b}
    <3>1. says[v] = c2[v] + s[v] /\ c2[v] # c[v]
      <4>1. says[v] # 0 /\ c[v] \in Nat
        BY <1>0, <2>4, <2>5
      <4>2. \/ c2[v] = c[v] /\ says[v] = 0
            \/ c2[v] = Heard(E, says, v) /\ Heard(E, says, v) > c[v] /\ says[v] = c2[v] + s[v]
        <5> HIDE DEF Bad
        <5>1. v \in N \ {a, b}
          BY <2>8
        <5> QED BY <5>1, GrownIs
      <4> HIDE DEF Bad
      <4> QED BY <2>6, <4>1, <4>2
    <3>2. c2[v] + s[v] + cr[v] <= i + m
      BY <2>1, <2>5, <2>8, <3>1
    <3>3. cr[v] >= cr[u] + s[u]
      BY <2>2, <2>5, <2>8
    <3> HIDE DEF Bad
    <3> QED BY <1>0, <2>2, <2>3, <2>5, <2>6, <3>1, <3>2, <3>3
  <2> QED BY <2>7, <2>8
<1> QED BY <1>2, <1>3

-----------------------------------------------------------------------------
(* The edges in a way.                                                      *)

Ahead(E, way) == {<<Near(way, e), Far(way, e)>> : e \in E}

LEMMA AheadIs ==
  ASSUME NEW N, NEW E \in SUBSET (N \X N), NEW way
  PROVE  /\ Ahead(E, way) \in SUBSET (N \X N)
         /\ \A e \in E : /\ <<Near(way, e), Far(way, e)>> \in Ahead(E, way)
                         /\ Near(way, e) \in N /\ Far(way, e) \in N
         /\ \A x, y : <<x, y>> \in Ahead(E, way)
                        => \E e \in E : Near(way, e) = x /\ Far(way, e) = y
<1>1. \A e \in E : Near(way, e) \in N /\ Far(way, e) \in N
  BY DEF Near, Far
<1>2. \A e \in E : <<Near(way, e), Far(way, e)>> \in Ahead(E, way)
  BY DEF Ahead
<1>3. ASSUME NEW x, NEW y, <<x, y>> \in Ahead(E, way)
      PROVE  \E e \in E : Near(way, e) = x /\ Far(way, e) = y
  BY <1>3 DEF Ahead
<1>4. Ahead(E, way) \in SUBSET (N \X N)
  BY <1>1 DEF Ahead
<1> QED BY <1>1, <1>2, <1>3, <1>4

LEMMA AheadForward ==
  ASSUME NEW N, NEW E \in SUBSET (N \X N)
  PROVE  Ahead(E, "FORWARD") = E
<1>1. \A e \in E : e = <<e[1], e[2]>>
  OBVIOUS
<1>2. \A e : Near("FORWARD", e) = e[1] /\ Far("FORWARD", e) = e[2]
  BY DEF Near, Far
<1> QED BY <1>1, <1>2 DEF Ahead

LEMMA AheadReverse ==
  ASSUME NEW N, NEW E \in SUBSET (N \X N), NEW x, NEW y
  PROVE  <<x, y>> \in Ahead(E, "REVERSE") <=> <<y, x>> \in E
<1>1. \A e : Near("REVERSE", e) = e[2] /\ Far("REVERSE", e) = e[1]
  BY DEF Near, Far
<1>2. \A e \in E : e = <<e[1], e[2]>>
  OBVIOUS
<1>3. Ahead(E, "REVERSE") = {<<e[2], e[1]>> : e \in E}
  BY <1>1 DEF Ahead
<1>4. ASSUME <<x, y>> \in Ahead(E, "REVERSE") PROVE <<y, x>> \in E
  <2>1. PICK e \in E : <<x, y>> = <<e[2], e[1]>>
    BY <1>3, <1>4
  <2>2. x = e[2] /\ y = e[1]
    BY <2>1
  <2> QED BY <1>2, <2>2
<1>5. ASSUME <<y, x>> \in E PROVE <<x, y>> \in Ahead(E, "REVERSE")
  <2>1. <<y, x>>[1] = y /\ <<y, x>>[2] = x
    OBVIOUS
  <2> QED BY <1>3, <1>5, <2>1
<1> QED BY <1>4, <1>5

LEMMA AheadNoCycle ==
  ASSUME NEW N, IsFiniteSet(N), NEW E \in SUBSET (N \X N), HasNoCycle(N, E), NEW way \in Ways
  PROVE  HasNoCycle(N, Ahead(E, way))
<1>1. CASE way = "FORWARD"
  BY <1>1, AheadForward
<1>2. CASE way = "REVERSE"
  <2> SUFFICES ASSUME NEW S \in SUBSET N, S # {}
               PROVE  \E t \in S : \A u \in S : <<u, t>> \notin Ahead(E, way)
    BY DEF HasNoCycle
  <2>1. PICK t \in S : \A u \in S : <<t, u>> \notin E
    BY SomeLast
  <2> QED BY <1>2, <2>1, AheadReverse
<1> QED BY <1>1, <1>2 DEF Ways

\* What is after another in one way is before it in the other.
LEMMA BeforeReverse ==
  ASSUME NEW N, NEW E \in SUBSET (N \X N), NEW x \in N, NEW y \in N,
         Before(N, Ahead(E, "REVERSE"), x, y)
  PROVE  Before(N, E, y, x)
<1> SUFFICES ASSUME NEW U \in SUBSET N, y \in U, \A e \in E : e[1] \in U => e[2] \in U, x \notin U
             PROVE  FALSE
  BY DEF Before
<1>1. ASSUME NEW e \in Ahead(E, "REVERSE"), e[1] \in N \ U PROVE e[2] \in N \ U
  <2>0. Ahead(E, "REVERSE") \in SUBSET (N \X N)
    BY AheadIs
  <2>1. e = <<e[1], e[2]>> /\ e[2] \in N
    BY <2>0
  <2>2. <<e[2], e[1]>> \in E
    <3>1. <<e[1], e[2]>> \in Ahead(E, "REVERSE")
      BY <2>1
    <3> QED BY <3>1, AheadReverse
  <2>3. <<e[2], e[1]>>[1] \in U => <<e[2], e[1]>>[2] \in U
    BY <2>2
  <2> QED BY <1>1, <2>1, <2>3
<1>2. N \ U \in SUBSET N /\ x \in N \ U
  OBVIOUS
<1>3. y \in N \ U
  BY <1>1, <1>2 DEF Before
<1> QED BY <1>3

LEMMA AheadApart ==
  ASSUME NEW N, NEW E \in SUBSET (N \X N), NEW a \in N, NEW b \in N, Apart(N, E, a, b),
         NEW way \in Ways
  PROVE  Apart(N, Ahead(E, way), a, b)
<1>1. CASE way = "FORWARD"
  BY <1>1, AheadForward
<1>2. CASE way = "REVERSE"
  BY <1>2, BeforeReverse DEF Apart
<1> QED BY <1>1, <1>2 DEF Ways

LEMMA EarlierIs ==
  ASSUME NEW E, NEW way, NEW t
  PROVE  Earlier(E, way, t) = {e[1] : e \in {d \in Ahead(E, way) : d[2] = t}}
<1>1. ASSUME NEW x \in Earlier(E, way, t)
      PROVE  x \in {e[1] : e \in {d \in Ahead(E, way) : d[2] = t}}
  <2>1. PICK d \in E : Far(way, d) = t /\ x = Near(way, d)
    BY DEF Earlier
  <2>2. <<x, t>> \in Ahead(E, way)
    BY <2>1 DEF Ahead
  <2>3. <<x, t>>[1] = x /\ <<x, t>>[2] = t
    OBVIOUS
  <2> QED BY <2>2, <2>3
<1>2. ASSUME NEW x \in {e[1] : e \in {d \in Ahead(E, way) : d[2] = t}}
      PROVE  x \in Earlier(E, way, t)
  <2>1. PICK e \in Ahead(E, way) : e[2] = t /\ x = e[1]
    OBVIOUS
  <2>2. PICK d \in E : e = <<Near(way, d), Far(way, d)>>
    BY DEF Ahead
  <2>3. Far(way, d) = t /\ x = Near(way, d)
    BY <2>1, <2>2
  <2> QED BY <2>3 DEF Earlier
<1> QED BY <1>1, <1>2

LEMMA HeardHighest ==
  ASSUME NEW E, NEW way, NEW says, NEW t
  PROVE  Highest(says, Earlier(E, way, t)) = Heard(Ahead(E, way), says, t)
BY EarlierIs DEF Heard

\* Values defined from the highest before them.
LEMMA AheadFounded ==
  ASSUME NEW N, IsFiniteSet(N), NEW E \in SUBSET (N \X N), HasNoCycle(N, E), NEW way \in Ways
  PROVE  /\ [t \in N |-> Earlier(E, way, t)] \in [N -> SUBSET N]
         /\ Founded(N, [t \in N |-> Earlier(E, way, t)])
<1>1. Ahead(E, way) \in SUBSET (N \X N) /\ HasNoCycle(N, Ahead(E, way))
  BY AheadIs, AheadNoCycle
<1>2. ASSUME NEW u, NEW t, u \in Earlier(E, way, t) PROVE u \in N /\ <<u, t>> \in Ahead(E, way)
  <2>1. PICK e \in Ahead(E, way) : e[2] = t /\ u = e[1]
    BY <1>2, EarlierIs
  <2>2. e = <<e[1], e[2]>> /\ e[1] \in N
    BY <1>1
  <2> QED BY <2>1, <2>2
<1>3. \A t \in N : Earlier(E, way, t) \in SUBSET N
  BY <1>2
<1>4. ASSUME NEW S \in SUBSET N, S # {}
      PROVE  \E t \in S : \A u \in S : u \notin [v \in N |-> Earlier(E, way, v)][t]
  <2>1. PICK t \in S : \A u \in S : <<u, t>> \notin Ahead(E, way)
    BY <1>1, <1>4 DEF HasNoCycle
  <2>2. \A u \in S : u \notin Earlier(E, way, t)
    BY <1>2, <2>1
  <2>3. t \in N
    OBVIOUS
  <2> QED BY <2>2, <2>3
<1> QED BY <1>3, <1>4 DEF Founded

LEMMA ThoseBeforeNat ==
  ASSUME NEW N, IsFiniteSet(N), NEW P \in [N -> SUBSET N], Founded(N, P), NEW f,
         \A t \in N : Highest(f, P[t]) \in Nat => f[t] \in Nat,
         NEW t \in N
  PROVE  f[t] \in Nat /\ Highest(f, P[t]) \in Nat
<1> DEFINE Bad == {u \in N : f[u] \notin Nat}
<1>1. ASSUME NEW v \in N, \A u \in P[v] : f[u] \in Nat PROVE Highest(f, P[v]) \in Nat
  <2>1. IsFiniteSet(P[v])
    BY FS_Subset
  <2> QED BY <1>1, <2>1, HighestIs
<1>2. CASE Bad # {}
  <2>0. Bad \in SUBSET N
    OBVIOUS
  <2>1. PICK v \in Bad : \A u \in Bad : u \notin P[v]
    <3> HIDE DEF Bad
    <3> QED BY <1>2, <2>0 DEF Founded
  <2>2. v \in N /\ f[v] \notin Nat
    OBVIOUS
  <2>3. \A u \in P[v] : f[u] \in Nat
    BY <2>1, <2>2
  <2> HIDE DEF Bad
  <2> QED BY <1>1, <2>2, <2>3
<1>3. CASE Bad = {}
  <2>1. \A u \in N : f[u] \in Nat
    BY <1>3
  <2>2. \A u \in P[t] : f[u] \in Nat
    BY <2>1
  <2> QED BY <1>1, <2>1, <2>2
<1> QED BY <1>2, <1>3

LEMMA ThoseBeforeSame ==
  ASSUME NEW N, NEW P \in [N -> SUBSET N], Founded(N, P), NEW f, NEW g,
         \A t \in N : Highest(f, P[t]) = Highest(g, P[t]) => f[t] = g[t],
         NEW t \in N
  PROVE  f[t] = g[t]
<1> DEFINE Bad == {u \in N : f[u] # g[u]}
<1>1. CASE Bad # {}
  <2>0. Bad \in SUBSET N
    OBVIOUS
  <2>1. PICK v \in Bad : \A u \in Bad : u \notin P[v]
    <3> HIDE DEF Bad
    <3> QED BY <1>1, <2>0 DEF Founded
  <2>2. v \in N /\ f[v] # g[v]
    OBVIOUS
  <2>3. \A u \in P[v] : f[u] = g[u]
    BY <2>1, <2>2
  <2>4. Highest(f, P[v]) = Highest(g, P[v])
    BY <2>3, HighestSame
  <2> HIDE DEF Bad
  <2> QED BY <2>2, <2>4
<1>2. CASE Bad = {}
  BY <1>2
<1> QED BY <1>1, <1>2

-----------------------------------------------------------------------------
(* Costs.                                                                   *)

LEMMA StepCostType == ASSUME NEW n \in Nat PROVE StepCost(n) \in Nat
<1> DEFINE enough == {s \in Steps : s >= n}
<1>1. CASE enough = {}
  BY <1>1 DEF StepCost
<1>2. CASE enough # {}
  <2>1. enough \subseteq Nat
    BY ContractionAssumption DEF ContractionAssumption
  <2> DEFINE f == [x \in enough |-> x]
  <2>2. f \in [enough -> Nat]
    BY <2>1
  <2>3. PICK x \in enough : \A y \in enough : f[x] <= f[y]
    <3> HIDE DEF f, enough
    <3> QED BY <1>2, <2>2, LeastRank
  <2>4. \A y \in enough : x <= y
    BY <2>3
  <2>5. Min(enough) \in enough
    <3> HIDE DEF enough
    <3> QED BY <2>4 DEF Min
  <2>6. StepCost(n) = Min(enough)
    BY <1>2 DEF StepCost
  <2> HIDE DEF enough
  <2> QED BY <2>1, <2>5, <2>6
<1> QED BY <1>1, <1>2

CostOf(g, m, t) == Sum(g.cost, {l \in g.tasks : m[l] = t})

StepOf(g, m) == [t \in Logic |-> StepCost(CostOf(g, m, t))]

LEMMA CostIsCostOf == ASSUME NEW m, NEW t PROVE CostIn(m, t) = CostOf(graph, m, t)
BY DEF CostIn, CostOf, Sum

LEMMA CostType ==
  ASSUME NEW g \in Graphs, NEW m, NEW t
  PROVE  CostOf(g, m, t) \in Nat /\ StepCost(CostOf(g, m, t)) \in Nat
<1> DEFINE S == {l \in g.tasks : m[l] = t}
<1>1. g.tasks \in SUBSET Logic /\ g.cost \in [Logic -> Nat]
  BY DEF Graphs
<1>2. S \subseteq Logic
  BY <1>1
<1>3. IsFiniteSet(S) /\ \A x \in S : g.cost[x] \in Nat
  <2> HIDE DEF S
  <2> QED BY <1>1, <1>2, LogicAssumption, FS_Subset DEF LogicAssumption
<1>4. Sum(g.cost, S) \in Nat
  <2> HIDE DEF S
  <2> QED BY <1>3, SumIs
<1> QED BY <1>4, StepCostType DEF CostOf

Moved(m, d, r) == [l \in Logic |-> IF m[l] = d THEN r ELSE m[l]]

LEMMA CostMerged ==
  ASSUME NEW g \in Graphs, NEW m \in [Logic -> Logic], NEW r \in Logic, NEW d \in Logic, r # d,
         NEW m2, m2 = Moved(m, d, r)
  PROVE  /\ CostOf(g, m2, r) = CostOf(g, m, r) + CostOf(g, m, d)
         /\ \A t : t # r /\ t # d => CostOf(g, m2, t) = CostOf(g, m, t)
<1>0. m2 = [l \in Logic |-> IF m[l] = d THEN r ELSE m[l]]
  BY DEF Moved
<1> DEFINE In(n, t) == {l \in g.tasks : n[l] = t}
<1>1. g.tasks \in SUBSET Logic /\ g.cost \in [Logic -> Nat]
  BY DEF Graphs
<1>2. In(m2, r) = In(m, r) \cup In(m, d) /\ In(m, r) \cap In(m, d) = {}
  BY <1>0, <1>1
<1>3. \A t : t # r /\ t # d => In(m2, t) = In(m, t)
  BY <1>0, <1>1
<1>4. In(m, r) \subseteq Logic /\ In(m, d) \subseteq Logic
  BY <1>1
<1>5. /\ IsFiniteSet(In(m, r)) /\ IsFiniteSet(In(m, d))
      /\ \A x \in In(m, r) \cup In(m, d) : g.cost[x] \in Nat
  <2> HIDE DEF In
  <2> QED BY <1>1, <1>4, LogicAssumption, FS_Subset DEF LogicAssumption
<1>6. Sum(g.cost, In(m, r) \cup In(m, d)) = Sum(g.cost, In(m, r)) + Sum(g.cost, In(m, d))
  <2> HIDE DEF In
  <2> QED BY <1>2, <1>5, SumOfTwo
<1>7. \A n, t : CostOf(g, n, t) = Sum(g.cost, In(n, t))
  BY DEF CostOf
<1> HIDE DEF In
<1> QED BY <1>2, <1>3, <1>6, <1>7

\* Every task an mtask: the cost of one is that of its logic.
LEMMA CostAlone ==
  ASSUME NEW g \in Graphs, NEW m, m = [l \in Logic |-> l], NEW t \in g.tasks
  PROVE  CostOf(g, m, t) = g.cost[t]
<1>1. g.tasks \in SUBSET Logic /\ g.cost \in [Logic -> Nat]
  BY DEF Graphs
<1>2. {l \in g.tasks : m[l] = t} = {t}
  BY <1>1
<1>3. IsFiniteSet({t}) /\ \A x \in {t} : g.cost[x] \in Nat
  BY <1>1, FS_Singleton
<1>4. Sum(g.cost, {t}) = g.cost[t] + Sum(g.cost, {t} \ {t})
  BY <1>3, SumIs
<1>5. IsFiniteSet({t} \ {t}) /\ {t} \ {t} = {}
  BY FS_EmptySet
<1>6. Sum(g.cost, {t} \ {t}) = 0
  BY <1>5, SumIs
<1>7. g.cost[t] \in Nat
  BY <1>1
<1>8. Sum(g.cost, {t}) = g.cost[t]
  <2> DEFINE n == g.cost[t]
  <2>1. n \in Nat /\ Sum(g.cost, {t}) = n + 0
    BY <1>4, <1>6, <1>7
  <2> HIDE DEF n
  <2>2. Sum(g.cost, {t}) = n
    BY <2>1
  <2> QED BY <2>2 DEF n
<1> QED BY <1>2, <1>8 DEF CostOf

-----------------------------------------------------------------------------
(* The recursive definitions.                                               *)

IsPath(way, E, step, path) ==
  path = [t \in Logic |-> Max({0} \cup {path[u] + step[u] : u \in Earlier(E, way, t)})]

Inclusive(path, step) == [u \in Logic |-> path[u] + step[u]]

LEMMA PathExists ==
  ASSUME NEW E \in SUBSET (Logic \X Logic), HasNoCycle(Logic, E), NEW way \in Ways,
         NEW step \in [Logic -> Nat]
  PROVE  IsPath(way, E, step, CriticalPath(way, E, step))
<1> DEFINE P == [t \in Logic |-> Earlier(E, way, t)]
           D == [t \in Logic |-> [h \in Nat |-> h + step[t]]]
<1>0. IsFiniteSet(Logic)
  BY LogicAssumption DEF LogicAssumption
<1>1. P \in [Logic -> SUBSET Logic] /\ Founded(Logic, P)
  BY <1>0, AheadFounded
<1>2. D \in [Logic -> [Nat -> Nat]]
  OBVIOUS
<1>3. PICK g \in [Logic -> Nat] : \A t \in Logic : g[t] = D[t][Highest(g, P[t])]
  <2>1. KnownOn(Logic, P, D, Logic)
    <3> HIDE DEF P, D
    <3> QED BY <1>0, <1>1, <1>2, ByThoseBefore
  <2> QED BY <2>1 DEF KnownOn
<1>4. \A t \in Logic : Highest(g, P[t]) \in Nat
  <2> SUFFICES ASSUME NEW t \in Logic PROVE Highest(g, P[t]) \in Nat
    OBVIOUS
  <2> HIDE DEF P
  <2>1. IsFiniteSet(P[t]) /\ \A u \in P[t] : g[u] \in Nat
    BY <1>0, <1>1, FS_Subset
  <2> QED BY <2>1, HighestIs
<1>5. \A t \in Logic : g[t] = Highest(g, P[t]) + step[t]
  BY <1>3, <1>4
<1> DEFINE path == [t \in Logic |-> Highest(g, P[t])]
<1>6. ASSUME NEW t \in Logic
      PROVE  path[t] = Max({0} \cup {path[u] + step[u] : u \in Earlier(E, way, t)})
  <2>1. Earlier(E, way, t) = P[t] /\ P[t] \subseteq Logic
    BY <1>1
  <2>2. \A u \in P[t] : path[u] + step[u] = g[u]
    BY <1>5, <2>1
  <2>3. {path[u] + step[u] : u \in P[t]} = {g[u] : u \in P[t]}
    <3> HIDE DEF path, P
    <3> QED BY <2>2
  <2>4. path[t] = Highest(g, P[t])
    OBVIOUS
  <2> HIDE DEF path, P
  <2> QED BY <2>1, <2>3, <2>4 DEF Highest
<1>7. IsPath(way, E, step, path)
  BY <1>6 DEF IsPath
<1>8. CriticalPath(way, E, step) = CHOOSE q : IsPath(way, E, step, q)
  BY DEF CriticalPath, IsPath
<1> HIDE DEF path
<1> QED BY <1>7, <1>8

\* What a critical path is made of.
IsLongestBefore(N, E, c, s) ==
  \A t \in N : c[t] = 0 \/ \E u \in N : <<u, t>> \in E /\ c[t] = c[u] + s[u]

LEMMA CriticalPathIs ==
  ASSUME NEW E \in SUBSET (Logic \X Logic), HasNoCycle(Logic, E), NEW way \in Ways,
         NEW step \in [Logic -> Nat], NEW path, path = CriticalPath(way, E, step)
  PROVE  /\ path \in [Logic -> Nat]
         /\ Long(Ahead(E, way), path, step)
         /\ IsLongestBefore(Logic, Ahead(E, way), path, step)
         /\ \A t \in Logic :
              /\ path[t] = Highest(Inclusive(path, step), Earlier(E, way, t))
              /\ path[t] = 0 \/ \E u \in Logic : /\ <<u, t>> \in Ahead(E, way)
                                                /\ path[t] = path[u] + step[u]
<1> DEFINE P == [t \in Logic |-> Earlier(E, way, t)]
           inc == Inclusive(path, step)
<1>0. IsFiniteSet(Logic)
  BY LogicAssumption DEF LogicAssumption
<1>1. P \in [Logic -> SUBSET Logic] /\ Founded(Logic, P)
  BY <1>0, AheadFounded
<1>2. path = [t \in Logic |-> Max({0} \cup {path[u] + step[u] : u \in Earlier(E, way, t)})]
  BY PathExists DEF IsPath
<1>3. ASSUME NEW t \in Logic PROVE path[t] = Highest(inc, P[t])
  <2>1. path[t] = Max({0} \cup {path[u] + step[u] : u \in P[t]})
    BY <1>2
  <2>2. P[t] \subseteq Logic
    BY <1>1
  <2>3. {path[u] + step[u] : u \in P[t]} = {inc[u] : u \in P[t]}
    <3>1. \A u \in P[t] : inc[u] = path[u] + step[u]
      BY <2>2 DEF Inclusive
    <3> HIDE DEF inc, P
    <3> QED BY <3>1
  <2> QED BY <2>1, <2>3 DEF Highest
<1>4. ASSUME NEW t \in Logic PROVE inc[t] \in Nat /\ path[t] \in Nat
  <2>1. \A u \in Logic : Highest(inc, P[u]) \in Nat => inc[u] \in Nat
    BY <1>3 DEF Inclusive
  <2>2. inc[t] \in Nat /\ Highest(inc, P[t]) \in Nat
    <3> HIDE DEF P, inc
    <3> QED BY <1>0, <1>1, <2>1, ThoseBeforeNat
  <2> QED BY <1>3, <2>2
<1>5. path \in [Logic -> Nat]
  BY <1>2, <1>4
<1>6. ASSUME NEW t \in Logic
      PROVE  /\ \A u \in Earlier(E, way, t) : inc[u] <= path[t]
             /\ path[t] = 0 \/ \E u \in Earlier(E, way, t) : path[t] = inc[u]
  <2>1. IsFiniteSet(P[t]) /\ P[t] = Earlier(E, way, t) /\ P[t] \subseteq Logic
    BY <1>0, <1>1, FS_Subset
  <2>2. \A u \in P[t] : inc[u] \in Nat
    BY <1>4, <2>1
  <2>3. /\ \A u \in P[t] : inc[u] <= Highest(inc, P[t])
        /\ Highest(inc, P[t]) = 0 \/ \E u \in P[t] : Highest(inc, P[t]) = inc[u]
    <3> HIDE DEF P, inc
    <3> QED BY <2>1, <2>2, HighestIs
  <2> HIDE DEF P, inc
  <2> QED BY <1>3, <2>1, <2>3
<1>7. \A u \in Logic : inc[u] = path[u] + step[u]
  BY DEF Inclusive
<1>8. ASSUME NEW u, NEW t PROVE <<u, t>> \in Ahead(E, way) <=> u \in Earlier(E, way, t)
  <2>1. Ahead(E, way) = {<<Near(way, e), Far(way, e)>> : e \in E}
    BY DEF Ahead
  <2>2. <<u, t>> \in Ahead(E, way) <=> \E e \in E : u = Near(way, e) /\ t = Far(way, e)
    BY <2>1
  <2> QED BY <2>2 DEF Earlier
<1>9. Long(Ahead(E, way), path, step)
  <2> SUFFICES ASSUME NEW e \in Ahead(E, way) PROVE path[e[2]] >= path[e[1]] + step[e[1]]
    BY DEF Long
  <2>1. e = <<e[1], e[2]>> /\ e[1] \in Logic /\ e[2] \in Logic
    <3>1. Ahead(E, way) \in SUBSET (Logic \X Logic)
      BY AheadIs
    <3> QED BY <3>1
  <2>2. e[1] \in Earlier(E, way, e[2])
    BY <1>8, <2>1
  <2>3. inc[e[1]] <= path[e[2]]
    BY <1>6, <2>1, <2>2
  <2>4. path[e[1]] + step[e[1]] <= path[e[2]] /\ path[e[2]] \in Nat /\ path[e[1]] \in Nat
        /\ step[e[1]] \in Nat
    BY <1>5, <1>7, <2>1, <2>3
  <2> HIDE DEF inc, P
  <2> QED BY <2>4
<1>10. ASSUME NEW t \in Logic
       PROVE  path[t] = 0 \/ \E u \in Logic : /\ <<u, t>> \in Ahead(E, way)
                                             /\ path[t] = path[u] + step[u]
  <2>1. Earlier(E, way, t) \subseteq Logic
    BY <1>1
  <2> HIDE DEF inc, P
  <2> QED BY <1>6, <1>7, <1>8, <2>1
<1>11. \A t \in Logic : path[t] = Highest(inc, Earlier(E, way, t))
  BY <1>3
<1>12. IsLongestBefore(Logic, Ahead(E, way), path, step)
  BY <1>10 DEF IsLongestBefore
<1> HIDE DEF P
<1> QED BY <1>5, <1>9, <1>10, <1>11, <1>12

IsAnnounced(E, way, from, top, told, inclusive, says) ==
  says = [t \in Logic |->
    IF t \in {from, top} THEN (IF t \in told THEN inclusive ELSE 0)
    ELSE LET heard == Highest(says, Earlier(E, way, t))
         IN IF heard > cp[way][t] THEN heard + stepCost(t) ELSE 0]

LEMMA StepOfIs ==
  ASSUME graph \in Graphs
  PROVE  /\ StepOf(graph, mtask) \in [Logic -> Nat]
         /\ \A t \in Logic : StepOf(graph, mtask)[t] = stepCost(t) /\ stepCost(t) \in Nat
         /\ \A t \in Logic : cost(t) = CostOf(graph, mtask, t) /\ cost(t) \in Nat
BY CostIsCostOf, CostType DEF StepOf, stepCost, cost

LEMMA AnnouncedExists ==
  ASSUME NEW E \in SUBSET (Logic \X Logic), HasNoCycle(Logic, E), NEW way \in Ways,
         graph \in Graphs, cp \in [Ways -> [Logic -> Nat]], NEW inclusive \in Nat,
         NEW from, NEW top, NEW told
  PROVE  IsAnnounced(E, way, from, top, told, inclusive,
                     Announced(E, way, from, top, told, inclusive))
<1> DEFINE P == [t \in Logic |-> Earlier(E, way, t)]
           D == [t \in Logic |-> [h \in Nat |->
                   IF t \in {from, top} THEN (IF t \in told THEN inclusive ELSE 0)
                   ELSE IF h > cp[way][t] THEN h + stepCost(t) ELSE 0]]
<1>0. IsFiniteSet(Logic)
  BY LogicAssumption DEF LogicAssumption
<1>1. P \in [Logic -> SUBSET Logic] /\ Founded(Logic, P)
  BY <1>0, AheadFounded
<1>2. D \in [Logic -> [Nat -> Nat]]
  BY StepOfIs
<1>3. PICK g \in [Logic -> Nat] : \A t \in Logic : g[t] = D[t][Highest(g, P[t])]
  <2>1. KnownOn(Logic, P, D, Logic)
    <3> HIDE DEF P, D
    <3> QED BY <1>0, <1>1, <1>2, ByThoseBefore
  <2> QED BY <2>1 DEF KnownOn
<1>4. \A t \in Logic : Highest(g, P[t]) \in Nat
  <2> SUFFICES ASSUME NEW t \in Logic PROVE Highest(g, P[t]) \in Nat
    OBVIOUS
  <2> HIDE DEF P
  <2>1. IsFiniteSet(P[t]) /\ \A u \in P[t] : g[u] \in Nat
    BY <1>0, <1>1, FS_Subset
  <2> QED BY <2>1, HighestIs
<1>5. g = [t \in Logic |->
             IF t \in {from, top} THEN (IF t \in told THEN inclusive ELSE 0)
             ELSE LET heard == Highest(g, Earlier(E, way, t))
                  IN IF heard > cp[way][t] THEN heard + stepCost(t) ELSE 0]
  <2>1. g = [t \in Logic |-> g[t]]
    OBVIOUS
  <2>2. ASSUME NEW t \in Logic
        PROVE  g[t] = IF t \in {from, top} THEN (IF t \in told THEN inclusive ELSE 0)
                      ELSE LET heard == Highest(g, Earlier(E, way, t))
                           IN IF heard > cp[way][t] THEN heard + stepCost(t) ELSE 0
    BY <1>3, <1>4
  <2> QED BY <2>1, <2>2
<1>6. IsAnnounced(E, way, from, top, told, inclusive, g)
  BY <1>5 DEF IsAnnounced
<1>7. Announced(E, way, from, top, told, inclusive)
        = CHOOSE q : IsAnnounced(E, way, from, top, told, inclusive, q)
  BY DEF Announced, IsAnnounced
<1> QED BY <1>6, <1>7

\* What PartPropagateCp announces spreads from the merged mtask.
LEMMA AnnouncedSpread ==
  ASSUME NEW E \in SUBSET (Logic \X Logic), HasNoCycle(Logic, E), NEW way \in Ways,
         graph \in Graphs, cp \in [Ways -> [Logic -> Nat]], NEW inclusive \in Nat,
         NEW from \in Logic, NEW top \in Logic,
         NEW says,
         says = Announced(E, way, from, top, Told(way, from, top, inclusive), inclusive)
  PROVE  Spread(Logic, Ahead(E, way), from, top, cp[way], StepOf(graph, mtask), inclusive, says)
<1> DEFINE P == [t \in Logic |-> Earlier(E, way, t)]
           told == Told(way, from, top, inclusive)
<1>0. IsFiniteSet(Logic)
  BY LogicAssumption DEF LogicAssumption
<1>1. P \in [Logic -> SUBSET Logic] /\ Founded(Logic, P)
  BY <1>0, AheadFounded
<1>2. IsAnnounced(E, way, from, top, told, inclusive, says)
  BY AnnouncedExists
<1>3. ASSUME NEW t \in Logic
      PROVE  says[t] = IF t \in {from, top} THEN (IF t \in told THEN inclusive ELSE 0)
                       ELSE IF Highest(says, P[t]) > cp[way][t]
                            THEN Highest(says, P[t]) + stepCost(t) ELSE 0
  BY <1>2 DEF IsAnnounced
<1>4. \A t \in Logic : says[t] \in Nat
  <2>1. \A t \in Logic : Highest(says, P[t]) \in Nat => says[t] \in Nat
    <3> HIDE DEF P, told
    <3> QED BY <1>3, StepOfIs
  <2> HIDE DEF P
  <2> QED BY <1>0, <1>1, <2>1, ThoseBeforeNat
<1>5. says \in [Logic -> Nat]
  BY <1>2, <1>4 DEF IsAnnounced
<1>6. \A t \in {from, top} :
        says[t] = IF inclusive > cp[way][t] + StepOf(graph, mtask)[t] THEN inclusive ELSE 0
  BY <1>3, StepOfIs DEF Told
<1>7. \A t \in Logic \ {from, top} :
        says[t] = IF Heard(Ahead(E, way), says, t) > cp[way][t]
                  THEN Heard(Ahead(E, way), says, t) + StepOf(graph, mtask)[t] ELSE 0
  BY <1>3, StepOfIs, HeardHighest
<1>8. Ahead(E, way) \in SUBSET (Logic \X Logic) /\ HasNoCycle(Logic, Ahead(E, way))
  BY <1>0, AheadIs, AheadNoCycle
<1>9. cp[way] \in [Logic -> Nat] /\ StepOf(graph, mtask) \in [Logic -> Nat]
  BY StepOfIs
<1> QED BY <1>0, <1>5, <1>6, <1>7, <1>8, <1>9 DEF Spread

-----------------------------------------------------------------------------
(* The cut search.                                                          *)

LEMMA NoCycleFewer ==
  ASSUME NEW N, NEW E, HasNoCycle(N, E), NEW F, F \subseteq E
  PROVE  HasNoCycle(N, F)
BY DEF HasNoCycle

LEMMA AheadTwice ==
  ASSUME NEW N, NEW E \in SUBSET (N \X N)
  PROVE  Ahead(Ahead(E, "REVERSE"), "REVERSE") = E
<1> DEFINE R == Ahead(E, "REVERSE")
<1>1. R \in SUBSET (N \X N)
  BY AheadIs
<1>2. Ahead(R, "REVERSE") \in SUBSET (N \X N)
  <2> HIDE DEF R
  <2> QED BY <1>1, AheadIs
<1>3. \A x, y : <<x, y>> \in Ahead(R, "REVERSE") <=> <<x, y>> \in E
  <2> SUFFICES ASSUME NEW x, NEW y PROVE <<x, y>> \in Ahead(R, "REVERSE") <=> <<x, y>> \in E
    OBVIOUS
  <2>1. <<x, y>> \in Ahead(R, "REVERSE") <=> <<y, x>> \in R
    <3> HIDE DEF R
    <3> QED BY <1>1, AheadReverse
  <2>2. <<y, x>> \in R <=> <<x, y>> \in E
    BY AheadReverse
  <2> QED BY <2>1, <2>2
<1> HIDE DEF R
<1>4. \A e \in Ahead(R, "REVERSE") : e = <<e[1], e[2]>>
  BY <1>2
<1>5. \A e \in E : e = <<e[1], e[2]>>
  OBVIOUS
<1>6. \A e \in Ahead(R, "REVERSE") : e \in E
  BY <1>3, <1>4
<1>7. \A e \in E : e \in Ahead(R, "REVERSE")
  BY <1>3, <1>5
<1>8. Ahead(R, "REVERSE") = E
  BY <1>6, <1>7
<1> QED BY <1>8 DEF R

LEMMA ReverseBefore ==
  ASSUME NEW N, NEW E \in SUBSET (N \X N), NEW x \in N, NEW y \in N, Before(N, E, x, y)
  PROVE  Before(N, Ahead(E, "REVERSE"), y, x)
<1> DEFINE R == Ahead(E, "REVERSE")
<1>1. R \in SUBSET (N \X N)
  BY AheadIs
<1>2. Before(N, Ahead(R, "REVERSE"), x, y)
  BY AheadTwice
<1> HIDE DEF R
<1>3. Before(N, R, y, x)
  BY <1>1, <1>2, BeforeReverse
<1> QED BY <1>3 DEF R

\* What comes later has the longer critical path.
LEMMA LongAlong ==
  ASSUME NEW N, NEW E \in SUBSET (N \X N), NEW c \in [N -> Nat], NEW s \in [N -> Nat],
         Long(E, c, s), NEW x \in N, NEW y \in N, x # y, Before(N, E, x, y)
  PROVE  c[y] >= c[x] + s[x]
<1> DEFINE U == {z \in N : z = x \/ c[z] >= c[x] + s[x]}
<1>1. U \in SUBSET N /\ x \in U
  OBVIOUS
<1>2. ASSUME NEW e \in E, e[1] \in U PROVE e[2] \in U
  <2>1. e[1] \in N /\ e[2] \in N
    OBVIOUS
  <2>2. c[e[2]] >= c[e[1]] + s[e[1]]
    BY DEF Long
  <2>3. c[e[1]] \in Nat /\ c[e[2]] \in Nat /\ s[e[1]] \in Nat /\ c[x] \in Nat /\ s[x] \in Nat
    BY <2>1
  <2>4. e[1] = x \/ c[e[1]] >= c[x] + s[x]
    BY <1>2
  <2>5. c[e[2]] >= c[x] + s[x]
    <3> HIDE DEF U
    <3> QED BY <2>2, <2>3, <2>4
  <2> QED BY <2>1, <2>5
<1>3. y \in U
  <2> HIDE DEF U
  <2> QED BY <1>1, <1>2 DEF Before
<1> QED BY <1>3

\* The search may be cut at what is too early or too late.
LEMMA CutSearch ==
  ASSUME NEW N, NEW E \in SUBSET (N \X N), NEW cF \in [N -> Nat], NEW cR \in [N -> Nat],
         NEW s \in [N -> Nat], Long(E, cF, s), Long(Ahead(E, "REVERSE"), cR, s),
         NEW from \in N, NEW top \in N,
         NEW F, F \subseteq E,
         \A e \in E : cR[e[1]] >= cR[top] + s[top] /\ cF[top] >= cF[e[1]] + s[e[1]] => e \in F
  PROVE  Before(N, F, from, top) <=> Before(N, E, from, top)
<1>1. ASSUME Before(N, F, from, top) PROVE Before(N, E, from, top)
  BY <1>1, BeforeMore
<1>2. ASSUME Before(N, E, from, top) PROVE Before(N, F, from, top)
  <2> SUFFICES ASSUME NEW U \in SUBSET N, from \in U, \A e \in F : e[1] \in U => e[2] \in U,
                      top \notin U
               PROVE  FALSE
    BY DEF Before
  <2> DEFINE W == U \cup {x \in N : ~Before(N, E, x, top)}
  <2>1. W \in SUBSET N /\ from \in W
    OBVIOUS
  <2>2. ASSUME NEW e \in E, e[1] \in W PROVE e[2] \in W
    <3>1. e = <<e[1], e[2]>> /\ e[1] \in N /\ e[2] \in N
      OBVIOUS
    <3>2. CASE ~Before(N, E, e[2], top)
      BY <3>1, <3>2
    <3>3. CASE Before(N, E, e[2], top)
      <4>1. Before(N, E, e[1], e[2])
        BY <3>1, BeforeEdge
      <4>2. Before(N, E, e[1], top)
        BY <3>3, <4>1, BeforeTransitive
      <4>3. e[1] \in U
        BY <2>2, <4>2
      <4>4. e[1] # top
        BY <4>3
      <4>5. cF[top] >= cF[e[1]] + s[e[1]]
        BY <3>1, <4>2, <4>4, LongAlong
      <4>6. Before(N, Ahead(E, "REVERSE"), top, e[1])
        BY <3>1, <4>2, ReverseBefore
      <4>7. cR[e[1]] >= cR[top] + s[top]
        <5>1. Ahead(E, "REVERSE") \in SUBSET (N \X N)
          BY AheadIs
        <5> QED BY <3>1, <4>4, <4>6, <5>1, LongAlong
      <4>8. e \in F
        BY <4>5, <4>7
      <4> QED BY <4>3, <4>8
    <3> QED BY <3>2, <3>3
  <2>3. top \in W
    <3> HIDE DEF W
    <3> QED BY <1>2, <2>1, <2>2 DEF Before
  <2> QED BY <2>3, BeforeItself
<1> QED BY <1>1, <1>2

-----------------------------------------------------------------------------
(* The inductive invariant.                                                 *)

\* The costs cached at the edges are long enough as well.
EdgeCpSound ==
  pc = "contract" =>
  \A way \in Ways : \A e \in edges :
    edgeCp[way][e] >= cp[way][Near(way, e)] + stepCost(Near(way, e))

Prepared ==
  /\ graph \in Graphs
  /\ pc = "idle" => mtask = [l \in Logic |-> l] /\ offPairs = {}
  /\ pc # "final" => empty = {}

PartInv ==
  /\ TypeOK /\ Prepared
  /\ HasNoCycle(Logic, edges)
  /\ DepsKept /\ CpSound /\ EdgeCpSound /\ WithinLimit

LEMMA TasksAreLogic ==
  ASSUME TypeOK, graph \in Graphs
  PROVE  /\ Tasks \subseteq Logic /\ graph.tasks \subseteq Logic
         /\ edges \in SUBSET (Logic \X Logic) /\ IsFiniteSet(Logic)
<1>1. graph.tasks \subseteq Logic
  BY DEF Graphs
<1>2. Tasks \subseteq Logic
  BY <1>1 DEF Tasks, TypeOK
<1>3. edges \subseteq Tasks \X Tasks
  BY DEF TypeOK
<1> QED BY <1>1, <1>2, <1>3, LogicAssumption DEF LogicAssumption

\* CpSound, way by way.
LEMMA PathsLong ==
  ASSUME TypeOK, graph \in Graphs, CpSound, pc # "final", NEW way \in Ways
  PROVE  Long(Ahead(edges, way), cp[way], StepOf(graph, mtask))
<1> SUFFICES ASSUME NEW o \in Ahead(edges, way)
             PROVE  cp[way][o[2]] >= cp[way][o[1]] + StepOf(graph, mtask)[o[1]]
  BY DEF Long
<1>1. PICK e \in edges : o = <<Near(way, e), Far(way, e)>>
  BY DEF Ahead
<1>2. o[1] = Near(way, e) /\ o[2] = Far(way, e)
  BY <1>1
<1>3. Near(way, e) \in Logic
  BY TasksAreLogic, AheadIs
<1>4. cp[way][Far(way, e)] >= cp[way][Near(way, e)] + stepCost(Near(way, e))
  BY DEF CpSound
<1>5. StepOf(graph, mtask)[Near(way, e)] = stepCost(Near(way, e))
  BY <1>3, StepOfIs
<1> QED BY <1>2, <1>4, <1>5

LEMMA LongFewer ==
  ASSUME NEW E, NEW F, F \subseteq E, NEW way, NEW c, NEW s, Long(Ahead(E, way), c, s)
  PROVE  Long(Ahead(F, way), c, s)
<1>1. Ahead(F, way) \subseteq Ahead(E, way)
  BY DEF Ahead
<1> QED BY <1>1 DEF Long

LEMMA SearchExact ==
  ASSUME TypeOK, graph \in Graphs, CpSound, pc # "final",
         NEW from \in Logic, NEW top \in Logic, NEW edge
  PROVE  PathExistsFrom(from, top, edge) <=> Before(Logic, edges \ edge, from, top)
<1> DEFINE E == edges \ edge
           F == {e \in E : ~TooLate(e[1], top)}
           s == StepOf(graph, mtask)
<1>1. E \in SUBSET (Logic \X Logic)
  BY TasksAreLogic
<1>2. cp["FORWARD"] \in [Logic -> Nat] /\ cp["REVERSE"] \in [Logic -> Nat] /\ s \in [Logic -> Nat]
  BY StepOfIs DEF TypeOK, Ways
<1>3. Long(Ahead(E, "FORWARD"), cp["FORWARD"], s) /\ Long(Ahead(E, "REVERSE"), cp["REVERSE"], s)
  <2>1. "FORWARD" \in Ways /\ "REVERSE" \in Ways
    BY DEF Ways
  <2>2. E \subseteq edges
    OBVIOUS
  <2> HIDE DEF E, s
  <2>3. Long(Ahead(edges, "FORWARD"), cp["FORWARD"], s)
    BY <2>1, PathsLong DEF s
  <2>4. Long(Ahead(edges, "REVERSE"), cp["REVERSE"], s)
    BY <2>1, PathsLong DEF s
  <2> QED BY <2>2, <2>3, <2>4, LongFewer
<1>4. Long(E, cp["FORWARD"], s)
  <2> HIDE DEF E, s
  <2> QED BY <1>1, <1>3, AheadForward
<1>5. ASSUME NEW e \in E,
             /\ cp["REVERSE"][e[1]] >= cp["REVERSE"][top] + s[top]
             /\ cp["FORWARD"][top] >= cp["FORWARD"][e[1]] + s[e[1]]
      PROVE  e \in F
  <2>1. e[1] \in Logic
    BY <1>1
  <2>2. /\ cp["REVERSE"][e[1]] \in Nat /\ cp["REVERSE"][top] \in Nat
        /\ cp["FORWARD"][e[1]] \in Nat /\ cp["FORWARD"][top] \in Nat
        /\ stepCost(top) \in Nat /\ stepCost(e[1]) \in Nat
    BY <1>2, <2>1, StepOfIs
  <2>3. s[top] = stepCost(top) /\ s[e[1]] = stepCost(e[1])
    BY <2>1, StepOfIs
  <2>4. ~TooLate(e[1], top)
    <3> HIDE DEF E, F, s
    <3> QED BY <1>5, <2>2, <2>3 DEF TooLate
  <2> QED BY <2>4
<1>6. F \subseteq E
  OBVIOUS
<1>7. Before(Logic, F, from, top) <=> Before(Logic, E, from, top)
  <2> HIDE DEF E, F, s
  <2> QED BY <1>1, <1>2, <1>3, <1>4, <1>5, <1>6, CutSearch
<1> QED BY <1>7 DEF PathExistsFrom

LEMMA TwoOf ==
  ASSUME NEW p, Cardinality(p) = 2, p \subseteq Logic
  PROVE  Max(p) \in p /\ Min(p) \in p /\ Max(p) # Min(p)
<1>1. p \in SUBSET Nat /\ IsFiniteSet(p)
  BY LogicAssumption, FS_Subset DEF LogicAssumption
<1>2. p # {}
  BY FS_EmptySet
<1>3. Max(p) \in p /\ \A n \in p : Max(p) >= n
  BY <1>1, <1>2, Greatest
<1>4. Min(p) \in p /\ \A n \in p : Min(p) <= n
  <2> DEFINE f == [x \in p |-> x]
  <2>1. f \in [p -> Nat]
    BY <1>1
  <2>2. PICK x \in p : \A y \in p : f[x] <= f[y]
    <3> HIDE DEF f
    <3> QED BY <1>2, <2>1, LeastRank
  <2>3. \A y \in p : x <= y
    BY <2>2
  <2> HIDE DEF f
  <2> QED BY <2>3 DEF Min
<1>5. ASSUME Max(p) = Min(p) PROVE FALSE
  <2> DEFINE m == Max(p)
  <2>0. m \in p /\ (\A n \in p : m >= n) /\ \A n \in p : m <= n
    BY <1>3, <1>4, <1>5
  <2>1. \A n \in p : n = Max(p)
    <3> SUFFICES ASSUME NEW n \in p PROVE n = m
      OBVIOUS
    <3> HIDE DEF m
    <3>1. m \in Nat /\ n \in Nat
      BY <1>1, <2>0
    <3>2. m >= n /\ m <= n
      BY <2>0
    <3> QED BY <3>1, <3>2
  <2>2. p = {Max(p)}
    BY <1>3, <2>1
  <2>3. Cardinality({Max(p)}) = 1
    BY FS_Singleton
  <2> QED BY <2>2, <2>3
<1> QED BY <1>3, <1>4, <1>5

LEMMA SearchIsExactInv ==
  ASSUME PartInv PROVE SearchIsExact
<1> SUFFICES ASSUME pc = "contract" PROVE SearchIsExact
  BY DEF SearchIsExact
<1>0. TypeOK /\ graph \in Graphs /\ CpSound /\ pc # "final"
  BY DEF PartInv, Prepared
<1>1. ASSUME NEW e \in edges
      PROVE  MergeWouldCreateCycle(e[1], e[2], {e}) <=> Before(Logic, edges \ {e}, e[1], e[2])
  <2>1. e[1] \in Logic /\ e[2] \in Logic
    BY <1>0, TasksAreLogic
  <2> QED BY <1>0, <2>1, SearchExact DEF MergeWouldCreateCycle
<1>2. ASSUME NEW p \in pairs
      PROVE  MergeWouldCreateCycle(Bp(p), Ap(p), {})
               <=> \/ Before(Logic, edges, Bp(p), Ap(p))
                   \/ Before(Logic, edges, Ap(p), Bp(p))
  <2>1. Cardinality(p) = 2 /\ p \subseteq Logic
    BY <1>0, TasksAreLogic DEF TypeOK
  <2>2. Bp(p) \in Logic /\ Ap(p) \in Logic
    BY <2>1, TwoOf DEF Ap, Bp
  <2>3. edges \ {} = edges
    OBVIOUS
  <2>4. PathExistsFrom(Bp(p), Ap(p), {}) <=> Before(Logic, edges, Bp(p), Ap(p))
    BY <1>0, <2>2, <2>3, SearchExact
  <2>5. PathExistsFrom(Ap(p), Bp(p), {}) <=> Before(Logic, edges, Ap(p), Bp(p))
    BY <1>0, <2>2, <2>3, SearchExact
  <2> QED BY <2>4, <2>5 DEF MergeWouldCreateCycle
<1> QED BY <1>1, <1>2 DEF SearchIsExact

-----------------------------------------------------------------------------
(* A merge.                                                                 *)

\* A candidate that contract() is called for.
Merging(from, top, edge) ==
  /\ PartInv /\ pc = "contract"
  /\ from \in Tasks /\ top \in Tasks /\ from # top
  /\ edge \subseteq edges
  /\ edge = {} \/ edge = {<<from, top>>}
  /\ ~MergeWouldCreateCycle(from, top, edge)
  /\ Score(from, top, edge) <= scoreLimit

LEMMA MergingIs ==
  ASSUME NEW from, NEW top, NEW edge, Merging(from, top, edge)
  PROVE  /\ TypeOK /\ graph \in Graphs /\ from \in Logic /\ top \in Logic /\ from # top
         /\ IsFiniteSet(Logic) /\ edges \ edge \in SUBSET (Logic \X Logic)
         /\ HasNoCycle(Logic, edges \ edge)
         /\ Apart(Logic, edges \ edge, from, top)
         /\ \A way \in Ways : /\ cp[way] \in [Logic -> Nat]
                              /\ Long(Ahead(edges \ edge, way), cp[way], StepOf(graph, mtask))
<1>1. PartInv /\ pc = "contract" /\ from # top /\ ~MergeWouldCreateCycle(from, top, edge)
  BY DEF Merging
<1>2. TypeOK /\ graph \in Graphs /\ CpSound /\ pc # "final"
  BY <1>1 DEF PartInv, Prepared
<1>3. from \in Logic /\ top \in Logic
  BY <1>2, TasksAreLogic DEF Merging
<1>4. edges \in SUBSET (Logic \X Logic) /\ IsFiniteSet(Logic)
  BY <1>2, TasksAreLogic
<1>5. HasNoCycle(Logic, edges)
  BY <1>1 DEF PartInv
<1>6. HasNoCycle(Logic, edges \ edge)
  BY <1>5, NoCycleFewer
<1>7. ~Before(Logic, edges \ edge, from, top)
  BY <1>1, <1>2, <1>3, SearchExact DEF MergeWouldCreateCycle
<1>8. ~Before(Logic, edges \ edge, top, from)
  <2>1. CASE edge = {}
    BY <1>1, <1>2, <1>3, <2>1, SearchExact DEF MergeWouldCreateCycle
  <2>2. CASE edge = {<<from, top>>}
    <3>1. <<from, top>> \in edges
      BY <2>2 DEF Merging
    <3> SUFFICES ASSUME Before(Logic, edges \ edge, top, from) PROVE FALSE
      OBVIOUS
    <3>2. Before(Logic, edges, top, from)
      BY BeforeMore
    <3>3. Before(Logic, edges, from, top)
      BY <3>1, BeforeEdge
    <3> QED BY <1>1, <1>3, <1>4, <1>5, <3>2, <3>3, NoWayBack
  <2> QED BY <2>1, <2>2 DEF Merging
<1>9. ASSUME NEW way \in Ways
      PROVE  /\ cp[way] \in [Logic -> Nat]
             /\ Long(Ahead(edges \ edge, way), cp[way], StepOf(graph, mtask))
  <2>1. cp[way] \in [Logic -> Nat]
    BY <1>2 DEF TypeOK
  <2>2. Long(Ahead(edges, way), cp[way], StepOf(graph, mtask))
    BY <1>2, PathsLong
  <2> QED BY <2>1, <2>2, LongFewer
<1> QED BY <1>1, <1>2, <1>3, <1>4, <1>6, <1>7, <1>8, <1>9 DEF Apart

\* The merged mtask's critical path is long enough for what leads to it.
LEMMA MergedCpLong ==
  ASSUME NEW from, NEW top, NEW edge, Merging(from, top, edge), NEW way \in Ways
  PROVE  /\ MergedCp(way, from, top, edge) \in Nat
         /\ \A x \in Logic, y \in {from, top} :
              <<x, y>> \in Ahead(edges \ edge, way)
              => MergedCp(way, from, top, edge) >= cp[way][x] + StepOf(graph, mtask)[x]
<1> DEFINE E == edges \ edge
           s == StepOf(graph, mtask)
           m == MergedCp(way, from, top, edge)
<1>1. /\ TypeOK /\ graph \in Graphs /\ from \in Logic /\ top \in Logic /\ IsFiniteSet(Logic)
      /\ E \in SUBSET (Logic \X Logic) /\ cp[way] \in [Logic -> Nat]
      /\ Long(Ahead(E, way), cp[way], s)
  BY MergingIs
<1>2. \A x \in Logic : s[x] \in Nat /\ s[x] = stepCost(x) /\ cp[way][x] \in Nat
  BY <1>1, StepOfIs
<1>3. ASSUME NEW x \in Logic, NEW y, <<x, y>> \in Ahead(E, way)
      PROVE  cp[way][y] >= cp[way][x] + s[x]
  <2>1. cp[way][<<x, y>>[2]] >= cp[way][<<x, y>>[1]] + s[<<x, y>>[1]]
    BY <1>1, <1>3 DEF Long
  <2> QED BY <2>1
<1>4. CASE edge = {}
  <2>1. m = Max({cp[way][from], cp[way][top]})
    BY <1>4 DEF MergedCp
  <2>2. m \in Nat /\ m >= cp[way][from] /\ m >= cp[way][top]
    <3> HIDE DEF m
    <3> QED BY <1>1, <1>2, <2>1, MaxOfTwo
  <2>3. ASSUME NEW x \in Logic, NEW y \in {from, top}, <<x, y>> \in Ahead(E, way)
        PROVE  m >= cp[way][x] + s[x]
    <3>1. cp[way][y] >= cp[way][x] + s[x] /\ m >= cp[way][y] /\ cp[way][y] \in Nat
          /\ cp[way][x] \in Nat /\ s[x] \in Nat
      BY <1>1, <1>2, <1>3, <2>2, <2>3
    <3> HIDE DEF m, s
    <3> QED BY <2>2, <3>1
  <2> QED BY <2>2, <2>3
<1>5. CASE edge # {}
  <2> DEFINE e == <<from, top>>
             near == Near(way, e)
             far == Far(way, e)
             S == {d \in edges \ edge : Far(way, d) = far}
             h == Highest(edgeCp[way], S)
  <2>1. edge = {e} /\ e \in edges
    BY <1>5 DEF Merging
  <2>2. {near, far} = {from, top}
    BY DEF Near, Far
  <2>3. m = Max({cp[way][near], h})
    BY <1>5 DEF MergedCp
  <2>4. IsFiniteSet(S) /\ S \subseteq edges
    <3>1. IsFiniteSet(Logic \X Logic)
      BY <1>1, FS_Product
    <3>2. S \subseteq Logic \X Logic
      BY <1>1
    <3> HIDE DEF S
    <3>3. IsFiniteSet(S)
      BY <3>1, <3>2, FS_Subset
    <3> QED BY <3>3 DEF S
  <2>5. \A d \in edges : edgeCp[way][d] \in Nat
                         /\ edgeCp[way][d] >= cp[way][Near(way, d)] + stepCost(Near(way, d))
    <3>1. PartInv /\ pc = "contract"
      BY DEF Merging
    <3> QED BY <3>1 DEF PartInv, TypeOK, EdgeCpSound
  <2>6. h \in Nat /\ \A d \in S : edgeCp[way][d] <= h
    <3>1. \A d \in S : edgeCp[way][d] \in Nat
      BY <2>4, <2>5
    <3> HIDE DEF S
    <3> QED BY <2>4, <3>1, HighestIs
  <2>7. near \in Logic /\ far \in Logic /\ cp[way][near] \in Nat
    BY <1>1, <1>2, <2>2
  <2>8. m \in Nat /\ m >= cp[way][near] /\ m >= h
    <3> HIDE DEF m, h, near
    <3> QED BY <2>3, <2>6, <2>7, MaxOfTwo
  <2>9. ASSUME NEW x \in Logic, NEW y \in {from, top}, <<x, y>> \in Ahead(E, way)
        PROVE  m >= cp[way][x] + s[x]
    <3>1. y = near \/ y = far
      BY <2>2
    <3>2. CASE y = near
      <4>1. cp[way][near] >= cp[way][x] + s[x] /\ cp[way][x] \in Nat /\ s[x] \in Nat
        BY <1>2, <1>3, <2>9, <3>2
      <4> HIDE DEF m, near, s
      <4> QED BY <2>7, <2>8, <4>1
    <3>3. CASE y = far
      <4>1. PICK d \in E : Near(way, d) = x /\ Far(way, d) = far
        <5>1. <<x, far>> \in Ahead(E, way)
          BY <2>9, <3>3
        <5>2. E \in SUBSET (Logic \X Logic)
          BY <1>1
        <5> HIDE DEF E, far
        <5>3. \A v, w : <<v, w>> \in Ahead(E, way) => \E d \in E : Near(way, d) = v /\ Far(way, d) = w
          BY <5>2, AheadIs
        <5> QED BY <5>1, <5>3
      <4>2. d \in S /\ d \in edges
        BY <4>1
      <4>3. edgeCp[way][d] \in Nat /\ edgeCp[way][d] >= cp[way][x] + stepCost(x)
        BY <2>5, <4>1, <4>2
      <4>4. edgeCp[way][d] <= h
        BY <2>6, <4>2
      <4>5. cp[way][x] \in Nat /\ stepCost(x) \in Nat /\ s[x] = stepCost(x)
        BY <1>2
      <4> HIDE DEF m, h, s
      <4> QED BY <2>6, <2>8, <4>3, <4>4, <4>5
    <3> QED BY <3>1, <3>2, <3>3
  <2> QED BY <2>8, <2>9
<1> QED BY <1>4, <1>5

LEMMA WhoIsKept ==
  ASSUME NEW from, NEW top, from # top
  PROVE  /\ Recipient(from, top) # Donor(from, top)
         /\ {Recipient(from, top), Donor(from, top)} = {from, top}
BY DEF Recipient, Donor

LEMMA MovedEdgesAre ==
  ASSUME NEW N, NEW E \in SUBSET (N \X N), NEW r \in N, NEW d \in N, r # d
  PROVE  /\ MovedEdges(E, d, r) \in SUBSET ((N \ {d}) \X (N \ {d}))
         /\ \A e \in MovedEdges(E, d, r) :
              \E o \in E : /\ e[1] = IF o[1] = d THEN r ELSE o[1]
                          /\ e[2] = IF o[2] = d THEN r ELSE o[2]
         /\ \A o \in E : <<IF o[1] = d THEN r ELSE o[1], IF o[2] = d THEN r ELSE o[2]>>
                           \in MovedEdges(E, d, r)
<1>1. MovedEdges(E, d, r) = {<<IF e[1] = d THEN r ELSE e[1], IF e[2] = d THEN r ELSE e[2]>> : e \in E}
  BY DEF MovedEdges
<1>2. \A o \in E : o[1] \in N /\ o[2] \in N
  OBVIOUS
<1>3. ASSUME NEW e \in MovedEdges(E, d, r)
      PROVE  \E o \in E : /\ e[1] = IF o[1] = d THEN r ELSE o[1]
                         /\ e[2] = IF o[2] = d THEN r ELSE o[2]
  BY <1>1
<1>4. MovedEdges(E, d, r) \in SUBSET ((N \ {d}) \X (N \ {d}))
  BY <1>1, <1>2
<1>5. \A o \in E : <<IF o[1] = d THEN r ELSE o[1], IF o[2] = d THEN r ELSE o[2]>>
                     \in MovedEdges(E, d, r)
  BY <1>1
<1> QED BY <1>3, <1>4, <1>5

\* The merge of a candidate, after which r is kept and d is gone.
MergedBy(from, top, edge, r, d) ==
  /\ Merging(from, top, edge) /\ Contract(from, top, edge)
  /\ r = Recipient(from, top) /\ d = Donor(from, top)

MergedGraph(from, top, edge, r, d) ==
  /\ graph' = graph /\ r \in Tasks /\ d \in Tasks /\ r # d /\ {r, d} = {from, top}
  /\ mtask' = Moved(mtask, d, r)
  /\ mtask' \in [Logic -> Logic]
  /\ Tasks' = Tasks \ {d} /\ \A t \in Tasks' : mtask'[t] = t
  /\ edges' = MovedEdges(edges \ edge, d, r) /\ edges' \subseteq Tasks' \X Tasks'

LEMMA MergedTasks ==
  ASSUME NEW from, NEW top, NEW edge, NEW r, NEW d, MergedBy(from, top, edge, r, d)
  PROVE  MergedGraph(from, top, edge, r, d)
<1>1. r # d /\ {r, d} = {from, top} /\ r \in Tasks /\ d \in Tasks
  BY WhoIsKept DEF MergedBy, Merging
<1>2. TypeOK /\ graph \in Graphs /\ from \in Logic /\ top \in Logic
  BY MergingIs DEF MergedBy
<1>3. r \in Logic /\ d \in Logic
  BY <1>1, <1>2
<1>4. mtask \in [Logic -> Logic] /\ \A t \in Tasks : mtask[t] = t
  BY <1>2 DEF TypeOK
<1>5. graph' = graph /\ mtask' = [l \in Logic |-> IF mtask[l] = d THEN r ELSE mtask[l]]
      /\ edges' = MovedEdges(edges \ edge, d, r)
  BY DEF MergedBy, Contract, MovedLogic
<1>6. mtask' \in [Logic -> Logic]
  BY <1>3, <1>4, <1>5
<1>7. Tasks = {mtask[l] : l \in graph.tasks} /\ Tasks' = {mtask'[l] : l \in graph.tasks}
      /\ graph.tasks \subseteq Logic
  BY <1>2, <1>5 DEF Tasks, Graphs
<1>8. ASSUME NEW t \in Tasks' PROVE t \in Tasks \ {d} /\ mtask'[t] = t
  <2>1. PICK l \in graph.tasks : t = mtask'[l]
    BY <1>7
  <2>2. t = IF mtask[l] = d THEN r ELSE mtask[l]
    BY <1>5, <1>7, <2>1
  <2>3. mtask[l] \in Tasks
    BY <1>7
  <2>4. t \in Tasks /\ t # d
    BY <1>1, <2>2, <2>3
  <2>5. mtask[t] = t /\ t \in Logic
    BY <1>4, <1>7, <2>4
  <2> QED BY <1>5, <2>4, <2>5
<1>9. ASSUME NEW t \in Tasks \ {d} PROVE t \in Tasks'
  <2>1. PICK l \in graph.tasks : t = mtask[l]
    BY <1>7
  <2>2. mtask'[l] = t
    BY <1>5, <1>7, <2>1
  <2> QED BY <1>7, <2>2
<1>10. Tasks' = Tasks \ {d}
  BY <1>8, <1>9
<1>11. edges \ edge \in SUBSET (Tasks \X Tasks)
  BY <1>2 DEF TypeOK
<1>12. MovedEdges(edges \ edge, d, r) \in SUBSET ((Tasks \ {d}) \X (Tasks \ {d}))
  BY <1>1, <1>11, MovedEdgesAre
<1> QED BY <1>1, <1>5, <1>6, <1>8, <1>10, <1>12 DEF Moved, MergedGraph

LEMMA StepIs == \A t \in Logic : stepCost(t) = StepOf(graph, mtask)[t]
BY CostIsCostOf DEF stepCost, cost, StepOf

LEMMA MergedCosts ==
  ASSUME NEW from, NEW top, NEW edge, NEW r, NEW d, MergedBy(from, top, edge, r, d)
  PROVE  /\ MergedStepCost(from, top) \in Nat
         /\ StepOf(graph', mtask') \in [Logic -> Nat]
         /\ StepOf(graph', mtask')[r] = MergedStepCost(from, top)
         /\ \A t \in Logic \ {r, d} : StepOf(graph', mtask')[t] = StepOf(graph, mtask)[t]
         /\ \A t \in Logic : stepCost(t)' = StepOf(graph', mtask')[t]
         /\ StepCosts(mtask') = StepOf(graph', mtask')
<1>1. /\ graph' = graph /\ r # d /\ {r, d} = {from, top}
      /\ mtask' = Moved(mtask, d, r)
  <2>1. MergedGraph(from, top, edge, r, d)
    BY MergedTasks
  <2> QED BY <2>1 DEF MergedGraph
<1>2. TypeOK /\ graph \in Graphs /\ from \in Logic /\ top \in Logic
  BY MergingIs DEF MergedBy
<1>3. r \in Logic /\ d \in Logic /\ mtask \in [Logic -> Logic]
  BY <1>1, <1>2 DEF TypeOK
<1>4. /\ CostOf(graph, mtask', r) = CostOf(graph, mtask, r) + CostOf(graph, mtask, d)
      /\ \A t : t # r /\ t # d => CostOf(graph, mtask', t) = CostOf(graph, mtask, t)
  BY <1>1, <1>2, <1>3, CostMerged
<1>5. CostOf(graph, mtask, r) \in Nat /\ CostOf(graph, mtask, d) \in Nat
  BY <1>2, CostType
<1>6. cost(from) = CostOf(graph, mtask, from) /\ cost(top) = CostOf(graph, mtask, top)
  BY CostIsCostOf DEF cost
<1>7. cost(from) + cost(top) = CostOf(graph, mtask', r)
  <2>1. (r = from /\ d = top) \/ (r = top /\ d = from)
    BY <1>1
  <2>2. CASE r = from /\ d = top
    BY <1>4, <1>6, <2>2
  <2>3. CASE r = top /\ d = from
    <3> DEFINE x == CostOf(graph, mtask, r)
               y == CostOf(graph, mtask, d)
    <3>1. x \in Nat /\ y \in Nat /\ cost(top) = x /\ cost(from) = y
          /\ CostOf(graph, mtask', r) = x + y
      BY <1>4, <1>5, <1>6, <2>3
    <3> HIDE DEF x, y
    <3> QED BY <3>1
  <2> QED BY <2>1, <2>2, <2>3
<1>8. MergedStepCost(from, top) = StepCost(CostOf(graph, mtask', r))
  BY <1>7 DEF MergedStepCost
<1>9. \A t : StepCost(CostOf(graph, mtask', t)) \in Nat
  BY <1>2, CostType
<1>10. \A t \in Logic : StepOf(graph', mtask')[t] = StepCost(CostOf(graph, mtask', t))
  BY <1>1 DEF StepOf
<1>11. StepOf(graph', mtask') \in [Logic -> Nat]
  BY <1>1, <1>9 DEF StepOf
<1>13. ASSUME NEW t \in Logic \ {r, d}
       PROVE  StepOf(graph', mtask')[t] = StepOf(graph, mtask)[t]
  <2>1. StepOf(graph, mtask)[t] = StepCost(CostOf(graph, mtask, t))
    BY DEF StepOf
  <2> QED BY <1>4, <1>10, <2>1
<1>14. \A t \in Logic : stepCost(t)' = StepOf(graph', mtask')[t]
  <2>1. (\A t \in Logic : stepCost(t) = StepOf(graph, mtask)[t])'
    BY StepIs, PTL
  <2> QED BY <2>1
<1>15. StepCosts(mtask') = StepOf(graph', mtask')
  BY <1>1 DEF StepCosts, CostIn, StepOf, CostOf, Sum
<1> QED BY <1>3, <1>8, <1>9, <1>10, <1>11, <1>13, <1>14, <1>15

\* What a merge does in one way.
MergedWay(from, top, edge, r, way, says) ==
  /\ Spread(Logic, Ahead(edges \ edge, way), from, top, cp[way], StepOf(graph, mtask),
            MergedCp(way, from, top, edge) + MergedStepCost(from, top), says)
  /\ Grown(Logic, Ahead(edges \ edge, way), from, top, cp[way], says, cp'[way])
  /\ cp'[way][r] = MergedCp(way, from, top, edge)
  /\ edgeCp'[way] = [e \in edges' |->
       IF e \in edges \ edge THEN Max({edgeCp[way][e], says[Near(way, e)]})
       ELSE cp'[way][Near(way, e)] + StepCosts(mtask')[Near(way, e)]]

LEMMA ContractWay ==
  ASSUME NEW from, NEW top, NEW edge, NEW r, NEW d, MergedBy(from, top, edge, r, d),
         NEW way \in Ways
  PROVE  \E says : MergedWay(from, top, edge, r, way, says)
<1> DEFINE E == edges \ edge
           i == MergedCp(way, from, top, edge) + MergedStepCost(from, top)
           says == Announced(E, way, from, top, Told(way, from, top, i), i)
<1>0. Merging(from, top, edge)
  BY DEF MergedBy
<1>1. /\ TypeOK /\ graph \in Graphs /\ from \in Logic /\ top \in Logic /\ IsFiniteSet(Logic)
      /\ E \in SUBSET (Logic \X Logic) /\ HasNoCycle(Logic, E) /\ cp[way] \in [Logic -> Nat]
  BY <1>0, MergingIs
<1>2. cp \in [Ways -> [Logic -> Nat]]
  BY <1>1 DEF TypeOK
<1>3. MergedCp(way, from, top, edge) \in Nat /\ MergedStepCost(from, top) \in Nat
  BY <1>0, MergedCpLong, MergedCosts
<1>4. i \in Nat
  BY <1>3
<1>5. Spread(Logic, Ahead(E, way), from, top, cp[way], StepOf(graph, mtask), i, says)
  <2> HIDE DEF E, i
  <2>1. says = Announced(E, way, from, top, Told(way, from, top, i), i)
    OBVIOUS
  <2> HIDE DEF says
  <2> QED BY <1>1, <1>2, <1>4, <2>1, AnnouncedSpread
<1>6. cp'[way] = [t \in Logic |->
        IF t = r THEN MergedCp(way, from, top, edge)
        ELSE Max({cp[way][t], Highest(says, Earlier(E, way, t))})]
  BY DEF MergedBy, Contract
<1>7. edgeCp'[way] = [e \in edges' |->
        IF e \in edges \ edge THEN Max({edgeCp[way][e], says[Near(way, e)]})
        ELSE cp'[way][Near(way, e)] + StepCosts(mtask')[Near(way, e)]]
  BY DEF MergedBy, Contract
<1>8. r \in {from, top}
  BY WhoIsKept DEF MergedBy, Recipient
<1> HIDE DEF E, i, says
<1>9. \A t \in Logic \ {r} : cp'[way][t] = Max({cp[way][t], Heard(Ahead(E, way), says, t)})
  BY <1>6, HeardHighest
<1>10. \A t \in Logic : Heard(Ahead(E, way), says, t) \in Nat
  BY <1>5, HeardIs
<1>11. \A t \in Logic : cp'[way][t] \in Nat
  <2> SUFFICES ASSUME NEW t \in Logic PROVE cp'[way][t] \in Nat
    OBVIOUS
  <2>1. CASE t = r
    BY <1>3, <1>6, <2>1
  <2>2. CASE t # r
    <3>1. cp[way][t] \in Nat /\ Heard(Ahead(E, way), says, t) \in Nat
      BY <1>1, <1>10
    <3>2. cp'[way][t] = Max({cp[way][t], Heard(Ahead(E, way), says, t)})
      BY <1>9, <2>2
    <3> QED BY <3>1, <3>2, MaxOfTwo
  <2> QED BY <2>1, <2>2
<1>12. cp'[way] \in [Logic -> Nat]
  BY <1>6, <1>11
<1>13. Grown(Logic, Ahead(E, way), from, top, cp[way], says, cp'[way])
  BY <1>8, <1>9, <1>12 DEF Grown
<1>14. cp'[way][r] = MergedCp(way, from, top, edge)
  BY <1>1, <1>6, <1>8
<1>15. MergedWay(from, top, edge, r, way, says)
  BY <1>5, <1>7, <1>13, <1>14 DEF MergedWay, E, i
<1> QED BY <1>15

\* The costs cached in mtasks and at edges are long enough after a merge.
LongAgain(way) ==
  /\ cp'[way] \in [Logic -> Nat] /\ edgeCp'[way] \in [edges' -> Nat]
  /\ \A e \in edges' :
       LET long == cp'[way][Near(way, e)] + StepOf(graph', mtask')[Near(way, e)]
       IN cp'[way][Far(way, e)] >= long /\ edgeCp'[way][e] >= long

LEMMA MergedLong ==
  ASSUME NEW from, NEW top, NEW edge, NEW r, NEW d, MergedBy(from, top, edge, r, d),
         NEW way \in Ways
  PROVE  LongAgain(way)
<1> DEFINE E == edges \ edge
           O == Ahead(E, way)
           c == cp[way]
           c2 == cp'[way]
           s == StepOf(graph, mtask)
           s2 == StepOf(graph', mtask')
           m == MergedCp(way, from, top, edge)
           more == MergedStepCost(from, top)
<1>0. Merging(from, top, edge)
  BY DEF MergedBy
<1>1. /\ TypeOK /\ graph \in Graphs /\ from \in Logic /\ top \in Logic /\ IsFiniteSet(Logic)
      /\ E \in SUBSET (Logic \X Logic) /\ c \in [Logic -> Nat]
      /\ Apart(Logic, E, from, top) /\ Long(O, c, s)
  BY <1>0, MergingIs
<1>2. PICK says : MergedWay(from, top, edge, r, way, says)
  BY ContractWay
<1>3. /\ Spread(Logic, O, from, top, c, s, m + more, says)
      /\ Grown(Logic, O, from, top, c, says, c2)
      /\ c2[r] = m
      /\ edgeCp'[way] = [e \in edges' |->
           IF e \in E THEN Max({edgeCp[way][e], says[Near(way, e)]})
           ELSE c2[Near(way, e)] + StepCosts(mtask')[Near(way, e)]]
  BY <1>2 DEF MergedWay
<1>4. /\ r # d
      /\ (r = from /\ d = top) \/ (r = top /\ d = from)
      /\ edges' = MovedEdges(E, d, r) /\ edges' \subseteq Tasks' \X Tasks' /\ Tasks' = Tasks \ {d}
  <2>1. MergedGraph(from, top, edge, r, d)
    BY MergedTasks
  <2> QED BY <2>1 DEF MergedGraph
<1>5. r \in Logic /\ d \in Logic /\ r # d
  BY <1>1, <1>4
<1>6. /\ more \in Nat /\ s2 \in [Logic -> Nat] /\ s2[r] = more
      /\ \A t \in Logic \ {from, top} : s2[t] = s[t]
      /\ StepCosts(mtask') = s2
  <2>1. \A t \in Logic \ {r, d} : s2[t] = s[t]
    BY MergedCosts
  <2>2. more \in Nat /\ s2 \in [Logic -> Nat] /\ s2[r] = more /\ StepCosts(mtask') = s2
    BY MergedCosts
  <2> HIDE DEF s, s2, more
  <2> QED BY <1>4, <2>1, <2>2
<1>7. s \in [Logic -> Nat] /\ \A t \in Logic : s[t] = stepCost(t)
  BY <1>1, StepOfIs
<1>8. m \in Nat /\ \A x \in Logic, y \in {from, top} : <<x, y>> \in O => m >= c[x] + s[x]
  BY <1>0, MergedCpLong
<1>9. c2 \in [Logic -> Nat] /\ says \in [Logic -> Nat]
  BY <1>3 DEF Grown, Spread
<1>10. Apart(Logic, O, from, top)
  BY <1>1, AheadApart
<1>11. \A e \in E : <<Near(way, e), Far(way, e)>> \in O /\ Near(way, e) \in Logic /\ Far(way, e) \in Logic
  BY <1>1, AheadIs
<1>12. \A e \in edges : /\ edgeCp[way][e] \in Nat
                         /\ edgeCp[way][e] >= c[Near(way, e)] + stepCost(Near(way, e))
  <2>1. PartInv /\ pc = "contract"
    BY <1>0 DEF Merging
  <2> QED BY <2>1 DEF PartInv, TypeOK, EdgeCpSound
<1> DEFINE Facts(x, y) ==
             /\ x \notin {from, top} \/ y \notin {from, top}
             /\ x \notin {from, top} /\ y \notin {from, top} => c2[y] >= c2[x] + s[x]
             /\ x \in {from, top} => c2[y] >= m + more /\ (says[x] = m + more \/ m + more <= c[x] + s[x])
             /\ y \in {from, top} => c2[x] = c[x]
             /\ x \notin {from, top} => c2[x] = c[x] \/ says[x] = c2[x] + s[x]
<1>13. ASSUME NEW x \in Logic, NEW y \in Logic, <<x, y>> \in O PROVE Facts(x, y)
  <2>1. m + more \in Nat
    BY <1>6, <1>8
  <2> DEFINE i == m + more
  <2> HIDE DEF O, c, c2, s, i
  <2>2. /\ x \notin {from, top} \/ y \notin {from, top}
        /\ x \notin {from, top} /\ y \notin {from, top} => c2[y] >= c2[x] + s[x]
        /\ x \in {from, top} => c2[y] >= i /\ (says[x] = i \/ i <= c[x] + s[x])
        /\ y \in {from, top} => c2[x] = c[x]
        /\ x \notin {from, top} => c2[x] = c[x] \/ says[x] = c2[x] + s[x]
    <3>1. Spread(Logic, O, from, top, c, s, i, says)
      BY <1>3 DEF i
    <3> QED BY <3>1, <1>3, <1>1, <1>10, <1>13, GrownLong
  <2> QED BY <2>2 DEF i
<1>14. ASSUME NEW e \in edges'
       PROVE  c2[Far(way, e)] >= c2[Near(way, e)] + s2[Near(way, e)]
  <2>1. PICK o \in E : /\ e[1] = IF o[1] = d THEN r ELSE o[1]
                       /\ e[2] = IF o[2] = d THEN r ELSE o[2]
    <3>1. \A f \in MovedEdges(E, d, r) :
            \E o \in E : /\ f[1] = IF o[1] = d THEN r ELSE o[1]
                        /\ f[2] = IF o[2] = d THEN r ELSE o[2]
      <4> HIDE DEF E
      <4> QED BY <1>1, <1>5, MovedEdgesAre
    <3> QED BY <1>4, <3>1
  <2> DEFINE x == Near(way, o)
             y == Far(way, o)
  <2>2. x \in Logic /\ y \in Logic /\ <<x, y>> \in O
    BY <1>11
  <2>3. /\ Near(way, e) = IF x = d THEN r ELSE x
        /\ Far(way, e) = IF y = d THEN r ELSE y
    BY <2>1 DEF Near, Far
  <2>4. Facts(x, y)
    BY <1>13, <2>2
  <2>5. /\ c[x] \in Nat /\ c2[x] \in Nat /\ c2[y] \in Nat /\ s[x] \in Nat
    BY <1>1, <1>7, <1>9, <2>2
  <2>6. CASE x \in {from, top}
    <3>1. Near(way, e) = r /\ Far(way, e) = y
      BY <1>4, <2>3, <2>4, <2>6
    <3>2. c2[y] >= m + more
      BY <2>4, <2>6
    <3> QED BY <1>3, <1>6, <3>1, <3>2
  <2>7. CASE y \in {from, top}
    <3>1. Near(way, e) = x /\ Far(way, e) = r /\ x \notin {from, top}
      BY <1>4, <2>3, <2>4, <2>7
    <3>2. c2[x] = c[x] /\ m >= c[x] + s[x]
      BY <1>8, <2>2, <2>4, <2>7
    <3>3. s2[x] = s[x]
      BY <1>6, <2>2, <3>1
    <3> QED BY <1>3, <3>1, <3>2, <3>3
  <2>8. CASE x \notin {from, top} /\ y \notin {from, top}
    <3>1. Near(way, e) = x /\ Far(way, e) = y
      BY <1>4, <2>3, <2>8
    <3>2. s2[x] = s[x] /\ c2[y] >= c2[x] + s[x]
      BY <1>6, <2>2, <2>4, <2>8
    <3> QED BY <3>1, <3>2
  <2> QED BY <2>6, <2>7, <2>8
<1>15. ASSUME NEW e \in edges'
       PROVE  /\ edgeCp'[way][e] \in Nat
              /\ edgeCp'[way][e] >= c2[Near(way, e)] + s2[Near(way, e)]
  <2> DEFINE x == Near(way, e)
             y == Far(way, e)
  <2>1. x \in Logic /\ x # d
    <3>1. e[1] \in Tasks \ {d} /\ e[2] \in Tasks \ {d}
      BY <1>4
    <3> QED BY <1>1, <3>1, TasksAreLogic DEF Near
  <2>2. c[x] \in Nat /\ c2[x] \in Nat /\ s[x] \in Nat /\ s2[x] \in Nat /\ says[x] \in Nat
    BY <1>1, <1>6, <1>7, <1>9, <2>1
  <2>3. CASE e \notin E
    <3>1. edgeCp'[way][e] = c2[x] + s2[x]
      BY <1>3, <1>6, <2>3
    <3>2. c2[x] + s2[x] \in Nat /\ c2[x] + s2[x] >= c2[x] + s2[x]
      <4> HIDE DEF c2, s2, x
      <4> QED BY <2>2
    <3> QED BY <3>1, <3>2
  <2>4. CASE e \in E
    <3>1. y \in Logic /\ <<x, y>> \in O /\ e \in edges
      BY <1>11, <2>4
    <3>2. Facts(x, y)
      BY <1>13, <2>1, <3>1
    <3> DEFINE k == edgeCp[way][e]
               k2 == edgeCp'[way][e]
    <3>3. k \in Nat /\ k >= c[x] + s[x]
      BY <1>7, <1>12, <2>1, <3>1
    <3>4. k2 = Max({k, says[x]})
      BY <1>3, <2>4
    <3>5. k2 \in Nat /\ k2 >= k /\ k2 >= says[x]
      <4> HIDE DEF k, k2, x
      <4> QED BY <2>2, <3>3, <3>4, MaxOfTwo
    <3>6. CASE x \in {from, top}
      <4>1. x = r
        BY <1>4, <2>1, <3>6
      <4>2. c2[x] + s2[x] = m + more
        BY <1>3, <1>6, <4>1
      <4>3. says[x] = m + more \/ m + more <= c[x] + s[x]
        BY <3>2, <3>6
      <4>4. m \in Nat /\ more \in Nat
        BY <1>6, <1>8
      <4>5. k2 >= c2[x] + s2[x]
        <5> HIDE DEF k, k2, x, m, more, s, s2, c, c2
        <5> QED BY <2>2, <3>3, <3>5, <4>2, <4>3, <4>4
      <4> QED BY <3>5, <4>5
    <3>7. CASE x \notin {from, top}
      <4>1. s2[x] = s[x]
        BY <1>6, <2>1, <3>7
      <4>2. c2[x] = c[x] \/ says[x] = c2[x] + s[x]
        BY <3>2, <3>7
      <4>5. k2 >= c2[x] + s2[x]
        <5> HIDE DEF k, k2, x, m, more, s, s2, c, c2
        <5> QED BY <2>2, <3>3, <3>5, <4>1, <4>2
      <4> QED BY <3>5, <4>5
    <3> QED BY <3>6, <3>7
  <2> QED BY <2>3, <2>4
<1>16. edgeCp'[way] \in [edges' -> Nat]
  <2>1. \A e \in edges' : edgeCp'[way][e] \in Nat
    BY <1>15
  <2>2. edgeCp'[way] = [e \in edges' |-> edgeCp'[way][e]]
    BY <1>3
  <2> QED BY <2>1, <2>2
<1> QED BY <1>9, <1>14, <1>15, <1>16 DEF LongAgain

LEMMA OtherWay ==
  ASSUME NEW N, NEW E \in SUBSET (N \X N), NEW way \in Ways, NEW other \in Ways, way # other,
         NEW x, NEW y, <<x, y>> \in Ahead(E, way)
  PROVE  <<y, x>> \in Ahead(E, other)
<1>1. CASE way = "FORWARD" /\ other = "REVERSE"
  <2>1. <<x, y>> \in E
    BY <1>1, AheadForward
  <2> QED BY <1>1, <2>1, AheadReverse
<1>2. CASE way = "REVERSE" /\ other = "FORWARD"
  <2>1. <<y, x>> \in E
    BY <1>2, AheadReverse
  <2> QED BY <1>2, <2>1, AheadForward
<1> QED BY <1>1, <1>2 DEF Ways

\* What grew is on a path through the merged mtask, and no longer than it.
LEMMA MergedWithinWay ==
  ASSUME NEW from, NEW top, NEW edge, NEW r, NEW d, MergedBy(from, top, edge, r, d),
         NEW way \in Ways, NEW other \in Ways, way # other,
         NEW t \in Logic \ {from, top}, cp'[way][t] # cp[way][t]
  PROVE  cp'[way][t] + StepOf(graph, mtask)[t] + cp'[other][t]
           <= (MergedCp(way, from, top, edge) + MergedStepCost(from, top))
              + MergedCp(other, from, top, edge)
<1> DEFINE E == edges \ edge
           s == StepOf(graph, mtask)
           m == MergedCp(other, from, top, edge)
           i == MergedCp(way, from, top, edge) + MergedStepCost(from, top)
           O == Ahead(E, way)
           R == Ahead(E, other)
           cr == cp'[other]
<1>0. Merging(from, top, edge)
  BY DEF MergedBy
<1>1. /\ TypeOK /\ graph \in Graphs /\ from \in Logic /\ top \in Logic
      /\ E \in SUBSET (Logic \X Logic) /\ Apart(Logic, E, from, top)
      /\ cp[other] \in [Logic -> Nat] /\ Long(R, cp[other], s)
  BY <1>0, MergingIs
<1>2. PICK says : MergedWay(from, top, edge, r, way, says)
  BY ContractWay
<1>3. PICK back : MergedWay(from, top, edge, r, other, back)
  BY ContractWay
<1>4. /\ Spread(Logic, O, from, top, cp[way], s, i, says)
      /\ Grown(Logic, O, from, top, cp[way], says, cp'[way])
  BY <1>2 DEF MergedWay
<1> DEFINE j == m + MergedStepCost(from, top)
<1>5. /\ Spread(Logic, R, from, top, cp[other], s, j, back)
      /\ Grown(Logic, R, from, top, cp[other], back, cr)
  BY <1>3 DEF MergedWay
<1>6. m \in Nat /\ \A x \in Logic, y \in {from, top} :
                      <<x, y>> \in R => m >= cp[other][x] + s[x]
  BY <1>0, MergedCpLong
<1>7. Apart(Logic, R, from, top)
  BY <1>1, AheadApart
<1>8. ASSUME NEW x \in Logic, NEW y \in Logic, <<x, y>> \in O
      PROVE  /\ x \notin {from, top} /\ y \notin {from, top} => cr[x] >= cr[y] + s[y]
             /\ x \in {from, top} => m >= cr[y] + s[y]
  <2>1. <<y, x>> \in R
    BY <1>1, <1>8, OtherWay
  <2> HIDE DEF R, O, s, m, i, j, cr
  <2>2. /\ y \notin {from, top} /\ x \notin {from, top} => cr[x] >= cr[y] + s[y]
        /\ x \in {from, top} => cr[y] = cp[other][y]
    BY <1>1, <1>5, <1>7, <2>1, GrownLong
  <2> QED BY <1>6, <2>1, <2>2
<1>9. cr \in [Logic -> Nat]
  BY <1>5 DEF Grown
<1>10. cp'[way][t] + s[t] + cr[t] <= i + m
  <2> DEFINE c == cp[way]
             c2 == cp'[way]
  <2>1. /\ Spread(Logic, O, from, top, c, s, i, says) /\ Grown(Logic, O, from, top, c, says, c2)
        /\ c2[t] # c[t]
    BY <1>4
  <2>2. /\ \A x, y \in Logic \ {from, top} : <<x, y>> \in O => cr[x] >= cr[y] + s[y]
        /\ \A x \in {from, top}, y \in Logic \ {from, top} : <<x, y>> \in O => m >= cr[y] + s[y]
    <3> HIDE DEF O, s, m, cr
    <3> QED BY <1>1, <1>8
  <2> HIDE DEF R, O, s, m, i, j, cr, c, c2
  <2>3. c2[t] + s[t] + cr[t] <= i + m
    BY <1>6, <1>9, <2>1, <2>2, GrownWithin
  <2> QED BY <2>3 DEF c2
<1> QED BY <1>10

-----------------------------------------------------------------------------
(* The limit.                                                               *)

LongestOf(g) ==
  LET path[u \in Logic] ==
        StepCost(g.cost[u]) + Highest(path, Earlier(g.deps, "FORWARD", u))
  IN Max({path[u] : u \in Logic})

IsLongest(g, path) ==
  path = [u \in Logic |-> StepCost(g.cost[u]) + Highest(path, Earlier(g.deps, "FORWARD", u))]

LongestPaths(g) == CHOOSE path : IsLongest(g, path)

StartSteps(g) == [l \in Logic |-> StepCost(g.cost[l])]

LEMMA GraphIs ==
  ASSUME NEW g \in Graphs
  PROVE  /\ g.tasks \subseteq Logic /\ g.deps \in SUBSET (Logic \X Logic)
         /\ g.deps \subseteq g.tasks \X g.tasks
         /\ HasNoCycle(Logic, g.deps) /\ StartSteps(g) \in [Logic -> Nat]
         /\ g.cost \in [Logic -> Nat] /\ IsFiniteSet(Logic)
<1>1. /\ g.tasks \subseteq Logic /\ g.deps \in SUBSET (Logic \X Logic) /\ g.cost \in [Logic -> Nat]
      /\ g.deps \subseteq g.tasks \X g.tasks /\ HasNoCycle(g.tasks, g.deps)
  BY DEF Graphs
<1>2. ASSUME NEW S \in SUBSET Logic, S # {}
      PROVE  \E t \in S : \A u \in S : <<u, t>> \notin g.deps
  <2>1. CASE S \cap g.tasks = {}
    <3>1. PICK t \in S : t \notin g.tasks
      BY <1>2, <2>1
    <3>2. \A u \in S : <<u, t>> \notin g.deps
      BY <1>1, <3>1
    <3> QED BY <3>2
  <2>2. CASE S \cap g.tasks # {}
    <3>1. S \cap g.tasks \in SUBSET g.tasks
      OBVIOUS
    <3>2. PICK t \in S \cap g.tasks : \A u \in S \cap g.tasks : <<u, t>> \notin g.deps
      BY <1>1, <2>2, <3>1 DEF HasNoCycle
    <3>3. \A u \in S : <<u, t>> \notin g.deps
      BY <1>1, <3>2
    <3> QED BY <3>2, <3>3
  <2> QED BY <2>1, <2>2
<1>3. HasNoCycle(Logic, g.deps)
  BY <1>2 DEF HasNoCycle
<1>4. StartSteps(g) \in [Logic -> Nat]
  BY <1>1, StepCostType DEF StartSteps
<1>5. IsFiniteSet(Logic)
  BY LogicAssumption DEF LogicAssumption
<1> QED BY <1>1, <1>3, <1>4, <1>5

LEMMA LongestIs ==
  ASSUME NEW g \in Graphs, NEW t \in Logic
  PROVE  /\ LongestOf(g) \in Nat
         /\ CriticalPath("FORWARD", g.deps, StartSteps(g))[t] + StartSteps(g)[t] <= LongestOf(g)
<1> DEFINE step == StartSteps(g)
           path == CriticalPath("FORWARD", g.deps, step)
           inc == Inclusive(path, step)
           q == LongestPaths(g)
           P == [u \in Logic |-> Earlier(g.deps, "FORWARD", u)]
           S == {inc[u] : u \in Logic}
<1>1. /\ g.deps \in SUBSET (Logic \X Logic) /\ HasNoCycle(Logic, g.deps)
      /\ step \in [Logic -> Nat] /\ IsFiniteSet(Logic) /\ "FORWARD" \in Ways
  BY GraphIs DEF Ways
<1>2. /\ path \in [Logic -> Nat]
      /\ \A u \in Logic : path[u] = Highest(inc, Earlier(g.deps, "FORWARD", u))
  <2> HIDE DEF step, inc
  <2>1. \A u \in Logic : path[u] = Highest(Inclusive(path, step), Earlier(g.deps, "FORWARD", u))
    BY <1>1, CriticalPathIs
  <2>2. path \in [Logic -> Nat]
    BY <1>1, CriticalPathIs
  <2> QED BY <2>1, <2>2 DEF inc
<1>3. P \in [Logic -> SUBSET Logic] /\ Founded(Logic, P)
  BY <1>1, AheadFounded
<1>4. \A u \in Logic : /\ inc[u] = path[u] + step[u] /\ inc[u] \in Nat
                        /\ step[u] = StepCost(g.cost[u]) /\ step[u] \in Nat
  BY <1>1, <1>2 DEF Inclusive, StartSteps
<1>5. \A u \in Logic : inc[u] = StepCost(g.cost[u]) + Highest(inc, P[u])
  <2> SUFFICES ASSUME NEW u \in Logic PROVE inc[u] = StepCost(g.cost[u]) + Highest(inc, P[u])
    OBVIOUS
  <2>1. path[u] = Highest(inc, P[u])
    BY <1>2
  <2>2. inc[u] = path[u] + step[u] /\ step[u] = StepCost(g.cost[u]) /\ step[u] \in Nat
        /\ path[u] \in Nat
    BY <1>2, <1>4
  <2> HIDE DEF inc, path, step, P
  <2> QED BY <2>1, <2>2
<1>6. IsLongest(g, inc)
  <2>1. \A u \in Logic : P[u] = Earlier(g.deps, "FORWARD", u)
    OBVIOUS
  <2>2. inc = [u \in Logic |-> inc[u]]
    BY DEF Inclusive
  <2> HIDE DEF inc, P
  <2> QED BY <1>5, <2>1, <2>2 DEF IsLongest
<1>7. IsLongest(g, q)
  <2> HIDE DEF inc
  <2> QED BY <1>6 DEF LongestPaths
<1>8. \A u \in Logic : q[u] = StepCost(g.cost[u]) + Highest(q, P[u])
  <2> HIDE DEF q
  <2> QED BY <1>7 DEF IsLongest
<1>9. \A u \in Logic : q[u] = inc[u]
  <2>1. \A u \in Logic : Highest(q, P[u]) = Highest(inc, P[u]) => q[u] = inc[u]
    <3> HIDE DEF q, inc, P
    <3> QED BY <1>5, <1>8
  <2> HIDE DEF q, inc, P
  <2> QED BY <1>3, <2>1, ThoseBeforeSame
<1>10. LongestOf(g) = Max({q[u] : u \in Logic})
  BY DEF LongestOf, LongestPaths, IsLongest
<1>11. {q[u] : u \in Logic} = S
  <2> HIDE DEF q, inc
  <2> QED BY <1>9
<1>12. S \in SUBSET Nat /\ S # {}
  <2> HIDE DEF inc
  <2> QED BY <1>4
<1>13. IsFiniteSet(S)
  <2> DEFINE k == [u \in Logic |-> inc[u]]
  <2>1. k \in Surjection(Logic, S)
    <3> HIDE DEF inc
    <3> QED BY DEF Surjection
  <2> HIDE DEF k, S
  <2> QED BY <1>1, <2>1, FS_Surjection
<1>14. Max(S) \in S /\ \A n \in S : Max(S) >= n
  <2> HIDE DEF S
  <2> QED BY <1>12, <1>13, Greatest
<1>15. Max(S) \in Nat /\ inc[t] <= Max(S)
  <2>1. inc[t] \in S
    OBVIOUS
  <2> HIDE DEF S
  <2>2. Max(S) >= inc[t] /\ Max(S) \in Nat
    BY <1>12, <1>14, <2>1
  <2>3. inc[t] \in Nat
    BY <1>4
  <2> HIDE DEF inc
  <2> QED BY <2>2, <2>3
<1> HIDE DEF S, inc
<1> QED BY <1>4, <1>10, <1>11, <1>15

LEMMA LongestIsLongestOf == LongestAtStart = LongestOf(graph)
BY DEF LongestAtStart, LongestOf

LEMMA WithinMore ==
  ASSUME NEW g \in Graphs, NEW t \in Logic, NEW n \in Nat, NEW limit \in Nat,
         n <= limit \/ n <= LongestOf(g)
  PROVE  n <= Max({limit, LongestOf(g)})
<1>1. LongestOf(g) \in Nat
  BY LongestIs
<1> DEFINE l == LongestOf(g)
           m == Max({limit, l})
<1>2. m \in Nat /\ m >= limit /\ m >= l
  <2> HIDE DEF l
  <2> QED BY <1>1, MaxOfTwo DEF l
<1>3. n <= limit \/ n <= l
  OBVIOUS
<1>4. l \in Nat
  BY <1>1
<1>5. n <= m
  <2> HIDE DEF l, m
  <2> QED BY <1>2, <1>3, <1>4
<1> QED BY <1>5

LEMMA MergedWithin ==
  ASSUME NEW from, NEW top, NEW edge, NEW r, NEW d, MergedBy(from, top, edge, r, d)
  PROVE  WithinLimit'
<1> DEFINE s == StepOf(graph, mtask)
           s2 == StepOf(graph', mtask')
           mF == MergedCp("FORWARD", from, top, edge)
           mR == MergedCp("REVERSE", from, top, edge)
           more == MergedStepCost(from, top)
           L == Max({scoreLimit, LongestOf(graph)})
           F == cp["FORWARD"]
           R == cp["REVERSE"]
           F2 == cp'["FORWARD"]
           R2 == cp'["REVERSE"]
<1>0. Merging(from, top, edge) /\ PartInv
  BY DEF MergedBy, Merging
<1>1. /\ TypeOK /\ graph \in Graphs /\ "FORWARD" \in Ways /\ "REVERSE" \in Ways
      /\ F \in [Logic -> Nat] /\ R \in [Logic -> Nat] /\ scoreLimit \in Nat
  BY <1>0, MergingIs DEF Ways, TypeOK
<1>2. /\ graph' = graph
      /\ (r = from /\ d = top) \/ (r = top /\ d = from)
      /\ Tasks' = Tasks \ {d}
  <2>1. MergedGraph(from, top, edge, r, d)
    BY MergedTasks
  <2>2. graph' = graph /\ r # d /\ {r, d} = {from, top} /\ Tasks' = Tasks \ {d}
    BY <2>1 DEF MergedGraph
  <2> QED BY <2>2
<1>3. Tasks \subseteq Logic
  BY <1>1, TasksAreLogic
<1>4. /\ more \in Nat /\ s2[r] = more
      /\ \A t \in Logic \ {from, top} : s2[t] = s[t]
      /\ \A t \in Logic : stepCost(t)' = s2[t]
  <2>1. \A t \in Logic \ {r, d} : s2[t] = s[t]
    BY MergedCosts
  <2>2. more \in Nat /\ s2[r] = more /\ \A t \in Logic : stepCost(t)' = s2[t]
    BY MergedCosts
  <2> HIDE DEF s, s2, more
  <2> QED BY <1>2, <2>1, <2>2
<1>5. s \in [Logic -> Nat] /\ \A t \in Logic : s[t] = stepCost(t)
  BY <1>1, StepOfIs
<1>6. F2 \in [Logic -> Nat] /\ R2 \in [Logic -> Nat] /\ F2[r] = mF /\ R2[r] = mR
  <2>1. PICK says : MergedWay(from, top, edge, r, "FORWARD", says)
    BY <1>1, ContractWay
  <2>2. PICK back : MergedWay(from, top, edge, r, "REVERSE", back)
    BY <1>1, ContractWay
  <2> QED BY <2>1, <2>2 DEF MergedWay, Grown
<1>7. mF \in Nat /\ mR \in Nat
  BY <1>0, <1>1, MergedCpLong
<1>8. mF + more + mR <= scoreLimit
  <2>1. edge = {} \/ edge = {<<from, top>>}
    BY <1>0 DEF Merging
  <2>2. Cardinality(edge) \in Nat
    <3>1. CASE edge = {}
      <4>1. Cardinality({}) = 0
        BY FS_EmptySet
      <4> QED BY <3>1, <4>1
    <3>2. CASE edge = {<<from, top>>}
      <4>1. Cardinality({<<from, top>>}) = 1
        BY FS_Singleton
      <4> QED BY <3>2, <4>1
    <3> QED BY <2>1, <3>1, <3>2
  <2>3. mF + mR + more + Cardinality(edge) <= scoreLimit
    BY <1>0 DEF Merging, Score
  <2> DEFINE k == Cardinality(edge)
  <2>4. k \in Nat /\ mF + mR + more + k <= scoreLimit
    BY <2>2, <2>3
  <2> HIDE DEF mF, mR, more, k
  <2> QED BY <1>1, <1>4, <1>7, <2>4
<1>9. \A t \in Tasks : F[t] + stepCost(t) + R[t] <= L
  BY <1>0, LongestIsLongestOf DEF PartInv, WithinLimit
<1>10. ASSUME NEW t \in Tasks' PROVE F2[t] + s2[t] + R2[t] <= L
  <2>1. t \in Logic /\ t \in Tasks /\ t # d
    BY <1>2, <1>3
  <2>2. F2[t] \in Nat /\ R2[t] \in Nat /\ F[t] \in Nat /\ R[t] \in Nat /\ s[t] \in Nat
    BY <1>1, <1>5, <1>6, <2>1
  <2>3. ASSUME F2[t] + s2[t] + R2[t] <= mF + more + mR PROVE F2[t] + s2[t] + R2[t] <= L
    <3> DEFINE n == F2[t] + s2[t] + R2[t]
    <3>1. s2[t] \in Nat
      BY <1>2, <1>4, <2>1, <2>2
    <3>2. n \in Nat /\ n <= scoreLimit
      <4> HIDE DEF F2, R2, s2, mF, mR, more
      <4> QED BY <1>1, <1>4, <1>7, <1>8, <2>2, <2>3, <3>1
    <3>3. n <= L
      <4> HIDE DEF n
      <4> QED BY <1>1, <2>1, <3>2, WithinMore
    <3> QED BY <3>3
  <2>4. CASE t = r
    <3>1. F2[t] + s2[t] + R2[t] <= mF + more + mR
      <4>1. F2[t] = mF /\ R2[t] = mR /\ s2[t] = more
        BY <1>4, <1>6, <2>4
      <4> HIDE DEF F2, R2, s2, mF, mR, more
      <4> QED BY <1>4, <1>7, <4>1
    <3> QED BY <2>3, <3>1
  <2>5. CASE t # r
    <3>1. t \in Logic \ {from, top} /\ s2[t] = s[t]
      BY <1>2, <1>4, <2>1, <2>5
    <3>2. CASE F2[t] # F[t]
      <4>1. F2[t] + s[t] + R2[t] <= (mF + more) + mR
        BY <1>1, <3>1, <3>2, MergedWithinWay
      <4> QED BY <2>3, <3>1, <4>1
    <3>3. CASE R2[t] # R[t]
      <4>1. R2[t] + s[t] + F2[t] <= (mR + more) + mF
        BY <1>1, <3>1, <3>3, MergedWithinWay
      <4>2. F2[t] + s2[t] + R2[t] <= mF + more + mR
        <5> HIDE DEF F2, R2, s2, s, mF, mR, more
        <5> QED BY <1>4, <1>7, <2>2, <3>1, <4>1
      <4> QED BY <2>3, <4>2
    <3>4. CASE F2[t] = F[t] /\ R2[t] = R[t]
      <4>1. F[t] + s[t] + R[t] <= L
        BY <1>5, <1>9, <2>1
      <4> QED BY <3>1, <3>4, <4>1
    <3> QED BY <3>2, <3>3, <3>4
  <2> QED BY <2>4, <2>5
<1>11. scoreLimit' = scoreLimit
  BY DEF MergedBy, Contract
<1>12. LongestAtStart' = LongestOf(graph')
  <2>1. (LongestAtStart = LongestOf(graph))'
    BY LongestIsLongestOf, PTL
  <2> QED BY <2>1
<1>13. \A t \in Tasks' : stepCost(t)' = s2[t]
  BY <1>2, <1>3, <1>4
<1>14. Max({scoreLimit', LongestAtStart'}) = L
  <2>1. scoreLimit' = scoreLimit /\ LongestAtStart' = LongestOf(graph)
    <3>1. graph' = graph
      BY <1>2
    <3>2. LongestOf(graph') = LongestOf(graph)
      BY <3>1
    <3> QED BY <1>11, <1>12, <3>2
  <2>2. {scoreLimit', LongestAtStart'} = {scoreLimit, LongestOf(graph)}
    BY <2>1
  <2> QED BY <2>2
<1>15. \A t \in Tasks' : F2[t] + stepCost(t)' + R2[t] <= Max({scoreLimit', LongestAtStart'})
  <2> HIDE DEF F2, R2, s2, L
  <2> QED BY <1>10, <1>13, <1>14
<1> QED BY <1>15 DEF WithinLimit

-----------------------------------------------------------------------------
(* A merge keeps the invariant.                                             *)

LEMMA PairsFromAre ==
  ASSUME NEW T, NEW E \in SUBSET (T \X T), NEW step, NEW c, NEW way, NEW t, NEW exhaustive,
         NEW p \in PairsFrom(E, step, c, way, t, exhaustive)
  PROVE  Cardinality(p) = 2 /\ p \subseteq T
<1>1. p \in kSubset(2, Relatives(E, way, t))
  BY DEF PairsFrom
<1>2. p \subseteq Relatives(E, way, t) /\ Cardinality(p) = 2
  BY <1>1 DEF kSubset
<1>3. Relatives(E, way, t) \subseteq T
  BY DEF Relatives, Near, Far
<1> QED BY <1>2, <1>3

LEMMA PairsAroundAre ==
  ASSUME NEW T, NEW E \in SUBSET (T \X T), NEW step, NEW c, NEW t,
         NEW p \in PairsAround(E, step, c, t)
  PROVE  Cardinality(p) = 2 /\ p \subseteq T
<1> DEFINE A == UNION {PairsFrom(E, step, c, way, t, TRUE) : way \in Ways}
           B == UNION {PairsFrom(E, step, c, "REVERSE", u, FALSE) : u \in Relatives(E, "FORWARD", t)}
           C == UNION {PairsFrom(E, step, c, "FORWARD", u, FALSE) : u \in Relatives(E, "REVERSE", t)}
<1>1. CASE p \in A
  <2>1. PICK way \in Ways : p \in PairsFrom(E, step, c, way, t, TRUE)
    BY <1>1
  <2> QED BY <2>1, PairsFromAre
<1>2. CASE p \in B
  <2>1. PICK u \in Relatives(E, "FORWARD", t) : p \in PairsFrom(E, step, c, "REVERSE", u, FALSE)
    BY <1>2
  <2> QED BY <2>1, PairsFromAre
<1>3. CASE p \in C
  <2>1. PICK u \in Relatives(E, "REVERSE", t) : p \in PairsFrom(E, step, c, "FORWARD", u, FALSE)
    BY <1>3
  <2> QED BY <2>1, PairsFromAre
<1>4. PairsAround(E, step, c, t) = A \cup B \cup C
  BY DEF PairsAround
<1> HIDE DEF A, B, C
<1> QED BY <1>1, <1>2, <1>3, <1>4

LEMMA MergedTypes ==
  ASSUME NEW from, NEW top, NEW edge, NEW r, NEW d, MergedBy(from, top, edge, r, d)
  PROVE  TypeOK' /\ Prepared' /\ CpSound' /\ EdgeCpSound'
<1>0. Merging(from, top, edge) /\ Contract(from, top, edge) /\ PartInv /\ pc = "contract"
  BY DEF MergedBy, Merging
<1>1. TypeOK /\ graph \in Graphs /\ from \in Logic /\ top \in Logic /\ empty = {}
  BY <1>0, MergingIs DEF PartInv, Prepared
<1>2. /\ graph' = graph /\ r \in Tasks /\ d \in Tasks /\ r # d /\ {r, d} = {from, top}
      /\ mtask' \in [Logic -> Logic]
      /\ Tasks' = Tasks \ {d} /\ \A t \in Tasks' : mtask'[t] = t
      /\ edges' \subseteq Tasks' \X Tasks'
  <2>1. MergedGraph(from, top, edge, r, d)
    BY MergedTasks
  <2> QED BY <2>1 DEF MergedGraph
<1>3. /\ pc' = pc /\ scoreLimit' = scoreLimit /\ empty' = empty
      /\ offEdges' \subseteq offEdges
      /\ pairs' = PairsWithout(from, top)
                    \cup PairsAround(edges', StepCosts(mtask'), cp', Recipient(from, top))
      /\ offPairs' = offPairs \cap PairsWithout(from, top)
      /\ cp' = [way \in Ways |-> cp'[way]]
  BY <1>0 DEF Contract
<1>4. \A way \in Ways : LongAgain(way)
  BY MergedLong
<1>5. cp' \in [Ways -> [Logic -> Nat]]
  BY <1>3, <1>4 DEF LongAgain
<1>6. \A way \in Ways : edgeCp'[way] \in [edges' -> Nat]
  BY <1>4 DEF LongAgain
<1>7. ASSUME NEW p \in pairs' PROVE Cardinality(p) = 2 /\ p \subseteq Tasks'
  <2>1. CASE p \in PairsWithout(from, top)
    <3>1. p \in pairs /\ from \notin p /\ top \notin p
      BY <2>1 DEF PairsWithout
    <3>2. Cardinality(p) = 2 /\ p \subseteq Tasks
      BY <1>1, <3>1 DEF TypeOK
    <3>3. d \notin p
      BY <1>2, <3>1
    <3> QED BY <1>2, <3>2, <3>3
  <2>2. CASE p \in PairsAround(edges', StepCosts(mtask'), cp', Recipient(from, top))
    <3> DEFINE E == edges'
               T == Tasks'
               q == StepCosts(mtask')
               c == cp'
               t == Recipient(from, top)
    <3>1. E \in SUBSET (T \X T) /\ p \in PairsAround(E, q, c, t)
      BY <1>2, <2>2
    <3> HIDE DEF E, T, q, c, t
    <3>2. Cardinality(p) = 2 /\ p \subseteq T
      BY <3>1, PairsAroundAre
    <3> QED BY <3>2 DEF T
  <2> QED BY <1>3, <2>1, <2>2
<1>8. offPairs' \subseteq pairs'
  BY <1>3
<1>9. offEdges' \subseteq Logic \X Logic
  BY <1>1, <1>3 DEF TypeOK
<1>10. scoreLimit' \in Nat /\ pc' = "contract" /\ empty' = {}
  BY <1>0, <1>1, <1>3 DEF TypeOK
<1>11. TypeOK'
  BY <1>2, <1>5, <1>6, <1>7, <1>8, <1>9, <1>10 DEF TypeOK
<1>12. Prepared'
  BY <1>1, <1>2, <1>10 DEF Prepared
<1>13. ASSUME NEW way \in Ways, NEW e \in edges'
       PROVE  /\ cp'[way][Far(way, e)] >= cp'[way][Near(way, e)] + stepCost(Near(way, e))'
              /\ edgeCp'[way][e] >= cp'[way][Near(way, e)] + stepCost(Near(way, e))'
  <2>1. Near(way, e) \in Logic
    <3>1. e[1] \in Logic /\ e[2] \in Logic
      BY <1>1, <1>2, TasksAreLogic
    <3> QED BY <3>1 DEF Near
  <2>2. (\A t \in Logic : stepCost(t) = StepOf(graph, mtask)[t])'
    BY StepIs, PTL
  <2>3. stepCost(Near(way, e))' = StepOf(graph', mtask')[Near(way, e)]
    BY <2>1, <2>2
  <2> QED BY <1>4, <2>3 DEF LongAgain
<1>14. CpSound' /\ EdgeCpSound'
  BY <1>13 DEF CpSound, EdgeCpSound
<1> QED BY <1>11, <1>12, <1>14

LEMMA MergedOrder ==
  ASSUME NEW from, NEW top, NEW edge, NEW r, NEW d, MergedBy(from, top, edge, r, d)
  PROVE  HasNoCycle(Logic, edges') /\ DepsKept'
<1> DEFINE E == edges \ edge
<1>0. Merging(from, top, edge) /\ Contract(from, top, edge) /\ PartInv
  BY DEF MergedBy, Merging
<1>1. /\ TypeOK /\ graph \in Graphs /\ from \in Logic /\ top \in Logic
      /\ E \in SUBSET (Logic \X Logic) /\ HasNoCycle(Logic, E) /\ Apart(Logic, E, from, top)
  BY <1>0, MergingIs
<1>2. /\ graph' = graph /\ r # d
      /\ (r = from /\ d = top) \/ (r = top /\ d = from)
      /\ mtask' = Moved(mtask, d, r) /\ edges' = MovedEdges(E, d, r)
  <2>1. MergedGraph(from, top, edge, r, d)
    BY MergedTasks
  <2> QED BY <2>1 DEF MergedGraph
<1>3. r \in Logic /\ d \in Logic
  BY <1>1, <1>2
<1>4. /\ edges' \in SUBSET (Logic \X Logic)
      /\ \A e \in edges' : \E o \in E : /\ e[1] = IF o[1] = d THEN r ELSE o[1]
                                       /\ e[2] = IF o[2] = d THEN r ELSE o[2]
      /\ \A o \in E : <<IF o[1] = d THEN r ELSE o[1], IF o[2] = d THEN r ELSE o[2]>> \in edges'
  <2> HIDE DEF E
  <2>1. /\ MovedEdges(E, d, r) \in SUBSET ((Logic \ {d}) \X (Logic \ {d}))
        /\ \A e \in MovedEdges(E, d, r) :
              \E o \in E : /\ e[1] = IF o[1] = d THEN r ELSE o[1]
                          /\ e[2] = IF o[2] = d THEN r ELSE o[2]
        /\ \A o \in E : <<IF o[1] = d THEN r ELSE o[1], IF o[2] = d THEN r ELSE o[2]>>
                           \in MovedEdges(E, d, r)
    BY <1>1, <1>2, <1>3, MovedEdgesAre
  <2>2. MovedEdges(E, d, r) \in SUBSET (Logic \X Logic)
    BY <2>1
  <2> QED BY <1>2, <2>1, <2>2
<1>5. HasNoCycle(Logic, edges')
  <2>1. ~Before(Logic, E, r, d) /\ ~Before(Logic, E, d, r)
    BY <1>1, <1>2 DEF Apart
  <2> DEFINE F == edges'
  <2>2. /\ F \in SUBSET (Logic \X Logic)
        /\ \A e \in F : \E o \in E : /\ e[1] = IF o[1] = d THEN r ELSE o[1]
                                    /\ e[2] = IF o[2] = d THEN r ELSE o[2]
    BY <1>4
  <2> HIDE DEF E, F
  <2>3. HasNoCycle(Logic, F)
    BY <1>1, <1>2, <1>3, <2>1, <2>2, MergeNoCycle
  <2> QED BY <2>3 DEF F
<1> DEFINE h == [x \in Logic |-> IF x = d THEN r ELSE x]
           F == edges'
           D == edges
<1>6. h \in [Logic -> Logic] /\ D \in SUBSET (Logic \X Logic)
  BY <1>1, <1>3, TasksAreLogic
<1>7. ASSUME NEW e \in D PROVE <<h[e[1]], h[e[2]]>> \in F \/ h[e[1]] = h[e[2]]
  <2>1. e[1] \in Logic /\ e[2] \in Logic
    BY <1>6
  <2>2. CASE e \in E
    BY <1>4, <2>1, <2>2
  <2>3. CASE e \in edge
    <3>1. edge = {<<from, top>>}
      BY <1>0, <2>3 DEF Merging
    <3>2. e[1] = from /\ e[2] = top
      BY <2>3, <3>1
    <3>3. h[from] = r /\ h[top] = r
      BY <1>1, <1>2
    <3> QED BY <3>2, <3>3
  <2> QED BY <2>2, <2>3
<1>8. ASSUME NEW k \in graph.tasks, NEW l \in graph.tasks,
             Before(Logic, graph.deps, k, l)
      PROVE  Before(Logic, F, mtask'[k], mtask'[l])
  <2>1. k \in Logic /\ l \in Logic /\ mtask[k] \in Logic /\ mtask[l] \in Logic
    BY <1>1, GraphIs DEF TypeOK
  <2>2. Before(Logic, D, mtask[k], mtask[l])
    <3>1. empty = {}
      BY <1>0 DEF PartInv, Prepared, Merging
    <3> QED BY <1>0, <1>8, <3>1 DEF PartInv, DepsKept
  <2>3. mtask'[k] = h[mtask[k]] /\ mtask'[l] = h[mtask[l]]
    BY <1>2, <2>1 DEF Moved
  <2>4. Before(Logic, F, h[mtask[k]], h[mtask[l]])
    <3> HIDE DEF h, F, D, E
    <3> QED BY <1>6, <1>7, <2>1, <2>2, BeforeMerged
  <2> QED BY <2>3, <2>4
<1>9. DepsKept'
  BY <1>2, <1>8 DEF DepsKept
<1> QED BY <1>5, <1>9

LEMMA ContractKeeps ==
  ASSUME NEW from, NEW top, NEW edge, Merging(from, top, edge), Contract(from, top, edge)
  PROVE  PartInv'
<1> DEFINE r == Recipient(from, top)
           d == Donor(from, top)
<1>1. MergedBy(from, top, edge, r, d)
  BY DEF MergedBy
<1> HIDE DEF r, d
<1>2. TypeOK' /\ Prepared' /\ CpSound' /\ EdgeCpSound'
  BY <1>1, MergedTypes
<1>3. HasNoCycle(Logic, edges') /\ DepsKept'
  BY <1>1, MergedOrder
<1>4. WithinLimit'
  BY <1>1, MergedWithin
<1> QED BY <1>2, <1>3, <1>4 DEF PartInv

-----------------------------------------------------------------------------
(* The other steps.                                                         *)

LEMMA SameTasks ==
  ASSUME graph' = graph, mtask' = mtask
  PROVE  /\ Tasks' = Tasks
         /\ \A t \in Logic : stepCost(t)' = stepCost(t)
         /\ LongestAtStart' = LongestAtStart
<1>1. Tasks' = Tasks
  BY DEF Tasks
<1>2. \A t \in Logic : stepCost(t)' = StepOf(graph', mtask')[t]
  <2>1. (\A t \in Logic : stepCost(t) = StepOf(graph, mtask)[t])'
    BY StepIs, PTL
  <2> QED BY <2>1
<1>3. \A t \in Logic : stepCost(t)' = StepOf(graph, mtask)[t]
  <2>1. StepOf(graph', mtask') = StepOf(graph, mtask)
    OBVIOUS
  <2> QED BY <1>2, <2>1
<1>4. \A t \in Logic : stepCost(t)' = stepCost(t)
  BY <1>3, StepIs
<1>5. LongestAtStart' = LongestOf(graph')
  <2>1. (LongestAtStart = LongestOf(graph))'
    BY LongestIsLongestOf, PTL
  <2> QED BY <2>1
<1>6. LongestOf(graph') = LongestOf(graph)
  OBVIOUS
<1> QED BY <1>1, <1>4, <1>5, <1>6, LongestIsLongestOf

\* Steps that merge nothing, take edges away at most, and only raise the limit.
LEMMA QuietKeeps ==
  ASSUME PartInv, graph' = graph, mtask' = mtask, cp' = cp, edgeCp' = edgeCp, pairs' = pairs,
         edges' \subseteq edges, edges' = edges \/ pc' # "contract",
         empty' = empty, pc # "final" \/ pc' = "final",
         pc' \in {"idle", "contract", "contracted", "partitioned", "final"},
         pc' = "idle" \/ pc' = "contract" => pc' = pc, pc' = "idle" => offPairs' = offPairs,
         offEdges' \subseteq Logic \X Logic, offPairs' \subseteq pairs',
         scoreLimit' \in Nat, scoreLimit' >= scoreLimit,
         DepsKept'
  PROVE  PartInv'
<1>0. TypeOK /\ Prepared /\ graph \in Graphs /\ CpSound /\ EdgeCpSound /\ WithinLimit
      /\ HasNoCycle(Logic, edges)
  BY DEF PartInv, Prepared
<1>1. /\ Tasks' = Tasks /\ LongestAtStart' = LongestAtStart
      /\ \A t \in Logic : stepCost(t)' = stepCost(t)
  BY SameTasks
<1>2. Tasks \subseteq Logic /\ edges \in SUBSET (Logic \X Logic)
  BY <1>0, TasksAreLogic
<1>3. TypeOK'
  <2>1. edges' \subseteq Tasks' \X Tasks' /\ \A t \in Tasks' : mtask'[t] = t
    BY <1>0, <1>1 DEF TypeOK
  <2>2. pc' = "contract" => \A way \in Ways : edgeCp'[way] \in [edges' -> Nat]
    BY <1>0 DEF TypeOK
  <2>3. \A p \in pairs' : Cardinality(p) = 2 /\ p \subseteq Tasks'
    BY <1>0, <1>1 DEF TypeOK
  <2>4. cp' \in [Ways -> [Logic -> Nat]] /\ mtask' \in [Logic -> Logic] /\ empty' \subseteq Tasks'
    BY <1>0, <1>1 DEF TypeOK
  <2> QED BY <2>1, <2>2, <2>3, <2>4 DEF TypeOK
<1>4. Prepared'
  BY <1>0 DEF Prepared
<1>5. HasNoCycle(Logic, edges')
  BY <1>0, NoCycleFewer
<1>6. ASSUME NEW way \in Ways, NEW e \in edges' PROVE stepCost(Near(way, e))' = stepCost(Near(way, e))
  <2>1. e[1] \in Logic /\ e[2] \in Logic
    BY <1>2
  <2>2. Near(way, e) \in Logic
    BY <2>1 DEF Near
  <2> QED BY <1>1, <2>2
<1>7. CpSound'
  BY <1>0, <1>6 DEF CpSound
<1>8. EdgeCpSound'
  BY <1>0, <1>6 DEF EdgeCpSound
<1>9. WithinLimit'
  <2> SUFFICES ASSUME NEW t \in Tasks'
               PROVE  cp["FORWARD"][t] + stepCost(t) + cp["REVERSE"][t]
                        <= Max({scoreLimit', LongestOf(graph)})
    BY <1>1, <1>2, LongestIsLongestOf DEF WithinLimit
  <2> DEFINE n == cp["FORWARD"][t] + stepCost(t) + cp["REVERSE"][t]
             l == LongestOf(graph)
             m == Max({scoreLimit, l})
  <2>1. t \in Tasks /\ t \in Logic
    BY <1>1, <1>2
  <2>2. n \in Nat
    <3>1. cp["FORWARD"] \in [Logic -> Nat] /\ cp["REVERSE"] \in [Logic -> Nat]
      BY <1>0 DEF TypeOK, Ways
    <3>2. stepCost(t) \in Nat /\ cp["FORWARD"][t] \in Nat /\ cp["REVERSE"][t] \in Nat
      BY <1>0, <2>1, <3>1, StepOfIs
    <3> QED BY <3>2
  <2>3. n <= m
    BY <1>0, <2>1, LongestIsLongestOf DEF WithinLimit
  <2>4. l \in Nat
    BY <1>0, <2>1, LongestIs
  <2>5. scoreLimit \in Nat
    BY <1>0 DEF TypeOK
  <2>6. m = scoreLimit \/ m = l
    <3> HIDE DEF l
    <3> QED BY <2>4, <2>5, MaxOfTwo
  <2>7. n <= scoreLimit' \/ n <= l
    <3> HIDE DEF n, l, m
    <3> QED BY <2>2, <2>3, <2>4, <2>5, <2>6
  <2> HIDE DEF n
  <2>8. n <= Max({scoreLimit', l})
    BY <1>0, <2>1, <2>2, <2>7, WithinMore
  <2> QED BY <2>8 DEF n
<1> QED BY <1>3, <1>4, <1>5, <1>7, <1>8, <1>9 DEF PartInv

LEMMA OrderStays ==
  ASSUME PartInv, graph' = graph, mtask' = mtask, edges' = edges, empty' = empty
  PROVE  DepsKept'
BY DEF PartInv, DepsKept

LEMMA DropEdgeKeeps ==
  ASSUME PartInv, NEW e \in edges, DropEdge(e) PROVE PartInv'
<1>1. TypeOK /\ graph \in Graphs
  BY DEF PartInv, Prepared
<1>2. e \in Logic \X Logic
  BY <1>1, TasksAreLogic
<1>3. offEdges' \subseteq Logic \X Logic /\ offPairs' \subseteq pairs' /\ scoreLimit \in Nat
  BY <1>1, <1>2 DEF DropEdge, TypeOK
<1>4. pc = "contract" /\ pc' = "contract"
  BY DEF DropEdge, Ready
<1>5. DepsKept'
  BY OrderStays DEF DropEdge
<1> QED BY <1>3, <1>4, <1>5, QuietKeeps DEF DropEdge

LEMMA DropPairKeeps ==
  ASSUME PartInv, NEW p \in pairs, DropPair(p) PROVE PartInv'
<1>1. TypeOK
  BY DEF PartInv
<1>2. offEdges' \subseteq Logic \X Logic /\ offPairs' \subseteq pairs' /\ scoreLimit \in Nat
  BY <1>1 DEF DropPair, TypeOK
<1>3. pc = "contract" /\ pc' = "contract"
  BY DEF DropPair, Ready
<1>4. DepsKept'
  BY OrderStays DEF DropPair
<1> QED BY <1>2, <1>3, <1>4, QuietKeeps DEF DropPair

LEMMA RaiseLimitKeeps ==
  ASSUME PartInv, RaiseLimit PROVE PartInv'
<1>1. TypeOK
  BY DEF PartInv
<1>2. offEdges' \subseteq Logic \X Logic /\ offPairs' \subseteq pairs' /\ scoreLimit \in Nat
  BY <1>1 DEF RaiseLimit, TypeOK
<1>3. pc = "contract" /\ pc' = "contract"
  BY DEF RaiseLimit, NoneReady
<1>4. DepsKept'
  BY OrderStays DEF RaiseLimit
<1>5. scoreLimit' \in Nat /\ scoreLimit' >= scoreLimit
  <2>1. scoreLimit' = (scoreLimit * 120) \div 100
    BY DEF RaiseLimit, RaisedLimit
  <2> QED BY <1>2, <2>1
<1> QED BY <1>2, <1>3, <1>4, <1>5, QuietKeeps DEF RaiseLimit

LEMMA StopKeeps ==
  ASSUME PartInv, Stop PROVE PartInv'
<1>1. TypeOK
  BY DEF PartInv
<1>2. offEdges' \subseteq Logic \X Logic /\ offPairs' \subseteq pairs' /\ scoreLimit \in Nat
  BY <1>1 DEF Stop, TypeOK
<1>3. pc = "contract" /\ pc' = "contracted"
  BY DEF Stop, NoneReady
<1>4. DepsKept'
  BY OrderStays DEF Stop
<1> QED BY <1>2, <1>3, <1>4, QuietKeeps DEF Stop

LEMMA UnchangedKeeps ==
  ASSUME PartInv, UNCHANGED vars PROVE PartInv'
<1>1. TypeOK
  BY DEF PartInv
<1>2. /\ graph' = graph /\ pc' = pc /\ mtask' = mtask /\ edges' = edges /\ cp' = cp
      /\ edgeCp' = edgeCp /\ offEdges' = offEdges /\ pairs' = pairs /\ offPairs' = offPairs
      /\ scoreLimit' = scoreLimit /\ empty' = empty
  BY DEF vars
<1>3. /\ offEdges' \subseteq Logic \X Logic /\ offPairs' \subseteq pairs' /\ scoreLimit \in Nat
      /\ pc \in {"idle", "contract", "contracted", "partitioned", "final"}
  BY <1>1, <1>2 DEF TypeOK
<1>4. DepsKept'
  BY <1>2, OrderStays
<1> QED BY <1>2, <1>3, <1>4, QuietKeeps

LEMMA ReducedIs ==
  ASSUME NEW E \in SUBSET (Logic \X Logic), HasNoCycle(Logic, E), IsFiniteSet(Logic),
         NEW t \in Logic, NEW u \in Logic, Before(Logic, E, t, u)
  PROVE  Before(Logic, Reduced(E), t, u)
<1> DEFINE F == Reduced(E)
<1>1. \A e \in E : e \in F \/ Before(Logic, E \ {e}, e[1], e[2])
  BY DEF Reduced
<1> HIDE DEF F
<1>2. Before(Logic, F, t, u)
  BY <1>1, ReducedOrder
<1> QED BY <1>2 DEF F

LEMMA RemoveTransitiveKeeps ==
  ASSUME PartInv, RemoveTransitiveEdges PROVE PartInv'
<1>1. /\ TypeOK /\ graph \in Graphs /\ HasNoCycle(Logic, edges)
      /\ DepsKept /\ empty' = empty /\ graph' = graph /\ mtask' = mtask
  BY DEF PartInv, Prepared, RemoveTransitiveEdges
<1>2. offEdges' \subseteq Logic \X Logic /\ offPairs' \subseteq pairs' /\ scoreLimit \in Nat
  BY <1>1 DEF RemoveTransitiveEdges, TypeOK
<1>3. pc = "contracted" /\ pc' = "partitioned"
  BY DEF RemoveTransitiveEdges
<1>4. edges' = Reduced(edges) /\ edges' \subseteq edges
  BY DEF RemoveTransitiveEdges, Reduced
<1>5. ASSUME NEW k \in graph.tasks, NEW l \in graph.tasks, Before(Logic, graph.deps, k, l),
             {mtask[k], mtask[l]} \cap empty = {}
      PROVE  Before(Logic, edges', mtask[k], mtask[l])
  <2>1. k \in Logic /\ l \in Logic
    BY <1>1, GraphIs
  <2>2. mtask[k] \in Logic /\ mtask[l] \in Logic
    BY <1>1, <2>1 DEF TypeOK
  <2>3. Before(Logic, edges, mtask[k], mtask[l])
    BY <1>1, <1>5 DEF DepsKept
  <2>4. edges \in SUBSET (Logic \X Logic) /\ IsFiniteSet(Logic)
    BY <1>1, TasksAreLogic
  <2>5. Before(Logic, Reduced(edges), mtask[k], mtask[l])
    BY <1>1, <2>2, <2>3, <2>4, ReducedIs
  <2> QED BY <1>4, <2>5
<1>6. DepsKept'
  BY <1>1, <1>5 DEF DepsKept
<1> QED BY <1>2, <1>3, <1>4, <1>6, QuietKeeps DEF RemoveTransitiveEdges

LEMMA BypassedIs ==
  ASSUME NEW E \in SUBSET (Logic \X Logic), HasNoCycle(Logic, E), IsFiniteSet(Logic),
         NEW T \in SUBSET Logic
  PROVE  /\ Bypassed(E, T) \in SUBSET ((Logic \ T) \X (Logic \ T))
         /\ HasNoCycle(Logic, Bypassed(E, T))
         /\ \A t, u \in Logic \ T :
              Before(Logic, E, t, u) => Before(Logic, Bypassed(E, T), t, u)
<1> DEFINE F == Bypassed(E, T)
<1>1. F \in SUBSET ((Logic \ T) \X (Logic \ T))
  BY DEF Bypassed
<1>2. \A e \in F : e \in E \/ Bridge(E, T, e[1], e[2])
  BY DEF Bypassed, Bridge
<1>3. ASSUME NEW x \in Logic \ T, NEW y \in Logic \ T,
             \/ <<x, y>> \in E
             \/ \E t, u \in T : /\ <<x, t>> \in E /\ <<u, y>> \in E
                                /\ Before(T, {d \in E : d[1] \in T /\ d[2] \in T}, t, u)
      PROVE  <<x, y>> \in F
  BY <1>3 DEF Bypassed
<1>4. HasNoCycle(Logic, F)
  <2> HIDE DEF F
  <2>1. F \in SUBSET (Logic \X Logic) /\ \A e \in F : e[1] \notin T /\ e[2] \notin T
    BY <1>1
  <2> QED BY <1>2, <2>1, BridgedNoCycle
<1>5. ASSUME NEW t \in Logic \ T, NEW u \in Logic \ T, Before(Logic, E, t, u)
      PROVE  Before(Logic, F, t, u)
  <2> HIDE DEF F
  <2> QED BY <1>3, <1>5, BridgedOrder
<1> HIDE DEF F
<1>6. F = Bypassed(E, T)
  BY DEF F
<1> QED BY <1>1, <1>4, <1>5, <1>6

LEMMA RemoveEmptyKeeps ==
  ASSUME PartInv, NEW T \in SUBSET Tasks, RemoveEmpty(T) PROVE PartInv'
<1> DEFINE B == Bypassed(edges, T)
<1>1. /\ TypeOK /\ graph \in Graphs /\ HasNoCycle(Logic, edges) /\ DepsKept /\ WithinLimit
      /\ pc = "partitioned" /\ empty = {}
  BY DEF PartInv, Prepared, RemoveEmpty
<1>2. /\ graph' = graph /\ mtask' = mtask /\ cp' = cp /\ pairs' = pairs /\ offPairs' = offPairs
      /\ offEdges' = offEdges /\ scoreLimit' = scoreLimit /\ pc' = "final" /\ empty' = T
      /\ edges' = Reduced(B)
  BY DEF RemoveEmpty
<1>3. /\ Tasks \subseteq Logic /\ edges \in SUBSET (Logic \X Logic) /\ IsFiniteSet(Logic)
      /\ T \in SUBSET Logic /\ graph.tasks \subseteq Logic
  BY <1>1, TasksAreLogic
<1>4. /\ B \in SUBSET ((Logic \ T) \X (Logic \ T)) /\ HasNoCycle(Logic, B)
      /\ \A t, u \in Logic \ T : Before(Logic, edges, t, u) => Before(Logic, B, t, u)
  BY <1>1, <1>3, BypassedIs
<1>5. B \in SUBSET (Logic \X Logic)
  <2> HIDE DEF B
  <2> QED BY <1>4
<1>6. /\ Tasks' = Tasks /\ LongestAtStart' = LongestAtStart
      /\ \A t \in Logic : stepCost(t)' = stepCost(t)
  BY <1>2, SameTasks
<1>7. edges' \subseteq Tasks \X Tasks
  <2> SUFFICES ASSUME NEW e \in B PROVE e \in Tasks \X Tasks
    BY <1>2 DEF Reduced
  <2>1. edges \subseteq Tasks \X Tasks
    BY <1>1 DEF TypeOK
  <2>2. e = <<e[1], e[2]>>
    <3> HIDE DEF B
    <3> QED BY <1>5
  <2>3. CASE e \in edges
    BY <2>1, <2>3
  <2>4. CASE \E t, u \in T : <<e[1], t>> \in edges /\ <<u, e[2]>> \in edges
    BY <2>1, <2>2, <2>4
  <2> QED BY <2>3, <2>4 DEF Bypassed
<1>8. TypeOK'
  <2>1. \A p \in pairs' : Cardinality(p) = 2 /\ p \subseteq Tasks'
    BY <1>1, <1>2, <1>6 DEF TypeOK
  <2>2. \A t \in Tasks' : mtask'[t] = t
    BY <1>1, <1>2, <1>6 DEF TypeOK
  <2>3. mtask' \in [Logic -> Logic] /\ cp' \in [Ways -> [Logic -> Nat]]
        /\ offEdges' \subseteq Logic \X Logic /\ offPairs' \subseteq pairs' /\ scoreLimit' \in Nat
    BY <1>1, <1>2 DEF TypeOK
  <2> HIDE DEF B
  <2> QED BY <1>2, <1>6, <1>7, <2>1, <2>2, <2>3 DEF TypeOK
<1>9. Prepared'
  BY <1>1, <1>2 DEF Prepared
<1>10. HasNoCycle(Logic, edges')
  <2>1. edges' \subseteq B
    BY <1>2 DEF Reduced
  <2> HIDE DEF B
  <2> QED BY <1>4, <2>1, NoCycleFewer
<1>11. ASSUME NEW k \in graph.tasks, NEW l \in graph.tasks, Before(Logic, graph.deps, k, l),
              {mtask[k], mtask[l]} \cap T = {}
       PROVE  Before(Logic, edges', mtask[k], mtask[l])
  <2>1. k \in Logic /\ l \in Logic
    BY <1>3
  <2>2. mtask[k] \in Logic \ T /\ mtask[l] \in Logic \ T
    BY <1>1, <1>11, <2>1 DEF TypeOK
  <2>3. Before(Logic, edges, mtask[k], mtask[l])
    BY <1>1, <1>11 DEF DepsKept
  <2>4. Before(Logic, B, mtask[k], mtask[l])
    BY <1>4, <2>2, <2>3
  <2> HIDE DEF B
  <2>5. Before(Logic, Reduced(B), mtask[k], mtask[l])
    BY <1>3, <1>4, <1>5, <2>2, <2>4, ReducedIs
  <2> QED BY <1>2, <2>5
<1>12. DepsKept'
  BY <1>2, <1>11 DEF DepsKept
<1>13. CpSound' /\ EdgeCpSound'
  BY <1>2 DEF CpSound, EdgeCpSound
<1>14. WithinLimit'
  BY <1>1, <1>2, <1>3, <1>6 DEF WithinLimit
<1> QED BY <1>8, <1>9, <1>10, <1>12, <1>13, <1>14 DEF PartInv

LEMMA ContractEdgeIs ==
  ASSUME PartInv, NEW e \in edges, ContractEdge(e)
  PROVE  Merging(e[1], e[2], {e}) /\ Contract(e[1], e[2], {e})
<1>1. TypeOK /\ graph \in Graphs /\ HasNoCycle(Logic, edges)
  BY DEF PartInv, Prepared
<1>2. e = <<e[1], e[2]>> /\ e[1] \in Tasks /\ e[2] \in Tasks
  BY <1>1 DEF TypeOK
<1>3. e[1] # e[2]
  <2>1. e[1] \in Logic
    BY <1>1, <1>2, TasksAreLogic
  <2> QED BY <1>1, <1>2, <2>1, NoLoop
<1>4. Merging(e[1], e[2], {e})
  BY <1>2, <1>3 DEF ContractEdge, Ready, Merging
<1>5. Contract(e[1], e[2], {e})
  BY DEF ContractEdge
<1> QED BY <1>4, <1>5

LEMMA ContractPairIs ==
  ASSUME PartInv, NEW p \in pairs, ContractPair(p)
  PROVE  Merging(Bp(p), Ap(p), {}) /\ Contract(Bp(p), Ap(p), {})
<1>1. TypeOK /\ graph \in Graphs
  BY DEF PartInv, Prepared
<1>2. Cardinality(p) = 2 /\ p \subseteq Tasks /\ p \subseteq Logic
  BY <1>1, TasksAreLogic DEF TypeOK
<1>3. Bp(p) \in Tasks /\ Ap(p) \in Tasks /\ Bp(p) # Ap(p)
  BY <1>2, TwoOf DEF Ap, Bp
<1>4. Merging(Bp(p), Ap(p), {})
  BY <1>3 DEF ContractPair, Ready, Merging
<1>5. Contract(Bp(p), Ap(p), {})
  BY DEF ContractPair
<1> QED BY <1>4, <1>5

LEMMA MergeKeeps ==
  ASSUME PartInv, Merge PROVE PartInv'
<1>1. ASSUME NEW e \in edges, ContractEdge(e) PROVE PartInv'
  BY <1>1, ContractEdgeIs, ContractKeeps
<1>2. ASSUME NEW e \in edges, DropEdge(e) PROVE PartInv'
  BY <1>2, DropEdgeKeeps
<1>3. ASSUME NEW p \in pairs, ContractPair(p) PROVE PartInv'
  BY <1>3, ContractPairIs, ContractKeeps
<1>4. ASSUME NEW p \in pairs, DropPair(p) PROVE PartInv'
  BY <1>4, DropPairKeeps
<1>5. ASSUME NEW T \in SUBSET Tasks, RemoveEmpty(T) PROVE PartInv'
  BY <1>5, RemoveEmptyKeeps
<1> QED BY <1>1, <1>2, <1>3, <1>4, <1>5, RaiseLimitKeeps, StopKeeps, RemoveTransitiveKeeps DEF Merge

-----------------------------------------------------------------------------
(* The first critical paths.                                                *)

\* A path through t is a path from its first to its last mtask.
LEMMA ThroughLongest ==
  ASSUME NEW g \in Graphs, NEW t \in Logic
  PROVE  CriticalPath("FORWARD", g.deps, StartSteps(g))[t] + StartSteps(g)[t]
           + CriticalPath("REVERSE", g.deps, StartSteps(g))[t] <= LongestOf(g)
<1> DEFINE s == StartSteps(g)
           F == CriticalPath("FORWARD", g.deps, s)
           R == CriticalPath("REVERSE", g.deps, s)
           L == LongestOf(g)
           Bad == {u \in Logic : ~(F[u] + s[u] + R[u] <= L)}
<1>1. /\ g.deps \in SUBSET (Logic \X Logic) /\ HasNoCycle(Logic, g.deps)
      /\ s \in [Logic -> Nat] /\ IsFiniteSet(Logic) /\ "FORWARD" \in Ways /\ "REVERSE" \in Ways
  BY GraphIs DEF Ways
<1>2. F \in [Logic -> Nat] /\ Long(Ahead(g.deps, "FORWARD"), F, s)
  <2> HIDE DEF s
  <2> QED BY <1>1, CriticalPathIs
<1>3. /\ R \in [Logic -> Nat]
      /\ \A u \in Logic :
           R[u] = 0 \/ \E v \in Logic : /\ <<v, u>> \in Ahead(g.deps, "REVERSE")
                                       /\ R[u] = R[v] + s[v]
  <2> HIDE DEF s
  <2>1. R \in [Logic -> Nat]
    BY <1>1, CriticalPathIs
  <2> SUFFICES ASSUME NEW u \in Logic
               PROVE  R[u] = 0 \/ \E v \in Logic : /\ <<v, u>> \in Ahead(g.deps, "REVERSE")
                                                   /\ R[u] = R[v] + s[v]
    BY <2>1
  <2>2. R = CriticalPath("REVERSE", g.deps, s)
    OBVIOUS
  <2> HIDE DEF R
  <2> QED BY <1>1, <2>2, CriticalPathIs
<1>4. Long(g.deps, F, s)
  <2> HIDE DEF F, s
  <2> QED BY <1>1, <1>2, AheadForward
<1>5. L \in Nat /\ \A u \in Logic : F[u] + s[u] <= L
  BY LongestIs
<1>6. Bad = {}
  <2> SUFFICES ASSUME Bad # {} PROVE FALSE
    OBVIOUS
  <2>1. Bad \in SUBSET Logic
    OBVIOUS
  <2>2. PICK u \in Bad : \A v \in Bad : <<u, v>> \notin g.deps
    <3> HIDE DEF Bad
    <3> QED BY <1>1, <2>1, SomeLast
  <2>3. u \in Logic /\ ~(F[u] + s[u] + R[u] <= L)
    OBVIOUS
  <2>4. F[u] \in Nat /\ s[u] \in Nat /\ R[u] \in Nat /\ F[u] + s[u] <= L
    <3> HIDE DEF F, R, s, L, Bad
    <3> QED BY <1>1, <1>2, <1>3, <1>5, <2>3
  <2>5. CASE R[u] = 0
    <3> HIDE DEF F, R, s, L, Bad
    <3> QED BY <2>3, <2>4, <2>5
  <2>6. ASSUME NEW v \in Logic, <<v, u>> \in Ahead(g.deps, "REVERSE"), R[u] = R[v] + s[v]
        PROVE  FALSE
    <3>1. <<u, v>> \in g.deps
      BY <1>1, <2>6, AheadReverse
    <3>2. F[v] >= F[u] + s[u]
      <4> HIDE DEF F, s
      <4> QED BY <1>4, <3>1 DEF Long
    <3>3. F[v] + s[v] + R[v] <= L
      BY <2>2, <3>1
    <3>4. F[v] \in Nat /\ s[v] \in Nat /\ R[v] \in Nat
      <4> HIDE DEF F, R, s, L
      <4> QED BY <1>1, <1>2, <1>3
    <3> HIDE DEF F, R, s, L, Bad
    <3> QED BY <1>5, <2>3, <2>4, <2>6, <3>2, <3>3, <3>4
  <2> HIDE DEF F, R, s, L, Bad
  <2> QED BY <1>3, <2>3, <2>5, <2>6
<1>7. F[t] + s[t] + R[t] <= L
  BY <1>6
<1> QED BY <1>7

\* What Begin(g) leaves.
Begun(g) ==
  /\ graph' = g /\ mtask' = mtask /\ edges' = g.deps /\ pc' = "contract"
  /\ cp' = [way \in Ways |-> CriticalPath(way, g.deps, StartSteps(g))]
  /\ edgeCp' = [way \in Ways |->
                  [e \in g.deps |-> cp'[way][Near(way, e)] + StartSteps(g)[Near(way, e)]]]
  /\ offEdges' = offEdges /\ offPairs' = {} /\ empty' = {}
  /\ \A p \in pairs' : Cardinality(p) = 2 /\ p \subseteq g.tasks

PairsAtStart(T, E, step, c) ==
  UNION {UNION {PairsFrom(E, step, c, way, t, TRUE) : way \in Ways} : t \in T}

LEMMA PairsAtStartAre ==
  ASSUME NEW T, NEW E \in SUBSET (T \X T), NEW step, NEW c, NEW p \in PairsAtStart(T, E, step, c)
  PROVE  Cardinality(p) = 2 /\ p \subseteq T
<1>1. PICK t \in T : p \in UNION {PairsFrom(E, step, c, way, t, TRUE) : way \in Ways}
  BY DEF PairsAtStart
<1>2. PICK way \in Ways : p \in PairsFrom(E, step, c, way, t, TRUE)
  BY <1>1
<1> QED BY <1>2, PairsFromAre

LEMMA BeginIs ==
  ASSUME PartInv, NEW g \in Graphs, Begin(g)
  PROVE  Begun(g) /\ mtask = [l \in Logic |-> l] /\ TypeOK /\ pc = "idle"
<1> DEFINE s == StartSteps(g)
           path == [way \in Ways |-> CriticalPath(way, g.deps, s)]
<1>1. /\ pc = "idle" /\ TypeOK /\ mtask = [l \in Logic |-> l] /\ offPairs = {} /\ empty = {}
  BY DEF PartInv, Prepared, Begin
<1>2. /\ graph' = g /\ mtask' = mtask /\ edges' = g.deps /\ pc' = "contract"
      /\ offEdges' = offEdges /\ offPairs' = offPairs /\ empty' = empty
      /\ cp' = path
      /\ edgeCp' = [way \in Ways |-> [e \in g.deps |-> path[way][Near(way, e)] + s[Near(way, e)]]]
  BY DEF Begin, StartSteps
<1>3. pairs' = PairsAtStart(g.tasks, g.deps, s, path)
  BY DEF Begin, StartSteps, PairsAtStart
<1>4. ASSUME NEW p \in pairs' PROVE Cardinality(p) = 2 /\ p \subseteq g.tasks
  <2> DEFINE T == g.tasks
             E == g.deps
  <2>1. E \in SUBSET (T \X T)
    BY GraphIs
  <2> HIDE DEF T, E, s, path
  <2>2. p \in PairsAtStart(T, E, s, path)
    BY <1>3, <1>4 DEF T, E
  <2>3. Cardinality(p) = 2 /\ p \subseteq T
    BY <2>1, <2>2, PairsAtStartAre
  <2> QED BY <2>3 DEF T
<1> QED BY <1>1, <1>2, <1>4 DEF Begun

LEMMA FirstLimit ==
  ASSUME NEW g \in Graphs, Begin(g) PROVE scoreLimit' \in Nat
<1> DEFINE n == Sum(g.cost, g.tasks)
           d == Threads * 5
<1>1. g.tasks \subseteq Logic /\ g.cost \in [Logic -> Nat] /\ IsFiniteSet(Logic)
  BY GraphIs
<1>2. IsFiniteSet(g.tasks) /\ \A x \in g.tasks : g.cost[x] \in Nat
  BY <1>1, FS_Subset
<1>3. n \in Nat
  BY <1>2, SumIs
<1>4. d \in Nat /\ d > 0
  BY ContractionAssumption DEF ContractionAssumption
<1>5. scoreLimit' = (3 * n) \div d
  BY DEF Begin, Sum
<1>6. (3 * n) \div d \in Nat
  <2> HIDE DEF n, d
  <2>1. 3 * n \in Nat
    BY <1>3
  <2> QED BY <1>4, <2>1
<1> QED BY <1>5, <1>6

LEMMA StepIsNext == (\A t \in Logic : stepCost(t) = StepOf(graph, mtask)[t])'
BY StepIs, PTL

LEMMA BegunPaths ==
  ASSUME NEW g \in Graphs, Begun(g), mtask = [l \in Logic |-> l]
  PROVE  /\ Tasks' = g.tasks
         /\ \A t \in g.tasks : stepCost(t)' = StartSteps(g)[t]
         /\ \A way \in Ways :
              /\ cp'[way] = CriticalPath(way, g.deps, StartSteps(g))
              /\ cp'[way] \in [Logic -> Nat]
              /\ Long(Ahead(g.deps, way), cp'[way], StartSteps(g))
         /\ LongestAtStart' = LongestOf(g)
<1>1. graph' = g /\ mtask' = [l \in Logic |-> l] /\ g.tasks \subseteq Logic
  BY GraphIs DEF Begun
<1>2. Tasks' = g.tasks
  BY <1>1 DEF Tasks
<1>0. (\A t \in Logic : stepCost(t) = StepOf(graph, mtask)[t])'
  BY StepIsNext
<1>3. ASSUME NEW t \in g.tasks PROVE stepCost(t)' = StartSteps(g)[t]
  <2>1. t \in Logic
    BY <1>1
  <2>3. stepCost(t)' = StepOf(graph', mtask')[t]
    BY <1>0, <2>1
  <2>4. stepCost(t)' = StepOf(g, mtask')[t]
    BY <1>1, <2>3
  <2>5. StepOf(g, mtask')[t] = StepCost(CostOf(g, mtask', t))
    BY <2>1 DEF StepOf
  <2>6. CostOf(g, mtask', t) = g.cost[t]
    BY <1>1, CostAlone
  <2>7. StartSteps(g)[t] = StepCost(g.cost[t])
    BY <2>1 DEF StartSteps
  <2> QED BY <2>4, <2>5, <2>6, <2>7
<1>4. ASSUME NEW way \in Ways
      PROVE  /\ cp'[way] = CriticalPath(way, g.deps, StartSteps(g))
             /\ cp'[way] \in [Logic -> Nat]
             /\ Long(Ahead(g.deps, way), cp'[way], StartSteps(g))
  <2> DEFINE path == cp'[way]
             s == StartSteps(g)
  <2>1. path = CriticalPath(way, g.deps, s)
    BY DEF Begun
  <2>2. g.deps \in SUBSET (Logic \X Logic) /\ HasNoCycle(Logic, g.deps) /\ s \in [Logic -> Nat]
    BY GraphIs
  <2> HIDE DEF path, s
  <2>3. path \in [Logic -> Nat] /\ Long(Ahead(g.deps, way), path, s)
    BY <2>1, <2>2, CriticalPathIs
  <2> QED BY <2>1, <2>3 DEF path, s
<1>5. LongestAtStart' = LongestOf(g)
  <2>1. (LongestAtStart = LongestOf(graph))'
    BY LongestIsLongestOf, PTL
  <2> QED BY <1>1, <2>1
<1> QED BY <1>2, <1>3, <1>4, <1>5

LEMMA BeginKeeps ==
  ASSUME PartInv, NEW g \in Graphs, Begin(g) PROVE PartInv'
<1> DEFINE s == StartSteps(g)
<1>1. Begun(g) /\ mtask = [l \in Logic |-> l] /\ TypeOK /\ scoreLimit' \in Nat
  BY BeginIs, FirstLimit
<1>2. /\ graph' = g /\ mtask' = mtask /\ edges' = g.deps /\ pc' = "contract"
      /\ cp' = [way \in Ways |-> CriticalPath(way, g.deps, s)]
      /\ edgeCp' = [way \in Ways |-> [e \in g.deps |-> cp'[way][Near(way, e)] + s[Near(way, e)]]]
      /\ offEdges' = offEdges /\ offPairs' = {} /\ empty' = {}
      /\ \A p \in pairs' : Cardinality(p) = 2 /\ p \subseteq g.tasks
  BY <1>1 DEF Begun
<1>3. /\ g.tasks \subseteq Logic /\ g.deps \in SUBSET (Logic \X Logic)
      /\ g.deps \subseteq g.tasks \X g.tasks /\ HasNoCycle(Logic, g.deps)
      /\ s \in [Logic -> Nat]
  BY GraphIs
<1>4. /\ Tasks' = g.tasks
      /\ \A t \in g.tasks : stepCost(t)' = s[t]
      /\ \A way \in Ways :
           /\ cp'[way] = CriticalPath(way, g.deps, s)
           /\ cp'[way] \in [Logic -> Nat]
           /\ Long(Ahead(g.deps, way), cp'[way], s)
      /\ LongestAtStart' = LongestOf(g)
  BY <1>1, BegunPaths
<1> HIDE DEF s
<1>5. ASSUME NEW way \in Ways, NEW e \in g.deps
      PROVE  /\ Near(way, e) \in g.tasks /\ Near(way, e) \in Logic
             /\ cp'[way][Far(way, e)] >= cp'[way][Near(way, e)] + s[Near(way, e)]
             /\ edgeCp'[way][e] = cp'[way][Near(way, e)] + s[Near(way, e)]
  <2>1. e[1] \in g.tasks /\ e[2] \in g.tasks
    BY <1>3
  <2>2. Near(way, e) \in g.tasks
    BY <2>1 DEF Near
  <2> DEFINE o == <<Near(way, e), Far(way, e)>>
  <2>3. o \in Ahead(g.deps, way)
    BY DEF Ahead
  <2>4. cp'[way][o[2]] >= cp'[way][o[1]] + s[o[1]]
    <3> HIDE DEF o
    <3> QED BY <1>4, <2>3 DEF Long
  <2>5. edgeCp'[way] = [d \in g.deps |-> cp'[way][Near(way, d)] + s[Near(way, d)]]
    BY <1>2
  <2> QED BY <1>3, <2>2, <2>4, <2>5
<1>6. ASSUME NEW way \in Ways PROVE edgeCp'[way] \in [g.deps -> Nat]
  <2>1. edgeCp'[way] = [d \in g.deps |-> cp'[way][Near(way, d)] + s[Near(way, d)]]
    BY <1>2
  <2>2. ASSUME NEW e \in g.deps PROVE cp'[way][Near(way, e)] + s[Near(way, e)] \in Nat
    <3>1. cp'[way][Near(way, e)] \in Nat /\ s[Near(way, e)] \in Nat
      BY <1>3, <1>4, <1>5
    <3> QED BY <3>1
  <2> QED BY <2>1, <2>2
<1>7. TypeOK'
  <2>1. cp' \in [Ways -> [Logic -> Nat]]
    BY <1>2, <1>4
  <2>2. mtask' \in [Logic -> Logic] /\ \A t \in Tasks' : mtask'[t] = t
    BY <1>1, <1>2, <1>3, <1>4
  <2>3. offEdges' \subseteq Logic \X Logic
    BY <1>1, <1>2 DEF TypeOK
  <2> QED BY <1>1, <1>2, <1>3, <1>4, <1>6, <2>1, <2>2, <2>3 DEF TypeOK
<1>8. Prepared'
  BY <1>2 DEF Prepared
<1>9. DepsKept'
  <2>1. ASSUME NEW k \in g.tasks, NEW l \in g.tasks, Before(Logic, g.deps, k, l)
        PROVE  Before(Logic, edges', mtask'[k], mtask'[l])
    <3>1. mtask'[k] = k /\ mtask'[l] = l
      BY <1>1, <1>2, <1>3
    <3> QED BY <1>2, <2>1, <3>1
  <2> QED BY <1>2, <2>1 DEF DepsKept
<1>10. CpSound' /\ EdgeCpSound'
  <2>1. ASSUME NEW way \in Ways, NEW e \in edges'
        PROVE  /\ cp'[way][Far(way, e)] >= cp'[way][Near(way, e)] + stepCost(Near(way, e))'
               /\ edgeCp'[way][e] >= cp'[way][Near(way, e)] + stepCost(Near(way, e))'
    <3>1. e \in g.deps
      BY <1>2
    <3>2. stepCost(Near(way, e))' = s[Near(way, e)]
      BY <1>4, <1>5, <3>1
    <3>3. cp'[way][Near(way, e)] + s[Near(way, e)] \in Nat
      BY <1>5, <1>6, <3>1
    <3> QED BY <1>5, <3>1, <3>2, <3>3
  <2> QED BY <2>1 DEF CpSound, EdgeCpSound
<1>11. WithinLimit'
  <2>1. ASSUME NEW t \in g.tasks
        PROVE  cp'["FORWARD"][t] + s[t] + cp'["REVERSE"][t] <= Max({scoreLimit', LongestOf(g)})
    <3> DEFINE n == cp'["FORWARD"][t] + s[t] + cp'["REVERSE"][t]
    <3>1. t \in Logic /\ "FORWARD" \in Ways /\ "REVERSE" \in Ways
      BY <1>3 DEF Ways
    <3>2. n \in Nat
      <4>1. cp'["FORWARD"][t] \in Nat /\ cp'["REVERSE"][t] \in Nat /\ s[t] \in Nat
        BY <1>3, <1>4, <3>1
      <4> QED BY <4>1
    <3>3. n <= LongestOf(g)
      BY <1>4, <3>1, ThroughLongest DEF s
    <3> HIDE DEF n
    <3>4. n <= Max({scoreLimit', LongestOf(g)})
      BY <1>1, <3>1, <3>2, <3>3, WithinMore
    <3> QED BY <3>4 DEF n
  <2> QED BY <1>4, <2>1 DEF WithinLimit
<1> QED BY <1>2, <1>3, <1>7, <1>8, <1>9, <1>10, <1>11 DEF PartInv

LEMMA InitKeeps ==
  ASSUME Init PROVE PartInv
<1>1. /\ graph.tasks = {} /\ graph \in Graphs /\ Tasks = {}
  <2>1. graph = [tasks |-> {}, deps |-> {}, cost |-> [l \in Logic |-> 0]]
    BY DEF Init
  <2>2. HasNoCycle({}, {})
    BY DEF HasNoCycle
  <2>3. graph \in Graphs
    BY <2>1, <2>2 DEF Graphs
  <2> QED BY <2>1, <2>3 DEF Tasks
<1>2. HasNoCycle(Logic, edges)
  BY DEF Init, HasNoCycle
<1>3. TypeOK
  BY <1>1 DEF Init, TypeOK
<1>4. Prepared
  BY <1>1 DEF Init, Prepared
<1>5. DepsKept /\ CpSound /\ EdgeCpSound
  BY <1>1 DEF Init, DepsKept, CpSound, EdgeCpSound
<1>6. WithinLimit
  BY <1>1 DEF WithinLimit
<1> QED BY <1>2, <1>3, <1>4, <1>5, <1>6 DEF PartInv

\* PartInv is inductive.
LEMMA PartInductive ==
  ASSUME PartInv, [Next]_vars PROVE PartInv'
BY BeginKeeps, MergeKeeps, UnchangedKeeps DEF Next

LEMMA PartInvImplies ==
  ASSUME PartInv PROVE TypeOK /\ Acyclic /\ DepsKept /\ CpSound /\ SearchIsExact /\ WithinLimit
<1>1. Tasks \subseteq Logic /\ HasNoCycle(Logic, edges)
  BY TasksAreLogic DEF PartInv, Prepared
<1>2. Acyclic
  BY <1>1 DEF Acyclic, HasNoCycle
<1> QED BY <1>2, SearchIsExactInv DEF PartInv

\* Whatever graph PartContraction is given and in whatever order its candidates
\* come up, its mtasks stay in an order, their dependencies are kept, and the
\* critical paths stay long enough for the search to be exact and short enough
\* for the limit.
THEOREM Contracting == Spec => [](TypeOK /\ Acyclic /\ DepsKept /\ CpSound /\ SearchIsExact /\ WithinLimit)
<1>1. Init => PartInv
  BY InitKeeps
<1>2. PartInv /\ [Next]_vars => PartInv'
  BY PartInductive
<1>3. PartInv => TypeOK /\ Acyclic /\ DepsKept /\ CpSound /\ SearchIsExact /\ WithinLimit
  BY PartInvImplies
<1> QED BY <1>1, <1>2, <1>3, PTL DEF Spec

-----------------------------------------------------------------------------
(* The cached critical paths are no longer than those of the costs before   *)
(* they were rounded, by more than the rounding.  (Those of the rounded     *)
(* costs may become shorter at a merge, these may not.)                     *)

Close(n, m) == 100 * n <= StepPercent * m

LEMMA CloseIs ==
  ASSUME NEW n \in Nat, NEW m \in Nat
  PROVE  /\ Close(0, m)
         /\ \A k \in Nat : Close(n, m) /\ m <= k => Close(n, k)
         /\ \A k, l \in Nat : Close(n, m) /\ Close(k, l) => Close(n + k, m + l)
         /\ \A k \in Nat : Close(n, m) /\ Close(k, m) => Close(Max({n, k}), m)
<1> DEFINE P == StepPercent
<1>1. P \in Nat
  BY ContractionAssumption DEF ContractionAssumption
<1> HIDE DEF P
<1>2. \A x, y \in Nat : P * (x + y) = P * x + P * y /\ P * x \in Nat
  BY <1>1
<1>3. Close(0, m)
  <2>1. 100 * 0 <= P * m
    BY <1>2
  <2> QED BY <2>1 DEF Close, P
<1>4. ASSUME NEW k \in Nat, Close(n, m), m <= k PROVE Close(n, k)
  <2>1. PICK j \in Nat : k = m + j
    <3>1. k - m \in Nat /\ k = m + (k - m)
      BY <1>4
    <3> QED BY <3>1
  <2>2. P * k = P * m + P * j /\ P * m \in Nat /\ P * j \in Nat
    BY <1>2, <2>1
  <2>3. 100 * n <= P * m
    BY <1>4 DEF Close, P
  <2>4. 100 * n <= P * k
    BY <2>2, <2>3
  <2> QED BY <2>4 DEF Close, P
<1>5. ASSUME NEW k \in Nat, NEW l \in Nat, Close(n, m), Close(k, l) PROVE Close(n + k, m + l)
  <2>1. 100 * n <= P * m /\ 100 * k <= P * l
    BY <1>5 DEF Close, P
  <2>2. P * (m + l) = P * m + P * l /\ P * m \in Nat /\ P * l \in Nat
    BY <1>2
  <2>3. 100 * (n + k) <= P * (m + l)
    BY <2>1, <2>2
  <2> QED BY <2>3 DEF Close, P
<1>6. ASSUME NEW k \in Nat, Close(n, m), Close(k, m) PROVE Close(Max({n, k}), m)
  <2>1. Max({n, k}) = n \/ Max({n, k}) = k
    BY MaxOfTwo
  <2> QED BY <1>6, <2>1
<1> QED BY <1>3, <1>4, <1>5, <1>6

LEMMA CloseSum ==
  ASSUME NEW n \in Nat, NEW m \in Nat, NEW k \in Nat, NEW l \in Nat, Close(n, m), Close(k, l)
  PROVE  Close(n + k, m + l)
BY CloseIs

LEMMA CloseMax ==
  ASSUME NEW n \in Nat, NEW k \in Nat, NEW m \in Nat, Close(n, m), Close(k, m),
         NEW z, z = Max({n, k})
  PROVE  Close(z, m)
BY CloseIs

LEMMA StepCostClose ==
  ASSUME NEW n \in Nat
  PROVE  StepCost(n) \in Nat /\ StepCost(n) >= n /\ Close(StepCost(n), n)
<1> DEFINE enough == {s \in Steps : s >= n}
<1>0. StepPercent \in Nat /\ StepPercent >= 100 /\ Steps \subseteq Nat
  BY ContractionAssumption DEF ContractionAssumption
<1>1. CASE enough = {}
  <2>1. StepCost(n) = n
    BY <1>1 DEF StepCost
  <2>2. 100 * n <= StepPercent * n
    BY <1>0
  <2> QED BY <2>1, <2>2 DEF Close
<1>2. CASE enough # {}
  <2> DEFINE f == [x \in enough |-> x]
  <2>2. f \in [enough -> Nat]
    BY <1>0
  <2>3. PICK x \in enough : \A y \in enough : f[x] <= f[y]
    <3> HIDE DEF f, enough
    <3> QED BY <1>2, <2>2, LeastRank
  <2>4. \A y \in enough : x <= y
    BY <2>3
  <2>5. Min(enough) \in enough /\ \A y \in enough : Min(enough) <= y
    <3> HIDE DEF enough
    <3> QED BY <2>4 DEF Min
  <2>6. StepCost(n) = Min(enough)
    BY <1>2 DEF StepCost
  <2> DEFINE s == Min(enough)
  <2>7. s \in Steps /\ s \in Nat /\ s >= n
    BY <1>0, <2>5
  <2>8. n \in 0 .. s
    BY <2>7
  <2>9. \A r \in Steps : r >= n => r >= s
    <3>1. \A r \in Steps : r >= n => r \in enough
      OBVIOUS
    <3>2. \A r \in Steps : r \in Nat
      BY <1>0
    <3>3. \A r \in enough : s <= r
      BY <2>5
    <3> HIDE DEF enough, s
    <3> QED BY <2>7, <3>1, <3>2, <3>3
  <2>10. 100 * s <= StepPercent * n
    <3> HIDE DEF s
    <3> QED BY <2>7, <2>8, <2>9, ContractionAssumption DEF ContractionAssumption
  <2> QED BY <2>6, <2>7, <2>10 DEF Close
<1> QED BY <1>1, <1>2

\* A critical path c of the costs s against the paths q of lower or of close costs.
LEMMA PathLower ==
  ASSUME NEW N, NEW E \in SUBSET (N \X N), HasNoCycle(N, E),
         NEW c \in [N -> Nat], NEW s \in [N -> Nat], NEW q \in [N -> Nat], NEW w \in [N -> Nat],
         IsLongestBefore(N, E, c, s), Long(E, q, w), \A e \in E : s[e[1]] <= w[e[1]]
  PROVE  \A t \in N : c[t] <= q[t]
<1> DEFINE Bad == {t \in N : ~(c[t] <= q[t])}
<1> SUFFICES ASSUME Bad # {} PROVE FALSE
  OBVIOUS
<1>1. PICK u \in Bad : \A v \in Bad : <<v, u>> \notin E
  <2>1. Bad \in SUBSET N
    OBVIOUS
  <2> HIDE DEF Bad
  <2> QED BY <2>1 DEF HasNoCycle
<1>2. u \in N /\ c[u] \in Nat /\ q[u] \in Nat /\ ~(c[u] <= q[u])
  OBVIOUS
<1>3. c[u] # 0
  BY <1>2
<1>4. PICK v \in N : <<v, u>> \in E /\ c[u] = c[v] + s[v]
  BY <1>2, <1>3 DEF IsLongestBefore
<1>5. c[v] <= q[v]
  BY <1>1, <1>4
<1>6. q[u] >= q[v] + w[v] /\ s[v] <= w[v]
  <2> DEFINE e == <<v, u>>
  <2>1. q[e[2]] >= q[e[1]] + w[e[1]] /\ s[e[1]] <= w[e[1]]
    <3> HIDE DEF e
    <3> QED BY <1>4 DEF Long, e
  <2> QED BY <2>1
<1>7. c[v] \in Nat /\ q[v] \in Nat /\ s[v] \in Nat /\ w[v] \in Nat
  OBVIOUS
<1> HIDE DEF Bad
<1> QED BY <1>2, <1>4, <1>5, <1>6, <1>7

LEMMA PathClose ==
  ASSUME NEW N, NEW E \in SUBSET (N \X N), HasNoCycle(N, E),
         NEW c \in [N -> Nat], NEW s \in [N -> Nat], NEW q \in [N -> Nat], NEW w \in [N -> Nat],
         IsLongestBefore(N, E, c, s), Long(E, q, w), \A e \in E : Close(s[e[1]], w[e[1]])
  PROVE  \A t \in N : Close(c[t], q[t])
<1> DEFINE Bad == {t \in N : ~Close(c[t], q[t])}
<1> SUFFICES ASSUME Bad # {} PROVE FALSE
  OBVIOUS
<1>1. PICK u \in Bad : \A v \in Bad : <<v, u>> \notin E
  <2>1. Bad \in SUBSET N
    OBVIOUS
  <2> HIDE DEF Bad
  <2> QED BY <2>1 DEF HasNoCycle
<1>2. u \in N /\ c[u] \in Nat /\ q[u] \in Nat /\ ~Close(c[u], q[u])
  OBVIOUS
<1>3. c[u] # 0
  BY <1>2, CloseIs
<1>4. PICK v \in N : <<v, u>> \in E /\ c[u] = c[v] + s[v]
  BY <1>2, <1>3 DEF IsLongestBefore
<1>5. Close(c[v], q[v])
  BY <1>1, <1>4
<1>6. q[u] >= q[v] + w[v] /\ Close(s[v], w[v])
  <2> DEFINE e == <<v, u>>
  <2>1. q[e[2]] >= q[e[1]] + w[e[1]] /\ Close(s[e[1]], w[e[1]])
    <3> HIDE DEF e
    <3> QED BY <1>4 DEF Long, e
  <2> QED BY <2>1
<1>7. c[v] \in Nat /\ q[v] \in Nat /\ s[v] \in Nat /\ w[v] \in Nat
  OBVIOUS
<1> HIDE DEF Bad
<1>8. Close(c[v] + s[v], q[v] + w[v])
  BY <1>5, <1>6, <1>7, CloseIs
<1>9. q[v] + w[v] \in Nat /\ c[v] + s[v] \in Nat /\ q[v] + w[v] <= q[u]
  BY <1>2, <1>6, <1>7
<1> QED BY <1>2, <1>4, <1>8, <1>9, CloseIs

\* A merge makes no path of these costs shorter.  x and y are the merged mtasks,
\* h where each mtask is then; an edge from x to y is the one to be contracted.

\* Where each mtask is when x and y are r.
Onto(N, x, y, r) == [t \in N |-> IF t \in {x, y} THEN r ELSE t]

\* The merged mtask costs what both did.
Joined(N, x, y, r, w, w2) ==
  /\ x # y /\ r \in {x, y}
  /\ w2[r] = w[x] + w[y]
  /\ \A t \in N \ {x, y} : w2[t] = w[t]

\* After the merge the paths are as long as every other edge asks.
Carried(E, x, y, h, q, w2) ==
  \A e \in E : e = <<x, y>> \/ q[h[e[2]]] >= q[h[e[1]]] + w2[h[e[1]]]

LEMMA PathKept ==
  ASSUME NEW N, NEW E \in SUBSET (N \X N), HasNoCycle(N, E),
         NEW p \in [N -> Nat], NEW w \in [N -> Nat], NEW q \in [N -> Nat], NEW w2 \in [N -> Nat],
         IsLongestBefore(N, E, p, w),
         NEW x \in N, NEW y \in N, NEW r, Joined(N, x, y, r, w, w2),
         NEW h, h = Onto(N, x, y, r), Carried(E, x, y, h, q, w2),
         NEW t0 \in N
  PROVE  /\ q[h[t0]] + w2[h[t0]] >= p[t0] + w[t0]
         /\ t0 # y \/ <<x, y>> \notin E => q[h[t0]] >= p[t0]
<1>0. /\ x # y /\ r \in {x, y} /\ w2[r] = w[x] + w[y] /\ \A t \in N \ {x, y} : w2[t] = w[t]
      /\ \A e \in E : e = <<x, y>> \/ q[h[e[2]]] >= q[h[e[1]]] + w2[h[e[1]]]
  BY DEF Joined, Carried
<1> DEFINE Good(t) == /\ q[h[t]] + w2[h[t]] >= p[t] + w[t]
                      /\ t # y \/ <<x, y>> \notin E => q[h[t]] >= p[t]
           Bad == {t \in N : ~Good(t)}
<1> SUFFICES ASSUME Bad # {} PROVE FALSE
  OBVIOUS
<1>1. PICK u \in Bad : \A v \in Bad : <<v, u>> \notin E
  <2>1. Bad \in SUBSET N
    OBVIOUS
  <2> HIDE DEF Bad
  <2> QED BY <2>1 DEF HasNoCycle
<1>2. \A t \in N : /\ h[t] \in N /\ p[t] \in Nat /\ w[t] \in Nat /\ q[h[t]] \in Nat /\ w2[h[t]] \in Nat
                   /\ w2[h[t]] >= w[t]
  <2> SUFFICES ASSUME NEW t \in N
               PROVE  /\ h[t] \in N /\ p[t] \in Nat /\ w[t] \in Nat /\ q[h[t]] \in Nat
                      /\ w2[h[t]] \in Nat /\ w2[h[t]] >= w[t]
    OBVIOUS
  <2>1. h[t] = IF t \in {x, y} THEN r ELSE t
    BY DEF Onto
  <2>2. h[t] \in N /\ w[x] \in Nat /\ w[y] \in Nat /\ w[t] \in Nat
    BY <1>0, <2>1
  <2>3. w2[h[t]] >= w[t]
    BY <1>0, <2>1, <2>2
  <2> QED BY <2>2, <2>3
<1>3. u \in N /\ ~Good(u)
  OBVIOUS
<1>4. CASE p[u] = 0
  BY <1>2, <1>3, <1>4
<1>5. CASE p[u] # 0
  <2>1. PICK v \in N : <<v, u>> \in E /\ p[u] = p[v] + w[v]
    BY <1>3, <1>5 DEF IsLongestBefore
  <2>2. Good(v)
    BY <1>1, <2>1
  <2>3. CASE v = x /\ u = y
    <3>1. q[h[x]] >= p[x] /\ h[x] = r /\ h[y] = r
      BY <1>0, <2>2, <2>3 DEF Onto
    <3>2. q[h[y]] + w2[h[y]] >= p[y] + w[y]
      <4>1. p[y] = p[x] + w[x]
        BY <2>1, <2>3
      <4> QED BY <1>0, <1>2, <3>1, <4>1
    <3> QED BY <1>3, <2>1, <2>3, <3>2
  <2>4. CASE ~(v = x /\ u = y)
    <3>1. <<v, u>> # <<x, y>>
      BY <2>4
    <3>2. q[h[u]] >= q[h[v]] + w2[h[v]]
      <4> DEFINE e == <<v, u>>
      <4>1. e = <<x, y>> \/ q[h[e[2]]] >= q[h[e[1]]] + w2[h[e[1]]]
        <5> HIDE DEF e
        <5> QED BY <1>0, <2>1 DEF e
      <4> QED BY <3>1, <4>1
    <3>3. q[h[u]] >= p[u]
      BY <1>2, <1>3, <2>1, <2>2, <3>2
    <3>4. Good(u)
      BY <1>2, <1>3, <3>3
    <3> QED BY <1>3, <3>4
  <2> QED BY <2>3, <2>4
<1> QED BY <1>4, <1>5

\* What is announced is close to the paths after the merge.
LEMMA AnnouncedClose ==
  ASSUME NEW N, NEW E, NEW a, NEW b, NEW c, NEW s, NEW i, NEW says,
         Spread(N, E, a, b, c, s, i, says),
         NEW r \in {a, b}, NEW h, h = Onto(N, a, b, r),
         NEW q \in [N -> Nat], NEW w2 \in [N -> Nat],
         Close(i, q[r] + w2[r]),
         \A e \in E : q[h[e[2]]] >= q[h[e[1]]] + w2[h[e[1]]],
         \A t \in N \ {a, b} : Close(s[t], w2[t]),
         NEW t0 \in N
  PROVE  /\ Close(says[t0], q[h[t0]] + w2[h[t0]])
         /\ Close(Heard(E, says, t0), q[h[t0]])
<1>0. /\ IsFiniteSet(N) /\ E \in SUBSET (N \X N) /\ HasNoCycle(N, E)
      /\ a \in N /\ b \in N /\ i \in Nat
      /\ c \in [N -> Nat] /\ s \in [N -> Nat] /\ says \in [N -> Nat]
  BY DEF Spread
<1>1. \A t \in N : h[t] \in N /\ h[t] = IF t \in {a, b} THEN r ELSE t
  BY <1>0 DEF Onto
<1>6. ASSUME NEW t \in N
      PROVE  /\ Heard(E, says, t) \in Nat
             /\ Heard(E, says, t) = 0 \/ \E v \in N : <<v, t>> \in E /\ Heard(E, says, t) = says[v]
  BY HeardIs
<1> DEFINE Good(t) == Close(says[t], q[h[t]] + w2[h[t]])
           Bad == {t \in N : ~Good(t)}
<1>2. \A t \in N : /\ says[t] \in Nat /\ q[h[t]] \in Nat /\ w2[h[t]] \in Nat
                   /\ q[h[t]] + w2[h[t]] \in Nat /\ s[t] \in Nat
  BY <1>0, <1>1
<1>3. ASSUME NEW u \in N, \A v \in N : <<v, u>> \in E => Good(v)
      PROVE  Close(Heard(E, says, u), q[h[u]])
  <2>1. CASE Heard(E, says, u) = 0
    BY <1>2, <2>1, CloseIs
  <2>2. CASE Heard(E, says, u) # 0
    <3>1. PICK v \in N : <<v, u>> \in E /\ Heard(E, says, u) = says[v]
      BY <1>6, <2>2
    <3>2. Close(says[v], q[h[v]] + w2[h[v]])
      BY <1>3, <3>1
    <3>3. q[h[v]] + w2[h[v]] <= q[h[u]]
      <4> DEFINE e == <<v, u>>
      <4>1. q[h[e[2]]] >= q[h[e[1]]] + w2[h[e[1]]]
        <5> HIDE DEF e
        <5> QED BY <3>1 DEF e
      <4> QED BY <1>2, <4>1
    <3>4. /\ says[v] \in Nat /\ q[h[v]] + w2[h[v]] \in Nat /\ q[h[u]] \in Nat
      BY <1>2
    <3> DEFINE k == says[v]
               l == q[h[v]] + w2[h[v]]
               m == q[h[u]]
    <3>5. Close(k, m)
      <4>1. k \in Nat /\ l \in Nat /\ m \in Nat /\ Close(k, l) /\ l <= m
        BY <3>2, <3>3, <3>4
      <4> HIDE DEF k, l, m
      <4> QED BY ONLY <4>1, CloseIs
    <3> QED BY <3>1, <3>5
  <2> QED BY <2>1, <2>2
<1>4. CASE Bad # {}
  <2>1. PICK u \in Bad : \A v \in Bad : <<v, u>> \notin E
    <3>1. Bad \in SUBSET N
      OBVIOUS
    <3> HIDE DEF Bad
    <3> QED BY <1>0, <1>4, <3>1 DEF HasNoCycle
  <2>2. u \in N /\ ~Good(u) /\ \A v \in N : <<v, u>> \in E => Good(v)
    BY <2>1
  <2>3. says[u] # 0
    <3> DEFINE m == q[h[u]] + w2[h[u]]
    <3>1. m \in Nat /\ ~Close(says[u], m)
      BY <1>2, <2>2
    <3> HIDE DEF m
    <3>2. Close(0, m)
      BY ONLY <3>1, CloseIs
    <3> QED BY <3>1, <3>2
  <2>4. CASE u \in {a, b}
    <3>1. says[u] = IF i > c[u] + s[u] THEN i ELSE 0
      BY <2>4 DEF Spread
    <3>2. says[u] = i /\ h[u] = r
      BY <1>1, <2>2, <2>3, <2>4, <3>1
    <3> QED BY <2>2, <3>2
  <2>5. CASE u \notin {a, b}
    <3>1. says[u] = IF Heard(E, says, u) > c[u] THEN Heard(E, says, u) + s[u] ELSE 0
      BY <2>2, <2>5 DEF Spread
    <3>2. says[u] = Heard(E, says, u) + s[u] /\ h[u] = u
      BY <1>1, <2>2, <2>3, <2>5, <3>1
    <3>3. Close(Heard(E, says, u), q[u]) /\ Close(s[u], w2[u])
      <4>1. Close(Heard(E, says, u), q[h[u]])
        <5> HIDE DEF Good
        <5> QED BY <1>3, <2>2
      <4> QED BY <2>2, <2>5, <3>2, <4>1
    <3>4. Heard(E, says, u) \in Nat /\ q[u] \in Nat /\ w2[u] \in Nat /\ s[u] \in Nat
      BY <1>2, <1>6, <2>2, <3>2
    <3>5. Close(Heard(E, says, u) + s[u], q[u] + w2[u])
      BY <3>3, <3>4, CloseIs
    <3> QED BY <2>2, <3>2, <3>5
  <2> QED BY <2>4, <2>5
<1>5. CASE Bad = {}
  <2>1. \A v \in N : Good(v)
    BY <1>5
  <2>2. Close(Heard(E, says, t0), q[h[t0]])
    <3> HIDE DEF Good, Bad
    <3> QED BY <1>3, <2>1
  <2> QED BY <2>1, <2>2
<1> QED BY <1>4, <1>5

RawOf(g, m) == [t \in Logic |-> CostOf(g, m, t)]

\* The cached costs are close in one way, those of mtasks and those at edges.
Tight(way, g, m, E, c, ec) ==
  LET raw == RawOf(g, m)
      path == CriticalPath(way, E, raw)
  IN /\ \A t \in {m[l] : l \in g.tasks} : Close(c[t], path[t])
     /\ \A e \in E : Close(ec[e], path[Near(way, e)] + raw[Near(way, e)])

CpTight ==
  pc = "contract" => \A way \in Ways : Tight(way, graph, mtask, edges, cp[way], edgeCp[way])

LEMMA RawIs ==
  ASSUME NEW g \in Graphs, NEW m
  PROVE  /\ RawOf(g, m) \in [Logic -> Nat]
         /\ \A t \in Logic : /\ RawOf(g, m)[t] = CostOf(g, m, t)
                             /\ StepOf(g, m)[t] \in Nat
                             /\ StepOf(g, m)[t] >= RawOf(g, m)[t]
                             /\ Close(StepOf(g, m)[t], RawOf(g, m)[t])
<1>1. ASSUME NEW t \in Logic
      PROVE  /\ RawOf(g, m)[t] = CostOf(g, m, t) /\ CostOf(g, m, t) \in Nat
             /\ StepOf(g, m)[t] = StepCost(CostOf(g, m, t))
  BY CostType DEF RawOf, StepOf
<1>2. RawOf(g, m) \in [Logic -> Nat]
  BY <1>1 DEF RawOf
<1> QED BY <1>1, <1>2, StepCostClose

LEMMA RawMerged ==
  ASSUME NEW from, NEW top, NEW edge, NEW r, NEW d, MergedBy(from, top, edge, r, d)
  PROVE  /\ graph' \in Graphs /\ graph \in Graphs
         /\ \A t \in Logic \ {from, top} : RawOf(graph', mtask')[t] = RawOf(graph, mtask)[t]
         /\ RawOf(graph', mtask')[r] = RawOf(graph, mtask)[from] + RawOf(graph, mtask)[top]
<1>1. graph' = graph /\ r # d /\ {r, d} = {from, top} /\ mtask' = Moved(mtask, d, r)
  <2>1. MergedGraph(from, top, edge, r, d)
    BY MergedTasks
  <2> QED BY <2>1 DEF MergedGraph
<1>2. TypeOK /\ graph \in Graphs /\ from \in Logic /\ top \in Logic
  BY MergingIs DEF MergedBy
<1>3. r \in Logic /\ d \in Logic /\ mtask \in [Logic -> Logic]
  BY <1>1, <1>2 DEF TypeOK
<1>4. /\ CostOf(graph, mtask', r) = CostOf(graph, mtask, r) + CostOf(graph, mtask, d)
      /\ \A t : t # r /\ t # d => CostOf(graph, mtask', t) = CostOf(graph, mtask, t)
  BY <1>1, <1>2, <1>3, CostMerged
<1>5. CostOf(graph, mtask, r) \in Nat /\ CostOf(graph, mtask, d) \in Nat
  BY <1>2, CostType
<1>6. \A t \in Logic : /\ RawOf(graph', mtask')[t] = CostOf(graph, mtask', t)
                       /\ RawOf(graph, mtask)[t] = CostOf(graph, mtask, t)
  BY <1>1 DEF RawOf
<1>7. \A t \in Logic \ {from, top} : RawOf(graph', mtask')[t] = RawOf(graph, mtask)[t]
  BY <1>1, <1>4, <1>6
<1>8. RawOf(graph', mtask')[r] = RawOf(graph, mtask)[from] + RawOf(graph, mtask)[top]
  <2> DEFINE j == CostOf(graph, mtask, r)
             k == CostOf(graph, mtask, d)
  <2>1. RawOf(graph', mtask')[r] = j + k /\ j \in Nat /\ k \in Nat
    BY <1>3, <1>4, <1>5, <1>6
  <2>2. \/ RawOf(graph, mtask)[from] = j /\ RawOf(graph, mtask)[top] = k
        \/ RawOf(graph, mtask)[from] = k /\ RawOf(graph, mtask)[top] = j
    BY <1>1, <1>2, <1>6
  <2> HIDE DEF j, k
  <2> QED BY <2>1, <2>2
<1> QED BY <1>1, <1>2, <1>7, <1>8

\* A merge lengthens, if anything, the paths of the costs before rounding.
LEMMA RawPathKept ==
  ASSUME NEW from, NEW top, NEW edge, NEW r, NEW d, MergedBy(from, top, edge, r, d),
         NEW way \in Ways,
         NEW w, w = RawOf(graph, mtask), NEW p, p = CriticalPath(way, edges, w),
         NEW w2, w2 = RawOf(graph', mtask'), NEW q, q = CriticalPath(way, edges', w2),
         NEW h, h = Onto(Logic, from, top, r)
  PROVE  /\ p \in [Logic -> Nat] /\ w \in [Logic -> Nat]
         /\ q \in [Logic -> Nat] /\ w2 \in [Logic -> Nat]
         /\ \A e \in Ahead(edges \ edge, way) : q[h[e[2]]] >= q[h[e[1]]] + w2[h[e[1]]]
         /\ \A t \in Logic : /\ q[h[t]] + w2[h[t]] >= p[t] + w[t]
                             /\ edge = {} \/ t # Far(way, <<from, top>>) => q[h[t]] >= p[t]
<1> DEFINE E == edges \ edge
           x == Near(way, <<from, top>>)
           y == Far(way, <<from, top>>)
<1>0. Merging(from, top, edge) /\ PartInv
  BY DEF MergedBy, Merging
<1>1. /\ from \in Logic /\ top \in Logic /\ from # top /\ E \in SUBSET (Logic \X Logic)
      /\ Apart(Logic, E, from, top) /\ TypeOK /\ graph \in Graphs /\ IsFiniteSet(Logic)
  BY <1>0, MergingIs
<1>2. edges \in SUBSET (Logic \X Logic) /\ HasNoCycle(Logic, edges)
  BY <1>0, <1>1, TasksAreLogic DEF PartInv
<1>3. /\ r # d /\ {r, d} = {from, top} /\ edges' = MovedEdges(E, d, r)
      /\ edges' \in SUBSET (Logic \X Logic) /\ HasNoCycle(Logic, edges')
  <2>1. MergedGraph(from, top, edge, r, d)
    BY MergedTasks
  <2>2. r # d /\ {r, d} = {from, top} /\ edges' = MovedEdges(E, d, r)
    BY <2>1 DEF MergedGraph
  <2>3. r \in Logic /\ d \in Logic
    BY <1>1, <2>2
  <2>4. MovedEdges(E, d, r) \in SUBSET ((Logic \ {d}) \X (Logic \ {d}))
    <3> HIDE DEF E
    <3> QED BY <1>1, <2>2, <2>3, MovedEdgesAre
  <2> QED BY <2>2, <2>4, MergedOrder
<1>4. /\ w \in [Logic -> Nat] /\ w2 \in [Logic -> Nat]
      /\ \A t \in Logic \ {from, top} : w2[t] = w[t]
      /\ w2[r] = w[from] + w[top]
  BY RawMerged, RawIs
<1>5. p \in [Logic -> Nat] /\ IsLongestBefore(Logic, Ahead(edges, way), p, w)
  BY <1>2, <1>4, CriticalPathIs
<1>6. q \in [Logic -> Nat] /\ Long(Ahead(edges', way), q, w2)
  BY <1>3, <1>4, CriticalPathIs
<1>7. \A t \in Logic : h[t] = IF t = d THEN r ELSE t
  BY <1>1, <1>3 DEF Onto
<1>8. ASSUME NEW e \in Ahead(E, way) PROVE q[h[e[2]]] >= q[h[e[1]]] + w2[h[e[1]]]
  <2>1. PICK o \in E : e = <<Near(way, o), Far(way, o)>>
    BY <1>8 DEF Ahead
  <2>2. o[1] \in Logic /\ o[2] \in Logic
    BY <1>1
  <2> DEFINE f == <<h[o[1]], h[o[2]]>>
  <2>3. f \in edges'
    <3>1. \A u \in E : <<IF u[1] = d THEN r ELSE u[1], IF u[2] = d THEN r ELSE u[2]>>
                         \in MovedEdges(E, d, r)
      <4>1. r \in Logic /\ d \in Logic
        BY <1>1, <1>3
      <4> HIDE DEF E
      <4> QED BY <1>1, <1>3, <4>1, MovedEdgesAre
    <3> QED BY <1>3, <1>7, <2>2, <3>1
  <2>4. Near(way, f) = h[Near(way, o)] /\ Far(way, f) = h[Far(way, o)]
    BY DEF Near, Far
  <2>5. <<Near(way, f), Far(way, f)>> \in Ahead(edges', way)
    <3> HIDE DEF f
    <3> QED BY <2>3 DEF Ahead
  <2> DEFINE n == <<h[Near(way, o)], h[Far(way, o)]>>
  <2>6. n \in Ahead(edges', way)
    BY <2>4, <2>5
  <2>7. q[n[2]] >= q[n[1]] + w2[n[1]]
    <3> HIDE DEF n
    <3> QED BY <1>6, <2>6 DEF Long
  <2>8. n[1] = h[e[1]] /\ n[2] = h[e[2]]
    BY <2>1
  <2> HIDE DEF n
  <2> QED BY <2>7, <2>8
<1>9. x \in Logic /\ y \in Logic /\ x # y /\ {x, y} = {from, top} /\ r \in {x, y}
  BY <1>1, <1>3 DEF Near, Far
<1>10. \A e \in Ahead(edges, way) : e = <<x, y>> \/ q[h[e[2]]] >= q[h[e[1]]] + w2[h[e[1]]]
  <2> SUFFICES ASSUME NEW e \in Ahead(edges, way), e # <<x, y>>
               PROVE  q[h[e[2]]] >= q[h[e[1]]] + w2[h[e[1]]]
    OBVIOUS
  <2>1. PICK o \in edges : e = <<Near(way, o), Far(way, o)>>
    BY DEF Ahead
  <2>2. o # <<from, top>>
    BY <2>1
  <2>3. o \in E
    BY <1>0, <2>2 DEF Merging
  <2>4. e \in Ahead(E, way)
    BY <2>1, <2>3 DEF Ahead
  <2> QED BY <1>8, <2>4
<1>11. edge = {} => <<x, y>> \notin Ahead(edges, way)
  <2> SUFFICES ASSUME edge = {}, <<x, y>> \in Ahead(edges, way) PROVE FALSE
    OBVIOUS
  <2>1. E = edges
    OBVIOUS
  <2>2. Apart(Logic, Ahead(E, way), from, top)
    <3> HIDE DEF E
    <3> QED BY <1>1, AheadApart
  <2>3. Ahead(edges, way) \in SUBSET (Logic \X Logic)
    BY <1>2, AheadIs
  <2>4. Before(Logic, Ahead(edges, way), x, y)
    <3> HIDE DEF x, y
    <3> QED BY <1>9, <2>3, BeforeEdge
  <2> QED BY <1>9, <2>1, <2>2, <2>4 DEF Apart
<1>12. ASSUME NEW t \in Logic
       PROVE  /\ q[h[t]] + w2[h[t]] >= p[t] + w[t]
              /\ edge = {} \/ t # y => q[h[t]] >= p[t]
  <2> DEFINE A == Ahead(edges, way)
  <2>1. A \in SUBSET (Logic \X Logic) /\ HasNoCycle(Logic, A)
    BY <1>1, <1>2, AheadIs, AheadNoCycle
  <2>2. h = Onto(Logic, x, y, r)
    BY <1>9 DEF Onto
  <2>3. w2[r] = w[x] + w[y] /\ \A u \in Logic \ {x, y} : w2[u] = w[u]
    <3>1. (x = from /\ y = top) \/ (x = top /\ y = from)
      BY <1>9
    <3>2. w[from] \in Nat /\ w[top] \in Nat
      BY <1>1, <1>4
    <3> QED BY <1>4, <1>9, <3>1, <3>2
  <2>4. \A e \in A : e = <<x, y>> \/ q[h[e[2]]] >= q[h[e[1]]] + w2[h[e[1]]]
    BY <1>10
  <2>5. IsLongestBefore(Logic, A, p, w)
    BY <1>5
  <2>6. /\ q[h[t]] + w2[h[t]] >= p[t] + w[t]
        /\ t # y \/ <<x, y>> \notin A => q[h[t]] >= p[t]
    <3>1. Joined(Logic, x, y, r, w, w2)
      BY <1>9, <2>3 DEF Joined
    <3>2. Carried(A, x, y, h, q, w2)
      BY <2>4 DEF Carried
    <3> HIDE DEF A, x, y
    <3> QED BY <1>4, <1>5, <1>6, <1>9, <2>1, <2>2, <2>5, <3>1, <3>2, PathKept
  <2> QED BY <1>11, <2>6
<1> QED BY <1>4, <1>5, <1>6, <1>8, <1>12

\* The merged mtask's critical path is close.
LEMMA MergedCpClose ==
  ASSUME NEW from, NEW top, NEW edge, NEW r, NEW d, MergedBy(from, top, edge, r, d),
         NEW way \in Ways, Tight(way, graph, mtask, edges, cp[way], edgeCp[way]),
         NEW w2, w2 = RawOf(graph', mtask'), NEW q, q = CriticalPath(way, edges', w2)
  PROVE  MergedCp(way, from, top, edge) \in Nat /\ Close(MergedCp(way, from, top, edge), q[r])
<1> DEFINE w == RawOf(graph, mtask)
           p == CriticalPath(way, edges, w)
           h == Onto(Logic, from, top, r)
           E == edges \ edge
           e == <<from, top>>
           near == Near(way, e)
           far == Far(way, e)
           c == cp[way]
           m == MergedCp(way, from, top, edge)
<1>0. Merging(from, top, edge) /\ PartInv /\ pc = "contract"
  BY DEF MergedBy, Merging
<1>1. /\ TypeOK /\ graph \in Graphs /\ from \in Logic /\ top \in Logic /\ from # top
      /\ IsFiniteSet(Logic) /\ E \in SUBSET (Logic \X Logic) /\ c \in [Logic -> Nat]
      /\ edges \in SUBSET (Logic \X Logic)
  BY <1>0, MergingIs, TasksAreLogic
<1>2. /\ p \in [Logic -> Nat] /\ w \in [Logic -> Nat]
      /\ q \in [Logic -> Nat] /\ w2 \in [Logic -> Nat]
      /\ \A o \in Ahead(E, way) : q[h[o[2]]] >= q[h[o[1]]] + w2[h[o[1]]]
      /\ \A t \in Logic : /\ q[h[t]] + w2[h[t]] >= p[t] + w[t]
                          /\ edge = {} \/ t # far => q[h[t]] >= p[t]
  <2> HIDE DEF w, p, h, E, far, e
  <2> QED BY RawPathKept DEF w, p, h, E, far, e
<1>3. m \in Nat
  BY <1>0, MergedCpLong
<1>4. /\ \A t \in Tasks : Close(c[t], p[t])
      /\ \A o \in edges : Close(edgeCp[way][o], p[Near(way, o)] + w[Near(way, o)])
  <2>1. Tasks = {mtask[l] : l \in graph.tasks}
    BY DEF Tasks
  <2> QED BY <2>1 DEF Tight
<1>5. from \in Tasks /\ top \in Tasks /\ h[from] = r /\ h[top] = r /\ r \in Logic
      /\ \A t \in Logic : h[t] \in Logic
  <2>1. MergedGraph(from, top, edge, r, d)
    BY MergedTasks
  <2>2. r \in {from, top}
    BY <2>1 DEF MergedGraph
  <2> QED BY <1>0, <1>1, <2>2 DEF Merging, Onto
<1>6. ASSUME NEW t \in {from, top}, edge = {} \/ t # far PROVE Close(c[t], q[r])
  <2>1. Close(c[t], p[t]) /\ p[t] <= q[r]
    BY <1>1, <1>2, <1>4, <1>5, <1>6
  <2>2. c[t] \in Nat /\ p[t] \in Nat /\ q[r] \in Nat
    BY <1>1, <1>2, <1>5
  <2> HIDE DEF c, p
  <2> QED BY <2>1, <2>2, CloseIs
<1>7. CASE edge = {}
  <2>1. m = Max({c[from], c[top]})
    BY <1>7 DEF MergedCp
  <2>2. Close(c[from], q[r]) /\ Close(c[top], q[r])
    BY <1>6, <1>7
  <2>3. c[from] \in Nat /\ c[top] \in Nat /\ q[r] \in Nat
    BY <1>1, <1>2, <1>5
  <2>4. Close(m, q[r])
    <3> HIDE DEF c, m
    <3> QED BY <2>1, <2>2, <2>3, CloseMax
  <2> QED BY <1>3, <2>4
<1>8. CASE edge # {}
  <2> DEFINE S == {o \in edges \ edge : Far(way, o) = far}
             high == Highest(edgeCp[way], S)
  <2>1. m = Max({c[near], high})
    BY <1>8 DEF MergedCp
  <2>2. near \in {from, top} /\ near # far /\ far \in {from, top}
    BY <1>1 DEF Near, Far
  <2>3. Close(c[near], q[r])
    BY <1>6, <2>2
  <2>4. IsFiniteSet(S) /\ S \subseteq edges
    <3>1. IsFiniteSet(Logic \X Logic)
      BY <1>1, FS_Product
    <3>2. S \subseteq Logic \X Logic
      BY <1>1
    <3> HIDE DEF S
    <3>3. IsFiniteSet(S)
      BY <3>1, <3>2, FS_Subset
    <3> QED BY <3>3 DEF S
  <2>5. \A o \in edges : edgeCp[way][o] \in Nat
    BY <1>0 DEF PartInv, TypeOK
  <2>6. high \in Nat /\ (high = 0 \/ \E o \in S : high = edgeCp[way][o])
    <3>1. \A o \in S : edgeCp[way][o] \in Nat
      BY <2>4, <2>5
    <3> HIDE DEF S
    <3> QED BY <2>4, <3>1, HighestIs
  <2>7. q[r] \in Nat /\ c[near] \in Nat
    BY <1>1, <1>2, <1>5, <2>2
  <2>8. ASSUME NEW o \in S PROVE Close(edgeCp[way][o], q[r])
    <3>1. o \in edges /\ o \in E /\ Far(way, o) = far
      BY <2>8
    <3> DEFINE n == Near(way, o)
    <3>2. n \in Logic /\ p[n] \in Nat /\ w[n] \in Nat /\ q[h[n]] \in Nat /\ w2[h[n]] \in Nat
      <4>1. o[1] \in Logic /\ o[2] \in Logic
        BY <1>1, <3>1
      <4>2. n \in Logic
        BY <4>1 DEF Near
      <4> HIDE DEF n, p, w, h
      <4> QED BY <1>2, <1>5, <4>2
    <3>3. Close(edgeCp[way][o], p[n] + w[n])
      BY <1>4, <3>1
    <3>4. q[h[n]] + w2[h[n]] >= p[n] + w[n]
      BY <1>2, <3>2
    <3>5. q[r] >= q[h[n]] + w2[h[n]]
      <4> DEFINE f == <<n, far>>
      <4>1. f \in Ahead(E, way)
        BY <3>1 DEF Ahead
      <4>2. q[h[f[2]]] >= q[h[f[1]]] + w2[h[f[1]]]
        <5> HIDE DEF f, h
        <5> QED BY <1>2, <4>1
      <4>3. h[far] = r
        BY <1>5, <2>2
      <4> HIDE DEF h, far, n
      <4> QED BY <4>2, <4>3
    <3>6. edgeCp[way][o] \in Nat
      BY <2>5, <3>1
    <3> DEFINE k == edgeCp[way][o]
               l == p[n] + w[n]
               j == q[r]
    <3>7. k \in Nat /\ l \in Nat /\ j \in Nat /\ l <= j /\ Close(k, l)
      <4> HIDE DEF p, w, h, n
      <4> QED BY <2>7, <3>2, <3>3, <3>4, <3>5, <3>6
    <3>8. Close(k, j)
      <4> HIDE DEF k, l, j
      <4> QED BY <3>7, CloseIs
    <3> QED BY <3>8
  <2>9. Close(high, q[r])
    <3>1. CASE high = 0
      BY <2>7, <3>1, CloseIs
    <3>2. CASE \E o \in S : high = edgeCp[way][o]
      <4> HIDE DEF S, high
      <4> QED BY <2>8, <3>2
    <3> QED BY <2>6, <3>1, <3>2
  <2>10. Close(m, q[r])
    <3> HIDE DEF m, high, c, near
    <3> QED BY <2>1, <2>3, <2>6, <2>7, <2>9, CloseMax
  <2> QED BY <1>3, <2>10
<1> QED BY <1>3, <1>7, <1>8

\* After a merge all cached costs are close to the paths that are then.
LEMMA MergedTight ==
  ASSUME NEW from, NEW top, NEW edge, NEW r, NEW d, MergedBy(from, top, edge, r, d),
         NEW way \in Ways, Tight(way, graph, mtask, edges, cp[way], edgeCp[way])
  PROVE  Tight(way, graph', mtask', edges', cp'[way], edgeCp'[way])
<1> DEFINE w == RawOf(graph, mtask)
           p == CriticalPath(way, edges, w)
           w2 == RawOf(graph', mtask')
           q == CriticalPath(way, edges', w2)
           h == Onto(Logic, from, top, r)
           E == edges \ edge
           far == Far(way, <<from, top>>)
           c == cp[way]
           c2 == cp'[way]
           s == StepOf(graph, mtask)
           s2 == StepOf(graph', mtask')
           m == MergedCp(way, from, top, edge)
           i == m + MergedStepCost(from, top)
<1>0. Merging(from, top, edge) /\ PartInv /\ pc = "contract"
  BY DEF MergedBy, Merging
<1>1. /\ TypeOK /\ graph \in Graphs /\ from \in Logic /\ top \in Logic /\ from # top
      /\ E \in SUBSET (Logic \X Logic) /\ c \in [Logic -> Nat]
      /\ edges \in SUBSET (Logic \X Logic) /\ Tasks \subseteq Logic
  BY <1>0, MergingIs, TasksAreLogic
<1>2. /\ p \in [Logic -> Nat] /\ w \in [Logic -> Nat]
      /\ q \in [Logic -> Nat] /\ w2 \in [Logic -> Nat]
      /\ \A o \in Ahead(E, way) : q[h[o[2]]] >= q[h[o[1]]] + w2[h[o[1]]]
      /\ \A t \in Logic : /\ q[h[t]] + w2[h[t]] >= p[t] + w[t]
                          /\ edge = {} \/ t # far => q[h[t]] >= p[t]
  <2> HIDE DEF w, p, w2, q, h, E, far
  <2> QED BY RawPathKept DEF w, p, w2, q, h, E, far
<1>3. m \in Nat /\ Close(m, q[r])
  BY MergedCpClose
<1>4. /\ \A t \in Tasks : Close(c[t], p[t])
      /\ \A o \in edges : Close(edgeCp[way][o], p[Near(way, o)] + w[Near(way, o)])
  <2>1. Tasks = {mtask[l] : l \in graph.tasks}
    BY DEF Tasks
  <2> QED BY <2>1 DEF Tight
<1>5. /\ graph' = graph /\ r # d /\ {r, d} = {from, top} /\ r \in Logic
      /\ Tasks' = Tasks \ {d} /\ Tasks' = {mtask'[l] : l \in graph'.tasks}
      /\ edges' \subseteq Tasks' \X Tasks'
  <2>1. MergedGraph(from, top, edge, r, d)
    BY MergedTasks
  <2> QED BY <1>1, <2>1 DEF MergedGraph, Tasks
<1>6. \A t \in Logic : h[t] = (IF t \in {from, top} THEN r ELSE t) /\ h[t] \in Logic
  BY <1>5 DEF Onto
<1>7. /\ MergedStepCost(from, top) \in Nat /\ s2[r] = MergedStepCost(from, top)
      /\ \A t \in Logic \ {from, top} : s2[t] = s[t]
      /\ StepCosts(mtask') = s2
  BY <1>5, MergedCosts
<1>8. \A t \in Logic : s2[t] \in Nat /\ Close(s2[t], w2[t])
  BY <1>1, <1>5, RawIs
<1>9. i \in Nat /\ Close(i, q[r] + w2[r])
  <2>1. Close(m, q[r]) /\ Close(s2[r], w2[r]) /\ s2[r] \in Nat /\ w2[r] \in Nat /\ q[r] \in Nat
    BY <1>2, <1>3, <1>5, <1>8
  <2>2. i = m + s2[r]
    BY <1>7
  <2> HIDE DEF m, s2, w2, q, i
  <2>3. Close(m + s2[r], q[r] + w2[r])
    BY <1>3, <2>1, CloseSum
  <2> QED BY <1>3, <2>1, <2>2, <2>3
<1>10. PICK says : MergedWay(from, top, edge, r, way, says)
  BY ContractWay
<1> DEFINE A == Ahead(E, way)
<1>11. /\ Spread(Logic, A, from, top, c, s, i, says)
       /\ Grown(Logic, A, from, top, c, says, c2)
       /\ c2[r] = m
       /\ edgeCp'[way] = [e \in edges' |->
            IF e \in E THEN Max({edgeCp[way][e], says[Near(way, e)]})
            ELSE c2[Near(way, e)] + s2[Near(way, e)]]
  BY <1>7, <1>10 DEF MergedWay
<1>12. ASSUME NEW t \in Logic
       PROVE  /\ Close(says[t], q[h[t]] + w2[h[t]])
              /\ Close(Heard(A, says, t), q[h[t]])
              /\ says[t] \in Nat /\ Heard(A, says, t) \in Nat
  <2>1. \A o \in A : q[h[o[2]]] >= q[h[o[1]]] + w2[h[o[1]]]
    BY <1>2
  <2>2. \A u \in Logic \ {from, top} : Close(s[u], w2[u])
    BY <1>7, <1>8
  <2>3. r \in {from, top}
    BY <1>5
  <2>4. q \in [Logic -> Nat] /\ w2 \in [Logic -> Nat]
    BY <1>2
  <2> HIDE DEF A, c, s, i, q, w2, h, E
  <2>5. says[t] \in Nat /\ Heard(A, says, t) \in Nat
    <3>1. Spread(Logic, A, from, top, c, s, i, says)
      BY <1>11
    <3>2. Heard(A, says, t) \in Nat
      BY <3>1, HeardIs
    <3> QED BY <3>1, <3>2 DEF Spread
  <2>6. h = Onto(Logic, from, top, r)
    BY DEF h
  <2> QED BY <1>9, <1>11, <2>1, <2>2, <2>3, <2>4, <2>5, <2>6, AnnouncedClose
<1>13. ASSUME NEW t \in Tasks' PROVE Close(c2[t], q[t])
  <2>1. t \in Tasks /\ t \in Logic /\ t # d
    BY <1>1, <1>5
  <2>2. CASE t = r
    BY <1>3, <1>11, <2>2
  <2>3. CASE t # r
    <3>1. t \notin {from, top} /\ h[t] = t /\ t # far
      <4>1. t \notin {from, top}
        BY <1>5, <2>1, <2>3
      <4> QED BY <1>6, <2>1, <4>1 DEF Far
    <3>2. c2[t] = Max({c[t], Heard(A, says, t)})
      BY <1>11, <2>1, <3>1 DEF Grown
    <3>3. Close(c[t], p[t]) /\ p[t] <= q[t]
      BY <1>2, <1>4, <2>1, <3>1
    <3>4. Close(Heard(A, says, t), q[t]) /\ Heard(A, says, t) \in Nat
      BY <1>12, <2>1, <3>1
    <3>5. c[t] \in Nat /\ p[t] \in Nat /\ q[t] \in Nat
      BY <1>1, <1>2, <2>1
    <3> HIDE DEF c, c2, p, q, A
    <3>6. Close(c[t], q[t])
      BY <3>3, <3>5, CloseIs
    <3> QED BY <3>2, <3>4, <3>5, <3>6, CloseMax
  <2> QED BY <2>2, <2>3
<1>14. ASSUME NEW e \in edges' PROVE Close(edgeCp'[way][e], q[Near(way, e)] + w2[Near(way, e)])
  <2> DEFINE n == Near(way, e)
  <2>1. n \in Tasks' /\ n \in Logic /\ n # d
    <3>1. e[1] \in Tasks' /\ e[2] \in Tasks'
      BY <1>5
    <3>2. n \in Tasks'
      BY <3>1 DEF Near
    <3> QED BY <1>1, <1>5, <3>2
  <2>2. h[n] = n
    BY <1>5, <1>6, <2>1
  <2>3. q[n] \in Nat /\ w2[n] \in Nat /\ p[n] \in Nat /\ w[n] \in Nat /\ c2[n] \in Nat /\ s2[n] \in Nat
    <3>1. c2[n] \in Nat
      BY <1>11, <2>1 DEF Grown
    <3> HIDE DEF n, q, w2, p, w, c2, s2
    <3> QED BY <1>2, <1>8, <2>1, <3>1
  <2> DEFINE l == q[n] + w2[n]
  <2>4. CASE e \in E
    <3>1. edgeCp'[way][e] = Max({edgeCp[way][e], says[n]})
      BY <1>11, <2>4
    <3>2. edgeCp[way][e] \in Nat /\ Close(edgeCp[way][e], p[n] + w[n])
      <4>1. edgeCp[way][e] \in Nat
        BY <1>0, <2>4 DEF PartInv, TypeOK
      <4> QED BY <1>4, <2>4, <4>1
    <3>3. l >= p[n] + w[n]
      BY <1>2, <2>1, <2>2
    <3>4. Close(says[n], l) /\ says[n] \in Nat
      BY <1>12, <2>1, <2>2
    <3>5. l \in Nat /\ p[n] + w[n] \in Nat
      BY <2>3
    <3>6. Close(edgeCp[way][e], l)
      <4> DEFINE j == p[n] + w[n]
                 k == edgeCp[way][e]
      <4>1. k \in Nat /\ j \in Nat /\ l \in Nat /\ Close(k, j) /\ j <= l
        BY <3>2, <3>3, <3>5
      <4>2. Close(k, l)
        <5> HIDE DEF j, k, l
        <5> QED BY <4>1, CloseIs
      <4> QED BY <4>2
    <3> HIDE DEF l, n
    <3>7. Close(Max({edgeCp[way][e], says[n]}), l)
      BY <3>2, <3>4, <3>5, <3>6, CloseMax
    <3> QED BY <3>1, <3>7 DEF l, n
  <2>5. CASE e \notin E
    <3>1. edgeCp'[way][e] = c2[n] + s2[n]
      BY <1>11, <2>5
    <3>2. Close(c2[n], q[n]) /\ Close(s2[n], w2[n])
      BY <1>8, <1>13, <2>1
    <3>3. Close(c2[n] + s2[n], q[n] + w2[n])
      <4> HIDE DEF c2, s2, q, w2, n
      <4> QED BY <2>3, <3>2, CloseIs
    <3> QED BY <3>1, <3>3
  <2> QED BY <2>4, <2>5
<1> QED BY <1>5, <1>13, <1>14 DEF Tight

\* At the start they are those of the rounded costs.
LEMMA BeginTight ==
  ASSUME PartInv, NEW g \in Graphs, Begin(g) PROVE CpTight'
<1> DEFINE s == StartSteps(g)
           id == [l \in Logic |-> l]
           w == RawOf(g, id)
           E == g.deps
<1>1. Begun(g) /\ mtask = id
  BY BeginIs
<1>2. /\ graph' = g /\ mtask' = id /\ edges' = E
      /\ edgeCp' = [way \in Ways |-> [e \in E |-> cp'[way][Near(way, e)] + s[Near(way, e)]]]
  BY <1>1 DEF Begun
<1>3. /\ g.tasks \subseteq Logic /\ E \in SUBSET (Logic \X Logic) /\ IsFiniteSet(Logic)
      /\ E \subseteq g.tasks \X g.tasks /\ HasNoCycle(Logic, E) /\ s \in [Logic -> Nat]
  BY GraphIs
<1>4. w \in [Logic -> Nat] /\ \A t \in g.tasks : Close(s[t], w[t])
  <2>1. w \in [Logic -> Nat]
    BY RawIs
  <2>2. ASSUME NEW t \in g.tasks PROVE Close(s[t], w[t])
    <3>1. s[t] = StepCost(g.cost[t]) /\ g.cost[t] \in Nat
      BY <1>3 DEF StartSteps, Graphs
    <3>2. w[t] = CostOf(g, id, t)
      BY <1>3 DEF RawOf
    <3>3. CostOf(g, id, t) = g.cost[t]
      BY CostAlone
    <3> HIDE DEF s, w, id
    <3> QED BY <3>1, <3>2, <3>3, StepCostClose
  <2> QED BY <2>1, <2>2
<1> SUFFICES ASSUME NEW way \in Ways
             PROVE  Tight(way, g, id, E, cp'[way], edgeCp'[way])
  BY <1>2 DEF CpTight
<1> DEFINE q == CriticalPath(way, E, w)
           c == cp'[way]
           A == Ahead(E, way)
<1>5. c = CriticalPath(way, E, s)
  BY <1>1, BegunPaths
<1>6. c \in [Logic -> Nat] /\ IsLongestBefore(Logic, A, c, s)
  <2> HIDE DEF c, s, E
  <2> QED BY <1>3, <1>5, CriticalPathIs
<1>7. q \in [Logic -> Nat] /\ Long(A, q, w)
  <2> HIDE DEF w, E
  <2> QED BY <1>3, <1>4, CriticalPathIs
<1>8. A \in SUBSET (Logic \X Logic) /\ HasNoCycle(Logic, A)
  BY <1>3, AheadIs, AheadNoCycle
<1>9. \A e \in E : Near(way, e) \in g.tasks /\ Near(way, e) \in Logic
  <2> SUFFICES ASSUME NEW e \in E PROVE Near(way, e) \in g.tasks
    BY <1>3
  <2>1. e[1] \in g.tasks /\ e[2] \in g.tasks
    BY <1>3
  <2> QED BY <2>1 DEF Near
<1>10. \A e \in A : Close(s[e[1]], w[e[1]])
  <2> SUFFICES ASSUME NEW e \in A PROVE Close(s[e[1]], w[e[1]])
    OBVIOUS
  <2>1. PICK o \in E : e = <<Near(way, o), Far(way, o)>>
    BY DEF Ahead
  <2>2. e[1] = Near(way, o)
    BY <2>1
  <2> HIDE DEF A, s, w
  <2> QED BY <1>4, <1>9, <2>2
<1>11. \A t \in Logic : Close(c[t], q[t])
  <2> HIDE DEF A, c, q, s, w
  <2> QED BY <1>3, <1>4, <1>6, <1>7, <1>8, <1>10, PathClose
<1>12. ASSUME NEW e \in E PROVE Close(edgeCp'[way][e], q[Near(way, e)] + w[Near(way, e)])
  <2> DEFINE n == Near(way, e)
  <2>1. n \in g.tasks /\ n \in Logic
    BY <1>9
  <2>2. edgeCp'[way][e] = c[n] + s[n]
    BY <1>2
  <2>3. c[n] \in Nat /\ s[n] \in Nat /\ q[n] \in Nat /\ w[n] \in Nat
    <3> HIDE DEF c, s, q, w, n
    <3> QED BY <1>3, <1>4, <1>6, <1>7, <2>1
  <2>4. Close(c[n] + s[n], q[n] + w[n])
    <3> HIDE DEF c, s, q, w, n
    <3> QED BY <1>4, <1>11, <2>1, <2>3, CloseSum
  <2> QED BY <2>2, <2>4
<1>13. ASSUME NEW t \in {id[l] : l \in g.tasks} PROVE Close(c[t], q[t])
  <2>1. t \in Logic
    BY <1>3
  <2> QED BY <1>11, <2>1
<1> QED BY <1>12, <1>13 DEF Tight

LEMMA CpTightInductive ==
  ASSUME PartInv, CpTight, [Next]_vars PROVE CpTight'
<1>1. ASSUME NEW from, NEW top, NEW edge, Merging(from, top, edge), Contract(from, top, edge)
      PROVE  CpTight'
  <2> DEFINE r == Recipient(from, top)
             d == Donor(from, top)
  <2>1. MergedBy(from, top, edge, r, d)
    BY <1>1 DEF MergedBy
  <2>2. pc = "contract"
    BY <1>1 DEF Merging
  <2> HIDE DEF r, d
  <2>3. ASSUME NEW way \in Ways
        PROVE  Tight(way, graph', mtask', edges', cp'[way], edgeCp'[way])
    <3>1. Tight(way, graph, mtask, edges, cp[way], edgeCp[way])
      BY <2>2 DEF CpTight
    <3> QED BY <2>1, <3>1, MergedTight
  <2> QED BY <2>3 DEF CpTight
<1>2. ASSUME pc' = "contract" => /\ pc = "contract" /\ graph' = graph /\ mtask' = mtask
                                 /\ edges' = edges /\ cp' = cp /\ edgeCp' = edgeCp
      PROVE  CpTight'
  BY <1>2 DEF CpTight
<1>3. ASSUME NEW e \in edges, ContractEdge(e) PROVE CpTight'
  <2>1. Merging(e[1], e[2], {e}) /\ Contract(e[1], e[2], {e})
    BY <1>3, ContractEdgeIs
  <2> QED BY <1>1, <2>1
<1>4. ASSUME NEW p \in pairs, ContractPair(p) PROVE CpTight'
  <2>1. Merging(Bp(p), Ap(p), {}) /\ Contract(Bp(p), Ap(p), {})
    BY <1>4, ContractPairIs
  <2> QED BY <1>1, <2>1
<1>5. ASSUME NEW e \in edges, DropEdge(e) PROVE CpTight'
  BY <1>2, <1>5 DEF DropEdge, Ready
<1>6. ASSUME NEW p \in pairs, DropPair(p) PROVE CpTight'
  BY <1>2, <1>6 DEF DropPair, Ready
<1>7. ASSUME RaiseLimit PROVE CpTight'
  BY <1>2, <1>7 DEF RaiseLimit, NoneReady
<1>8. ASSUME Stop \/ RemoveTransitiveEdges \/ \E T \in SUBSET Tasks : RemoveEmpty(T) PROVE CpTight'
  BY <1>2, <1>8 DEF Stop, RemoveTransitiveEdges, RemoveEmpty
<1>9. ASSUME UNCHANGED vars PROVE CpTight'
  BY <1>2, <1>9 DEF vars
<1> QED BY <1>3, <1>4, <1>5, <1>6, <1>7, <1>8, <1>9, BeginTight DEF Next, Merge

LEMMA CpTightImplies ==
  ASSUME PartInv, CpTight PROVE CpNear
<1> SUFFICES ASSUME pc = "contract", NEW way \in Ways
             PROVE  LET Tolerated(cached, actual) ==
                          cached >= actual /\ 100 * cached <= StepPercent * actual
                        path == CriticalPath(way, edges, StepCosts(mtask))
                    IN /\ \A t \in Tasks : Tolerated(cp[way][t], path[t])
                       /\ \A e \in edges :
                            Tolerated(edgeCp[way][e], cp[way][Near(way, e)] + stepCost(Near(way, e)))
  BY DEF CpNear
<1> DEFINE w == RawOf(graph, mtask)
           s == StepOf(graph, mtask)
           p == CriticalPath(way, edges, w)
           path == CriticalPath(way, edges, s)
           c == cp[way]
           A == Ahead(edges, way)
<1>1. /\ TypeOK /\ graph \in Graphs /\ CpSound /\ EdgeCpSound /\ pc # "final"
      /\ edges \in SUBSET (Logic \X Logic) /\ HasNoCycle(Logic, edges)
      /\ Tasks \subseteq Logic /\ IsFiniteSet(Logic)
  BY TasksAreLogic DEF PartInv, Prepared
<1>2. c \in [Logic -> Nat] /\ \A e \in edges : edgeCp[way][e] \in Nat
  BY <1>1 DEF TypeOK
<1>3. StepCosts(mtask) = s
  BY DEF StepCosts, CostIn, StepOf, CostOf, Sum
<1>4. /\ s \in [Logic -> Nat] /\ w \in [Logic -> Nat]
      /\ \A t \in Logic : s[t] >= w[t] /\ s[t] = stepCost(t)
  BY <1>1, RawIs, StepOfIs
<1>5. A \in SUBSET (Logic \X Logic) /\ HasNoCycle(Logic, A)
  BY <1>1, AheadIs, AheadNoCycle
<1>6. p \in [Logic -> Nat] /\ IsLongestBefore(Logic, A, p, w)
  <2> HIDE DEF w
  <2> QED BY <1>1, <1>4, CriticalPathIs
<1>7. path \in [Logic -> Nat] /\ Long(A, path, s) /\ IsLongestBefore(Logic, A, path, s)
  <2> HIDE DEF s
  <2> QED BY <1>1, <1>4, CriticalPathIs
<1>8. \A e \in A : w[e[1]] <= s[e[1]] /\ s[e[1]] <= s[e[1]]
  <2> SUFFICES ASSUME NEW e \in A PROVE w[e[1]] <= s[e[1]] /\ s[e[1]] <= s[e[1]]
    OBVIOUS
  <2>1. e[1] \in Logic
    BY <1>5
  <2>2. s[e[1]] >= w[e[1]] /\ s[e[1]] \in Nat /\ w[e[1]] \in Nat
    BY <1>4, <2>1
  <2> HIDE DEF s, w
  <2> QED BY <2>2
<1>9. \A t \in Logic : p[t] <= path[t]
  <2> HIDE DEF A, p, path, s, w
  <2> QED BY <1>4, <1>5, <1>6, <1>7, <1>8, PathLower
<1>10. Long(A, c, s)
  BY <1>1, PathsLong
<1>11. \A t \in Logic : path[t] <= c[t]
  <2> HIDE DEF A, c, path, s
  <2> QED BY <1>2, <1>4, <1>5, <1>7, <1>8, <1>10, PathLower
<1>12. /\ \A t \in Tasks : Close(c[t], p[t])
       /\ \A e \in edges : Close(edgeCp[way][e], p[Near(way, e)] + w[Near(way, e)])
  <2>1. Tasks = {mtask[l] : l \in graph.tasks}
    BY DEF Tasks
  <2> QED BY <2>1 DEF Tight, CpTight
<1>13. ASSUME NEW t \in Tasks
       PROVE  c[t] >= path[t] /\ 100 * c[t] <= StepPercent * path[t]
  <2>1. Close(c[t], p[t]) /\ p[t] <= path[t] /\ path[t] <= c[t]
    BY <1>1, <1>9, <1>11, <1>12
  <2>2. c[t] \in Nat /\ p[t] \in Nat /\ path[t] \in Nat
    BY <1>1, <1>2, <1>6, <1>7
  <2>3. Close(c[t], path[t])
    <3> HIDE DEF c, p, path
    <3> QED BY <2>1, <2>2, CloseIs
  <2> QED BY <2>1, <2>2, <2>3 DEF Close
<1>14. ASSUME NEW e \in edges
       PROVE  LET actual == c[Near(way, e)] + stepCost(Near(way, e))
              IN edgeCp[way][e] >= actual /\ 100 * edgeCp[way][e] <= StepPercent * actual
  <2> DEFINE n == Near(way, e)
             k == edgeCp[way][e]
             l == p[n] + w[n]
             j == c[n] + stepCost(n)
  <2>1. n \in Logic
    <3>1. e[1] \in Logic /\ e[2] \in Logic
      BY <1>1
    <3> QED BY <3>1 DEF Near
  <2>2. c[n] \in Nat /\ s[n] \in Nat /\ s[n] = stepCost(n) /\ p[n] \in Nat /\ w[n] \in Nat
        /\ path[n] \in Nat
    <3> HIDE DEF c, s, p, w, n, path
    <3> QED BY <1>2, <1>4, <1>6, <1>7, <2>1
  <2>3. p[n] <= path[n] /\ path[n] <= c[n] /\ w[n] <= s[n]
    BY <1>4, <1>9, <1>11, <2>1
  <2>4. l \in Nat /\ j \in Nat /\ l <= j
    <3> HIDE DEF c, s, p, w, n, path
    <3> QED BY <2>2, <2>3
  <2>5. k \in Nat /\ Close(k, l) /\ k >= j
    BY <1>1, <1>2, <1>12 DEF EdgeCpSound
  <2>6. Close(k, j)
    <3> HIDE DEF k, l, j
    <3> QED BY <2>4, <2>5, CloseIs
  <2> QED BY <2>5, <2>6 DEF Close
<1> QED BY <1>3, <1>13, <1>14

\* partCheckCriticalPaths never fails: whatever the graph, and however often its
\* cached critical paths have been updated instead of computed anew, they are those
\* that a computation would give, or more by no more than what costs are rounded.
THEOREM CachedPathsNear == Spec => []CpNear
<1>1. Init => PartInv /\ CpTight
  BY InitKeeps DEF Init, CpTight
<1>2. PartInv /\ CpTight /\ [Next]_vars => (PartInv /\ CpTight)'
  BY PartInductive, CpTightInductive
<1>3. PartInv /\ CpTight => CpNear
  BY CpTightImplies
<1> QED BY <1>1, <1>2, <1>3, PTL DEF Spec
=============================================================================
