------------------------------ MODULE MTaskGraph ------------------------------
(***************************************************************************)
(* Graphs of mtasks, as V3Partition and the run time mean them: an edge     *)
(* <<t, u>> says that t finishes before u starts.                           *)
(***************************************************************************)
EXTENDS Integers, FiniteSets, FiniteSetsExt

\* t is u or comes before it: whatever contains t and with a task all that
\* wait for it contains u.
Before(N, E, t, u) ==
  \A U \in SUBSET N :
    (t \in U /\ \A e \in E : e[1] \in U => e[2] \in U) => u \in U

\* No way to start is blocked for ever: every set of tasks has one that waits
\* for none of the others.
HasNoCycle(N, E) == \A S \in SUBSET N : S # {} => \E t \in S : \A u \in S : <<u, t>> \notin E

\* The highest of the numbers that f has on S, 0 if there is none.
Highest(f, S) == Max({0} \cup {f[t] : t \in S})

\* Every edge leads to a higher rank.
Ranked(E, rank) == \A e \in E : rank[e[1]] < rank[e[2]]

\* The ranks that V3Partition gives the vertices of a graph: 0, or one more
\* than the highest rank before it.
RankOf(N, E) ==
  {rank \in [N -> 0 .. Cardinality(N) - 1] :
     /\ Ranked(E, rank)
     /\ \A t \in N : rank[t] = 0 \/ \E u \in N : <<u, t>> \in E /\ rank[t] = rank[u] + 1}
=============================================================================
