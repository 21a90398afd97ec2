------------------------------ MODULE Weights ------------------------------
(***************************************************************************)
(* Running totals of weights and the bisection that turns a draw into an    *)
(* index, as data.rs and base.rs use them.  The code's weights are doubles; *)
(* here they are integers, and a draw x \in [0, total) is an integer too:    *)
(* an index of weight w answers to w draws out of total.  A weight that is   *)
(* negative, infinite or NaN is a negative integer.  Indices start at 1.     *)
(***************************************************************************)
EXTENDS Integers, Sequences, FiniteSets

\* cumulative(w): the running totals, from the total of nothing on.
Cumulative(w) == LET c[i \in 0..Len(w)] == IF i = 0 THEN 0 ELSE c[i - 1] + w[i] IN c

TotalWeight(w) == Cumulative(w)[Len(w)]

\* What cumulative(w) refuses.
BadWeights(w) ==
  \/ \E i \in 1..Len(w) : w[i] < 0
  \/ Len(w) > 0 /\ TotalWeight(w) = 0

\* The values unit() * total takes: [0, total), and 0 when the total is 0.
DrawsUpTo(total) == IF total = 0 THEN {0} ELSE 0..(total - 1)

\* Mutant of Bisect: bisect_left for bisect_right.
BisectLeft(c, n, x) ==
  LET below == Cardinality({i \in 1..n : c[i] < x})
  IN IF below < n THEN below + 1 ELSE n

\* partition_point(|c| c <= x).min(n - 1): past the running totals that are at
\* most x, but never past the last item.
Bisect(c, n, x) ==
  LET below == Cardinality({i \in 1..n : c[i] <= x})
  IN IF below < n THEN below + 1 ELSE n
=============================================================================
