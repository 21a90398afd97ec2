------------------------------- MODULE Tables -------------------------------
(***************************************************************************)
(* Picking from the locale's data tables: Table::pick and pick_concat of    *)
(* data.rs.  A table is a sequence of weights, or, when it has none, a       *)
(* number of items; build.rs refuses an empty table, a negative weight and   *)
(* weights that are all zero.  pick_concat picks from several tables as if   *)
(* they were one.                                                            *)
(***************************************************************************)
EXTENDS Weights

CONSTANTS
  MaxTables,  \* bound on the tables picked from at once
  MaxRows,    \* bound on the items of a table
  MaxShare    \* bound on the weight of an item

ASSUME TableAssumption == MaxTables \in Nat /\ MaxRows \in Nat /\ MaxShare \in Nat

VARIABLES
  picking,    \* "idle", "asked" or "done"
  tables,     \* the tables, [n, weights], with weights = <<>> for none
  weighting,  \* use_weighting
  choice      \* <<table, item>>

tableVars == <<picking, tables, weighting, choice>>

TableInit ==
  picking = "idle" /\ tables = <<>> /\ weighting = FALSE /\ choice = <<>>

\* What build.rs lets through.
Compiled ==
  {[n |-> k, weights |-> <<>>] : k \in 1..MaxRows} \cup
  UNION {{[n |-> k, weights |-> w] : w \in {v \in [1..k -> 0..MaxShare] : ~BadWeights(v)}}
         : k \in 1..MaxRows}

HasWeights(t) == t.weights # <<>>

\* Mutant of AllWeighted: it is enough that one table has weights.
SomeWeighted(ts, use) == use /\ \E k \in 1..Len(ts) : HasWeights(ts[k])
\* Weights are honored when use_weighting is set and every table has them.
AllWeighted(ts, use) == use /\ \A k \in 1..Len(ts) : HasWeights(ts[k])

\* total_weight, or len, of each table; what a pick counts its draw in.
Sizes(ts, use) ==
  [k \in 1..Len(ts) |-> IF AllWeighted(ts, use) THEN TotalWeight(ts[k].weights) ELSE ts[k].n]

\* What the items of table t weigh in a pick: one each without weights.
Ones(n) == [i \in 1..n |-> 1]
ItemWeights(t, weighted) == IF weighted THEN t.weights ELSE Ones(t.n)

\* pick_concat, and pick for one table: walk the tables until the rest x of the
\* draw is below the size of one, then find x among its running totals.
Choice(ts, use, x) ==
  LET totals == Cumulative(Sizes(ts, use))
      k == Bisect(totals, Len(ts), x)
      within == ItemWeights(ts[k], AllWeighted(ts, use))
  IN <<k, Bisect(Cumulative(within), Len(within), x - totals[k - 1])>>

DrawsFor(ts, use) == DrawsUpTo(TotalWeight(Sizes(ts, use)))

AskTables(ts, use) ==
  /\ picking' = "asked" /\ tables' = ts /\ weighting' = use
  /\ UNCHANGED choice

Pick(x) ==
  /\ picking = "asked" /\ x \in DrawsFor(tables, weighting)
  /\ picking' = "done"
  /\ choice' = Choice(tables, weighting, x)
  /\ UNCHANGED <<tables, weighting>>

Rendered ==
  /\ picking = "done"
  /\ picking' = "idle" /\ tables' = <<>> /\ weighting' = FALSE /\ choice' = <<>>

TableNext ==
  \/ /\ picking = "idle"
     /\ \E m \in 1..MaxTables : \E ts \in [1..m -> Compiled], use \in BOOLEAN : AskTables(ts, use)
  \/ \E x \in 0..(MaxTables * MaxRows * (MaxShare + 1)) : Pick(x)
  \/ Rendered

TableSpec == TableInit /\ [][TableNext]_tableVars

-----------------------------------------------------------------------------
(* Properties                                                              *)

\* "Picks from several tables as if they were concatenated": the draws that
\* give an item are as many as its weight, wherever its table stands in the
\* list; without weights in all of them, every item has one.
AsConcatenated ==
  picking = "asked" =>
    \A k \in 1..Len(tables) : \A i \in 1..tables[k].n :
      Cardinality({x \in DrawsFor(tables, weighting) : Choice(tables, weighting, x) = <<k, i>>})
        = IF weighting /\ \A l \in 1..Len(tables) : tables[l].weights # <<>>
            THEN tables[k].weights[i] ELSE 1
=============================================================================
