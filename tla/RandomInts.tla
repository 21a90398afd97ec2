----------------------------- MODULE RandomInts -----------------------------
(***************************************************************************)
(* random_int of base.rs: a member of Python's range(min, max + 1, step).    *)
(* The machine integers are of any width: i64 is MinInt to MaxInt, u64 has as *)
(* many values from 0 on; i128 holds every intermediate result.               *)
(***************************************************************************)
EXTENDS Integers

CONSTANT MaxInt  \* i64::MAX
ASSUME WidthAssumption == MaxInt \in Nat \ {0}

VARIABLES
  rolling,  \* "idle", "rolling", "done" or "failed"
  bounds,   \* the call under way: [min, max, step]
  rolled    \* its result

intVars == <<rolling, bounds, rolled>>

MinInt == -MaxInt - 1
MaxUnsigned == 2 * MaxInt + 1  \* u64::MAX
NoBounds == [min |-> 0, max |-> 0, step |-> 0]

IntInit == rolling = "idle" /\ bounds = NoBounds /\ rolled = 0

\* Rust's division: rounds towards zero.
Quotient(a, b) ==
  LET abs(i) == IF i < 0 THEN -i ELSE i
      q == abs(a) \div abs(b)
  IN IF (a < 0) = (b < 0) THEN q ELSE -q

\* Mutant of Count: the rounding of the positive step serves both.
CountOneSided(min, max, step) == Quotient(max + 1 - min + step - 1, step)
\* How many members the range has, when that is positive.
Count(min, max, step) ==
  IF step > 0 THEN Quotient(max + 1 - min + step - 1, step)
              ELSE Quotient(max + 1 - min + step + 1, step)

\* step == 0, an empty range, or u64::try_from(count) failing.
RefusedRange(b) ==
  b.step = 0 \/ Count(b.min, b.max, b.step) <= 0 \/ Count(b.min, b.max, b.step) > MaxUnsigned

\* randint(0, count - 1), whose upper end is at most MaxInt.
Offsets(count) ==
  IF count = 1 THEN {0} ELSE 0..(IF count - 1 > MaxInt THEN MaxInt ELSE count - 1)

AskInt(b) ==
  /\ bounds' = b
  /\ rolling' = IF RefusedRange(b) THEN "failed" ELSE "rolling"
  /\ UNCHANGED rolled

\* The draw; a result that is no i64 is an error.
Roll(offset) ==
  LET r == bounds.min + bounds.step * offset
  IN /\ rolling = "rolling"
     /\ offset \in Offsets(Count(bounds.min, bounds.max, bounds.step))
     /\ IF r \in MinInt..MaxInt THEN rolling' = "done" /\ rolled' = r
                                ELSE rolling' = "failed" /\ UNCHANGED rolled
     /\ UNCHANGED bounds

GotInt ==
  /\ rolling \in {"done", "failed"}
  /\ rolling' = "idle" /\ bounds' = NoBounds /\ rolled' = 0

IntNext ==
  \/ /\ rolling = "idle"
     /\ \E min, max, step \in MinInt..MaxInt : AskInt([min |-> min, max |-> max, step |-> step])
  \/ \E offset \in 0..MaxInt : Roll(offset)
  \/ GotInt

IntSpec == IntInit /\ [][IntNext]_intVars

-----------------------------------------------------------------------------
(* Properties                                                              *)

\* range(min, max + 1, step) as Python defines it.
PythonRange(b) ==
  {v \in MinInt..MaxInt :
     \E k \in 0..MaxUnsigned : /\ v = b.min + k * b.step
                           /\ IF b.step > 0 THEN v < b.max + 1 ELSE v > b.max + 1}

\* "Random integer from range(min, max + 1, step) (Python randrange
\* semantics)": whatever the signs and the roundings, the result is a member of
\* that range, and an error means that it is no range, is empty, or is the
\* whole of i64; no result overflows.
RandrangeAgrees ==
  /\ rolling = "done" => rolled \in PythonRange(bounds)
  /\ rolling = "failed" =>
       \/ bounds.step = 0
       \/ PythonRange(bounds) = {}
       \/ bounds = [min |-> MinInt, max |-> MaxInt, step |-> 1]
=============================================================================
