----------------------------- MODULE DateStrings -----------------------------
(***************************************************************************)
(* parse_date_string of date_time.rs: the relative dates "+1y2M3w4d5h6m7s",    *)
(* of which every part may be left out.  A string is a sequence of            *)
(* characters; "0" and "1" stand for the digits.                              *)
(***************************************************************************)
EXTENDS Integers, Sequences

CONSTANTS
  SpanTexts,  \* the strings
  Units       \* the units, in their order

ASSUME SpanAssumption ==
  /\ SpanTexts \subseteq Seq(STRING) /\ Units \in Seq(STRING)
  /\ \A n \in 1..Len(Units) : Units[n] \notin {"0", "1"}

VARIABLES
  spanning,  \* "idle", "parsing", "done" or "failed"
  span,      \* the string
  unit,      \* which unit is next
  rest,      \* where the rest of the string starts
  amounts    \* what was found: [unit, amount]

spanVars == <<spanning, span, unit, rest, amounts>>

SpanInit == spanning = "idle" /\ span = <<>> /\ unit = 1 /\ rest = 1 /\ amounts = {}

Signs == {"+", "-"}
Decimal == {"0", "1"}
DigitValue(c) == IF c = "0" THEN 0 ELSE 1

\* The number whose n digits start at i.
Number(s, i, n) ==
  LET upTo[k \in 0..n] == IF k = 0 THEN 0 ELSE 10 * upTo[k - 1] + DigitValue(s[i + k - 1])
  IN upTo[n]

\* How many digits there are from i on.
DigitsFrom(s, i) ==
  CHOOSE n \in 0..(Len(s) + 1 - i) :
    /\ \A k \in i..(i + n - 1) : s[k] \in Decimal
    /\ i + n <= Len(s) => s[i + n] \notin Decimal

SpanPart(u, i, signed, s) ==
  LET start == IF signed THEN i + 1 ELSE i
      digits == DigitsFrom(s, start)
      end == start + digits
      amount == Number(s, start, digits)
  IN {[unit |-> u, amount |-> IF s[i] = "-" THEN -amount ELSE amount, next |-> end + 1] :
        x \in {y \in {end} : digits > 0 /\ y <= Len(s) /\ s[y] = u}}

\* Mutant of SignedAmount: one sign will do for all parts.
OneSign(s, i, u) == IF i > Len(s) THEN {} ELSE SpanPart(u, i, s[i] \in Signs, s)
\* signed_amount: the part of unit u that starts at i, if there is one.
SignedAmount(s, i, u) == IF i > Len(s) \/ s[i] \notin Signs THEN {} ELSE SpanPart(u, i, TRUE, s)

-----------------------------------------------------------------------------
AskSpan(s) ==
  /\ spanning' = "parsing" /\ span' = s
  /\ UNCHANGED <<unit, rest, amounts>>

\* The loop tries one unit after the other, where the last part ended.
TakeUnit(part) ==
  /\ spanning = "parsing" /\ unit <= Len(Units)
  /\ part \in SignedAmount(span, rest, Units[unit])
  /\ amounts' = amounts \cup {[unit |-> part.unit, amount |-> part.amount]}
  /\ rest' = part.next /\ unit' = unit + 1
  /\ UNCHANGED <<spanning, span>>

PassUnit ==
  /\ spanning = "parsing" /\ unit <= Len(Units)
  /\ SignedAmount(span, rest, Units[unit]) = {}
  /\ unit' = unit + 1
  /\ UNCHANGED <<spanning, span, rest, amounts>>

SumUp ==
  /\ spanning = "parsing" /\ unit > Len(Units)
  /\ spanning' = IF amounts = {} THEN "failed" ELSE "done"
  /\ UNCHANGED <<span, unit, rest, amounts>>

GotSpan ==
  /\ spanning \in {"done", "failed"}
  /\ spanning' = "idle" /\ span' = <<>> /\ unit' = 1 /\ rest' = 1 /\ amounts' = {}

SpanNext ==
  \/ spanning = "idle" /\ \E s \in SpanTexts : AskSpan(s)
  \/ /\ unit <= Len(Units)
     /\ \E part \in SignedAmount(span, rest, Units[unit]) : TakeUnit(part)
  \/ PassUnit \/ SumUp \/ GotSpan

SpanSpec == SpanInit /\ [][SpanNext]_spanVars

-----------------------------------------------------------------------------
(* Properties                                                              *)

\* A group of _tz.py's regular expression, (((?:\+|-)\d+?)y)? for the first unit,
\* that takes part in a match of s, from i up to j.
Group(s, n, i, j) ==
  /\ i + 3 <= j /\ j <= Len(s) + 1
  /\ s[i] \in Signs /\ s[j - 1] = Units[n]
  /\ \A k \in (i + 1)..(j - 2) : s[k] \in Decimal

\* Its matches of a prefix of s: the n-th group ends at f[n], where it began if it
\* takes no part.
GroupEnds(s) ==
  {f \in [0..Len(Units) -> 1..(Len(s) + 1)] :
     /\ f[0] = 1
     /\ \A n \in 1..Len(Units) : f[n] # f[n - 1] => Group(s, n, f[n - 1], f[n])}

\* re.match tries to take a group before it tries to do without it.
Preferred(f, g) ==
  f # g => \E n \in 1..Len(Units) :
             /\ \A k \in 0..(n - 1) : f[k] = g[k]
             /\ f[n] # g[n] /\ f[n] # f[n - 1]

\* What the groups of a match stand for.
GroupAmounts(s, f) ==
  {[unit |-> Units[n],
    amount |-> LET value == Number(s, f[n - 1] + 1, f[n] - f[n - 1] - 2)
               IN IF s[f[n - 1]] = "-" THEN -value ELSE value] :
     n \in {m \in 1..Len(Units) : f[m] # f[m - 1]}}

\* "Like re.match, only a prefix has to match": the amounts are those of the
\* groups that Python's regular expression would match, whichever parts the
\* string has, in whatever order and whatever follows; it is an error exactly
\* when no group takes part.
ParsedLikeRegex ==
  spanning \in {"done", "failed"} =>
    LET matches == GroupEnds(span)
        f == CHOOSE f \in matches : \A g \in matches : Preferred(f, g)
    IN /\ amounts = GroupAmounts(span, f)
       /\ spanning = "failed" <=> amounts = {}
=============================================================================
