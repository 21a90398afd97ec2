----------------------------- MODULE DrawsProofs -----------------------------
(***************************************************************************)
(* What is proved of a part of the core holds of the whole: whatever else is  *)
(* called in between, a part takes its own steps only.  The parts that have    *)
(* no module of proofs of their own (borrows, texts, tables) are here too.      *)
(***************************************************************************)
EXTENDS Draws, SamplingProofs, InternetProofs, CalendarProofs

-----------------------------------------------------------------------------
(* Borrows, for any threads and any nesting                                *)

Call == [kind : Kinds, drawn : BOOLEAN]

\* The calls of every thread are no more than MaxNesting.
BorrowTypeOK ==
  /\ calls \in [Threads -> Seq(Call)]
  /\ \A t \in Threads : Depth(t) <= MaxNesting
  /\ refusal \in {"none", "RuntimeError", "PanicException"}

BorrowInv == BorrowTypeOK /\ RefusedOnlyWithin

\* Whoever borrows is a call that takes &mut self, and the only one.
LEMMA BorrowerHolds ==
  ASSUME BorrowInv
  PROVE  /\ borrower # NoOne => borrower \in Holding
         /\ \A c \in Holding : c = borrower
BY DEF BorrowInv, RefusedOnlyWithin

\* A sequence without its last element.
LEMMA WithoutLast ==
  ASSUME NEW S, NEW s \in Seq(S), Len(s) > 0
  PROVE  /\ SubSeq(s, 1, Len(s) - 1) \in Seq(S)
         /\ Len(SubSeq(s, 1, Len(s) - 1)) = Len(s) - 1
         /\ \A n \in 1..(Len(s) - 1) : SubSeq(s, 1, Len(s) - 1)[n] = s[n]
<1> DEFINE last == Len(s) - 1
<1>1. last \in Nat /\ \A n \in 1..last : s[n] \in S
  OBVIOUS
<1> HIDE DEF last
<1>2. SubSeq(s, 1, last) \in Seq(S) /\ Len(SubSeq(s, 1, last)) = last
  BY <1>1, SubSeqProperties
<1>3. ASSUME NEW n \in 1..last PROVE SubSeq(s, 1, last)[n] = s[n]
  <2>1. SubSeq(s, 1, last)[n] = s[1 + n - 1] /\ 1 + n - 1 = n
    BY <1>1, SubSeqProperties
  <2> QED
    BY <2>1
<1> QED
  BY <1>2, <1>3 DEF last

\* A call that returns leaves the others as they were.
LEMMA ReturnedKeeps ==
  ASSUME BorrowInv, NEW t \in Threads, Depth(t) > 0, Returned(t)
  PROVE  /\ calls' \in [Threads -> Seq(Call)]
         /\ \A u \in Threads : Depth(u)' <= MaxNesting
         /\ Holding' = IF borrower' = NoOne THEN {} ELSE {borrower'}
         /\ borrower # NoOne /\ Innermost(t).kind # "mut_self" => borrower' = borrower
<1> DEFINE gone == [thread |-> t, nesting |-> Depth(t)]
<1>1. calls \in [Threads -> Seq(Call)] /\ Depth(t) \in Nat /\ Depth(t) <= MaxNesting
  BY DEF BorrowInv, BorrowTypeOK, Depth
<1>2. LET shorter == SubSeq(calls[t], 1, Depth(t) - 1)
      IN  /\ shorter \in Seq(Call) /\ Len(shorter) = Depth(t) - 1
          /\ \A n \in 1..(Depth(t) - 1) : shorter[n] = calls[t][n]
  BY <1>1, WithoutLast DEF Depth
<1>3. calls' \in [Threads -> Seq(Call)]
  BY <1>1, <1>2 DEF Returned
<1>4. Depth(t)' = Depth(t) - 1 /\ \A n \in 1..(Depth(t) - 1) : calls'[t][n] = calls[t][n]
  BY <1>1, <1>2 DEF Returned, Depth
<1>5. \A u \in Threads \ {t} : Depth(u)' = Depth(u) /\ calls'[u] = calls[u]
  BY <1>1 DEF Returned, Depth
<1>6. \A u \in Threads : Depth(u)' <= MaxNesting
  BY <1>1, <1>4, <1>5, BorrowingAssumption DEF BorrowInv, BorrowTypeOK, Depth
<1>7. Holding' = Holding \ {gone}
  <2>1. ASSUME NEW c \in [thread : Threads, nesting : 1..MaxNesting]
        PROVE  c \in Holding' <=> c \in Holding /\ c # gone
    <3>1. CASE c.thread # t
      BY <3>1, <1>5 DEF Holding
    <3>2. CASE c.thread = t
      <4>1. c = gone <=> c.nesting = Depth(t)
        BY <3>2
      <4>2. c.nesting <= Depth(t)' <=> c.nesting <= Depth(t) /\ c.nesting # Depth(t)
        BY <1>1, <1>4
      <4> QED
        BY <3>2, <4>1, <4>2, <1>1, <1>4 DEF Holding
    <3> QED
      BY <3>1, <3>2
  <2> QED
    BY <2>1 DEF Holding
<1>8. gone # NoOne
  BY <1>1 DEF NoOne
<1>9. Holding' = IF borrower' = NoOne THEN {} ELSE {borrower'}
  BY <1>7, <1>8 DEF Returned, BorrowInv, RefusedOnlyWithin
<1>10. borrower # NoOne /\ Innermost(t).kind # "mut_self" => borrower' = borrower
  <2>1. borrower = gone => Innermost(t).kind = "mut_self"
    BY BorrowerHolds, <1>8 DEF Holding, Innermost
  <2> QED
    BY <2>1 DEF Returned
<1> QED
  BY <1>3, <1>6, <1>9, <1>10

LEMMA EnterKeeps ==
  ASSUME BorrowInv, NEW t \in Threads, NEW kind \in Kinds, EnterCall(t, kind)
  PROVE  BorrowInv'
<1> USE DEF BorrowInv, BorrowTypeOK
<1>1. CASE HeldThroughout(kind) /\ borrower # NoOne
  BY <1>1 DEF EnterCall, RefusedOnlyWithin, Holding, Depth
<1>2. CASE ~(HeldThroughout(kind) /\ borrower # NoOne)
  <2> DEFINE new == [kind |-> kind, drawn |-> FALSE]
             entered == [thread |-> t, nesting |-> Depth(t) + 1]
  <2>1. /\ calls' = [calls EXCEPT ![t] = Append(@, new)] /\ refusal' = "none"
        /\ borrower' = IF HeldThroughout(kind) THEN entered ELSE borrower
        /\ Depth(t) < MaxNesting
    BY <1>2 DEF EnterCall
  <2>2. Depth(t) \in Nat /\ new \in Call /\ calls[t] \in Seq(Call)
    <3>1. new \in Call
      BY DEF Call
    <3>2. calls[t] \in Seq(Call)
      OBVIOUS
    <3> QED
      BY <3>1, <3>2, LenProperties DEF Depth
  <2>3. /\ calls' \in [Threads -> Seq(Call)] /\ Depth(t)' = Depth(t) + 1
        /\ \A n \in 1..Depth(t) : calls'[t][n] = calls[t][n]
        /\ calls'[t][Depth(t) + 1] = new
    BY <2>1, <2>2 DEF Depth
  <2>4. \A u \in Threads \ {t} : Depth(u)' = Depth(u) /\ calls'[u] = calls[u]
    <3>1. \A u \in Threads \ {t} : calls'[u] = calls[u]
      BY <2>1
    <3> QED
      BY <3>1 DEF Depth
  <2>5. BorrowTypeOK'
    <3>1. Depth(t)' <= MaxNesting
      BY <2>1, <2>2, <2>3, BorrowingAssumption
    <3>2. \A u \in Threads : Depth(u)' <= MaxNesting
      BY <2>4, <3>1
    <3> QED
      BY <2>1, <2>3, <3>2
  <2>6. entered # NoOne /\ entered \notin Holding
    BY <2>2 DEF NoOne, Holding
  <2>7. Holding' = Holding \cup IF kind = "mut_self" THEN {entered} ELSE {}
    <3>1. ASSUME NEW c \in [thread : Threads, nesting : 1..MaxNesting]
          PROVE  c \in Holding' <=> c \in Holding \/ (kind = "mut_self" /\ c = entered)
      <4>1. CASE c.thread # t
        BY <4>1, <2>4 DEF Holding
      <4>2. CASE c.thread = t
        <5>1. c = entered <=> c.nesting = Depth(t) + 1
          BY <4>2
        <5>2. c.nesting <= Depth(t)' <=> c.nesting <= Depth(t) \/ c.nesting = Depth(t) + 1
          BY <2>2, <2>3
        <5> QED
          BY <4>2, <5>1, <5>2, <2>2, <2>3 DEF Holding
      <4> QED
        BY <4>1, <4>2
    <3>2. entered \in [thread : Threads, nesting : 1..MaxNesting]
      BY <2>1, <2>2, BorrowingAssumption
    <3> QED
      BY <3>1, <3>2 DEF Holding
  <2>8. RefusedOnlyWithin'
    BY <1>2, <2>1, <2>6, <2>7 DEF RefusedOnlyWithin, HeldThroughout
  <2> QED
    BY <2>5, <2>8
<1> QED
  BY <1>1, <1>2

LEMMA DrawKeeps ==
  ASSUME BorrowInv, NEW t \in Threads, DrawInCall(t)
  PROVE  BorrowInv'
<1>1. CASE ~HeldThroughout(Innermost(t).kind) /\ borrower # NoOne
  <2>1. Returned(t) /\ Depth(t) > 0 /\ refusal' = "PanicException"
    BY <1>1 DEF DrawInCall
  <2>2. borrower' = borrower
    BY <1>1, <2>1, ReturnedKeeps DEF HeldThroughout
  <2> QED
    BY <1>1, <2>1, <2>2, ReturnedKeeps DEF BorrowInv, BorrowTypeOK, RefusedOnlyWithin
<1>2. CASE ~(~HeldThroughout(Innermost(t).kind) /\ borrower # NoOne)
  <2> DEFINE n == Depth(t)
  <2>1. /\ calls' = [calls EXCEPT ![t][n].drawn = TRUE]
        /\ refusal' = "none" /\ borrower' = borrower /\ n > 0
    BY <1>2 DEF DrawInCall
  <2>2. calls \in [Threads -> Seq(Call)] /\ n \in 1..Len(calls[t]) /\ calls[t][n] \in Call
    BY <2>1 DEF BorrowInv, BorrowTypeOK, Depth
  <2>3. [calls[t][n] EXCEPT !.drawn = TRUE] \in Call
        /\ [calls[t][n] EXCEPT !.drawn = TRUE].kind = calls[t][n].kind
    BY <2>2 DEF Call
  <2>4. calls'[t] \in Seq(Call) /\ Len(calls'[t]) = Len(calls[t])
        /\ \A i \in 1..Len(calls[t]) : calls'[t][i].kind = calls[t][i].kind
    <3> DEFINE e == [calls[t][n] EXCEPT !.drawn = TRUE]
               s == [calls[t] EXCEPT ![n] = e]
    <3>1. calls'[t] = [calls[t] EXCEPT ![n] = e] /\ calls[t] \in Seq(Call)
      <4>1. calls' = [calls EXCEPT ![t] = s]
        BY <2>1
      <4> HIDE DEF s
      <4>2. calls'[t] = s
        BY <4>1, <2>2
      <4> QED
        BY <4>2, <2>2 DEF s
    <3> HIDE DEF e
    <3>2. e \in Call /\ e.kind = calls[t][n].kind
      BY <2>3 DEF e
    <3>3. /\ calls'[t] \in Seq(Call) /\ Len(calls'[t]) = Len(calls[t])
          /\ \A i \in 1..Len(calls[t]) : calls'[t][i] = IF i = n THEN e ELSE calls[t][i]
      BY <3>1, <3>2, <2>2, ExceptSeq
    <3> QED
      BY <3>2, <3>3
  <2>5. \A u \in Threads \ {t} : calls'[u] = calls[u]
    BY <2>1, <2>2
  <2>6. BorrowTypeOK'
    BY <2>1, <2>2, <2>4, <2>5 DEF BorrowInv, BorrowTypeOK, Depth
  <2>7. Holding' = Holding
    <3>1. ASSUME NEW c \in [thread : Threads, nesting : 1..MaxNesting]
          PROVE  c \in Holding' <=> c \in Holding
      BY <2>2, <2>4, <2>5 DEF Holding, Depth
    <3> QED
      BY <3>1 DEF Holding
  <2> QED
    BY <2>1, <2>6, <2>7 DEF BorrowInv, RefusedOnlyWithin
<1> QED
  BY <1>1, <1>2

\* Only &mut self methods hold the generator, one at a time and no longer than
\* they run, and a call is refused only while one of them runs Python code, for
\* any number of threads and any nesting.
THEOREM RefusedOnlyWithinTheorem == BorrowSpec => []RefusedOnlyWithin
<1>1. BorrowInit => BorrowInv
  BY BorrowingAssumption
  DEF BorrowInit, BorrowInv, BorrowTypeOK, RefusedOnlyWithin, Holding, Depth, Call
<1>2. BorrowInv /\ [BorrowNext]_borrowVars => BorrowInv'
  <2> SUFFICES ASSUME BorrowInv, [BorrowNext]_borrowVars PROVE BorrowInv'
    OBVIOUS
  <2>1. CASE BorrowNext
    <3> PICK t \in Threads :
          \/ \E kind \in Kinds : EnterCall(t, kind)
          \/ DrawInCall(t)
          \/ LeaveCall(t)
      BY <2>1 DEF BorrowNext
    <3>1. CASE \E kind \in Kinds : EnterCall(t, kind)
      BY <3>1, EnterKeeps
    <3>2. CASE DrawInCall(t)
      BY <3>2, DrawKeeps
    <3>3. CASE LeaveCall(t)
      <4>1. Returned(t) /\ Depth(t) > 0 /\ refusal' = "none"
        BY <3>3 DEF LeaveCall
      <4> QED
        BY <4>1, ReturnedKeeps DEF BorrowInv, BorrowTypeOK, RefusedOnlyWithin
    <3> QED
      BY <3>1, <3>2, <3>3
  <2>2. CASE UNCHANGED borrowVars
    BY <2>2 DEF borrowVars, BorrowInv, BorrowTypeOK, RefusedOnlyWithin, Holding, Depth
  <2> QED
    BY <2>1, <2>2
<1>3. BorrowInv => RefusedOnlyWithin
  BY DEF BorrowInv
<1> QED
  BY <1>1, <1>2, <1>3, PTL DEF BorrowSpec

-----------------------------------------------------------------------------
(* Composition                                                             *)

\* A call of one kind leaves what belongs to the others alone.
LEMMA SampleSteps == [DrawNext]_drawVars => [SampleNext]_sampleVars
<1>1. CASE Samples
  BY <1>1 DEF Samples
<1>2. CASE DrawNext /\ ~Samples
  BY <1>2 DEF DrawNext, TablePicks, Ints, Texts, Networking, Dates, Templates, Substitutions,
              Renderings, LocaleTables, RelativeDates, PythonCode, Borrowed, Rest
<1>3. CASE UNCHANGED drawVars
  BY <1>3 DEF drawVars
<1> QED
  BY <1>1, <1>2, <1>3

LEMMA IntSteps == [DrawNext]_drawVars => [IntNext]_intVars
<1>1. CASE Ints
  BY <1>1 DEF Ints
<1>2. CASE DrawNext /\ ~Ints
  BY <1>2 DEF DrawNext, Samples, TablePicks, Texts, Networking, Dates, Templates, Substitutions,
              Renderings, LocaleTables, RelativeDates, PythonCode, Borrowed, Rest
<1>3. CASE UNCHANGED drawVars
  BY <1>3 DEF drawVars
<1> QED
  BY <1>1, <1>2, <1>3

LEMMA NetSteps == [DrawNext]_drawVars => [NetNext]_netVars
<1>1. CASE Networking
  BY <1>1 DEF Networking
<1>2. CASE DrawNext /\ ~Networking
  BY <1>2 DEF DrawNext, Samples, TablePicks, Ints, Texts, Dates, Templates, Substitutions,
              Renderings, LocaleTables, RelativeDates, PythonCode, Borrowed, Rest
<1>3. CASE UNCHANGED drawVars
  BY <1>3 DEF drawVars
<1> QED
  BY <1>1, <1>2, <1>3

LEMMA CalendarSteps == [DrawNext]_drawVars => [DateNext]_dateVars
<1>1. CASE Dates
  BY <1>1 DEF Dates
<1>2. CASE DrawNext /\ ~Dates
  BY <1>2 DEF DrawNext, Samples, TablePicks, Ints, Texts, Networking, Templates, Substitutions,
              Renderings, LocaleTables, RelativeDates, PythonCode, Borrowed, Rest
<1>3. CASE UNCHANGED drawVars
  BY <1>3 DEF drawVars
<1> QED
  BY <1>1, <1>2, <1>3

LEMMA BorrowSteps == [DrawNext]_drawVars => [BorrowNext]_borrowVars
<1>1. CASE PythonCode
  BY <1>1 DEF PythonCode
<1>2. CASE DrawNext /\ ~PythonCode
  BY <1>2 DEF DrawNext, Samples, TablePicks, Ints, Texts, Networking, Dates, Templates,
              Substitutions, Renderings, LocaleTables, RelativeDates, Borrowed, Rest
<1>3. CASE UNCHANGED drawVars
  BY <1>3 DEF drawVars
<1> QED
  BY <1>1, <1>2, <1>3

LEMMA DataSteps == [DrawNext]_drawVars => [DataNext]_dataVars
<1>1. CASE LocaleTables
  BY <1>1 DEF LocaleTables
<1>2. CASE DrawNext /\ ~LocaleTables
  BY <1>2 DEF DrawNext, Samples, TablePicks, Ints, Texts, Networking, Dates, Templates,
              Substitutions, Renderings, RelativeDates, PythonCode, Borrowed, Rest
<1>3. CASE UNCHANGED drawVars
  BY <1>3 DEF drawVars
<1> QED
  BY <1>1, <1>2, <1>3

LEMMA TextSteps == [DrawNext]_drawVars => [TextNext]_textVars
<1>1. CASE Texts
  BY <1>1 DEF Texts
<1>2. CASE DrawNext /\ ~Texts
  BY <1>2 DEF DrawNext, Samples, TablePicks, Ints, Networking, Dates, Templates, Substitutions,
              Renderings, LocaleTables, RelativeDates, PythonCode, Borrowed, Rest
<1>3. CASE UNCHANGED drawVars
  BY <1>3 DEF drawVars
<1> QED
  BY <1>1, <1>2, <1>3

LEMMA TableSteps == [DrawNext]_drawVars => [TableNext]_tableVars
<1>1. CASE TablePicks
  BY <1>1 DEF TablePicks
<1>2. CASE DrawNext /\ ~TablePicks
  BY <1>2 DEF DrawNext, Samples, Ints, Texts, Networking, Dates, Templates, Substitutions,
              Renderings, LocaleTables, RelativeDates, PythonCode, Borrowed, Rest
<1>3. CASE UNCHANGED drawVars
  BY <1>3 DEF drawVars
<1> QED
  BY <1>1, <1>2, <1>3

\* The rest of the core reads no template.
LEMMA TokenSteps == [DrawNext]_drawVars => [TokenNext]_tokenVars
<1>1. CASE Templates
  BY <1>1 DEF Templates
<1>2. CASE DrawNext /\ ~Templates
  BY <1>2 DEF DrawNext, Samples, TablePicks, Ints, Texts, Networking, Dates, Substitutions,
              Renderings, LocaleTables, RelativeDates, PythonCode, Borrowed, Rest
<1>3. CASE UNCHANGED drawVars
  BY <1>3 DEF drawVars
<1> QED
  BY <1>1, <1>2, <1>3

\* The rest of the core parses no relative date.
LEMMA SpanSteps == [DrawNext]_drawVars => [SpanNext]_spanVars
<1>1. CASE RelativeDates
  BY <1>1 DEF RelativeDates
<1>2. CASE DrawNext /\ ~RelativeDates
  BY <1>2 DEF DrawNext, Samples, TablePicks, Ints, Texts, Networking, Dates, Templates,
              Substitutions, Renderings, LocaleTables, PythonCode, Borrowed, Rest
<1>3. CASE UNCHANGED drawVars
  BY <1>3 DEF drawVars
<1> QED
  BY <1>1, <1>2, <1>3

\* The rest of the core fills in no text.
LEMMA FillSteps == [DrawNext]_drawVars => [FillNext]_fillVars
<1>1. CASE Substitutions
  BY <1>1 DEF Substitutions
<1>2. CASE DrawNext /\ ~Substitutions
  BY <1>2 DEF DrawNext, Samples, TablePicks, Ints, Texts, Networking, Dates, Templates,
              RelativeDates, Renderings, LocaleTables, PythonCode, Borrowed, Rest
<1>3. CASE UNCHANGED drawVars
  BY <1>3 DEF drawVars
<1> QED
  BY <1>1, <1>2, <1>3

\* The rest of the core renders no template.
LEMMA RenderSteps == [DrawNext]_drawVars => [RenderNext]_renderVars
<1>1. CASE Renderings
  BY <1>1 DEF Renderings
<1>2. CASE DrawNext /\ ~Renderings
  BY <1>2 DEF DrawNext, Samples, TablePicks, Ints, Texts, Networking, Dates, Templates,
              Substitutions, RelativeDates, LocaleTables, PythonCode, Borrowed, Rest
<1>3. CASE UNCHANGED drawVars
  BY <1>3 DEF drawVars
<1> QED
  BY <1>1, <1>2, <1>3

\* The whole core is an implementation of each of its parts: calls of the other
\* kinds are steps in which nothing happens (all of them take &mut self).
THEOREM CompositionTheorem ==
  DrawSpec =>
    /\ SampleSpec /\ TableSpec /\ IntSpec /\ TextInit /\ [][TextNext]_textVars
    /\ NetSpec /\ DateSpec /\ TokenSpec /\ FillSpec /\ RenderSpec /\ DataSpec /\ SpanSpec
    /\ BorrowSpec
<1>1. DrawInit => /\ SampleInit /\ TableInit /\ IntInit /\ TextInit /\ NetInit /\ DateInit
                  /\ TokenInit /\ FillInit /\ RenderInit /\ DataInit /\ SpanInit /\ BorrowInit
  BY DEF DrawInit
<1>2. DrawSpec => SampleSpec /\ IntSpec /\ BorrowSpec
  BY <1>1, SampleSteps, IntSteps, BorrowSteps, PTL DEF DrawSpec, SampleSpec, IntSpec, BorrowSpec
<1>3. DrawSpec => NetSpec /\ DateSpec /\ TextInit /\ [][TextNext]_textVars
  BY <1>1, NetSteps, CalendarSteps, TextSteps, PTL DEF DrawSpec, NetSpec, DateSpec
<1>4. DrawSpec => TableSpec /\ TokenSpec /\ FillSpec
  BY <1>1, TableSteps, TokenSteps, FillSteps, PTL DEF DrawSpec, TableSpec, TokenSpec, FillSpec
<1>5. DrawSpec => RenderSpec /\ DataSpec /\ SpanSpec
  BY <1>1, RenderSteps, DataSteps, SpanSteps, PTL DEF DrawSpec, RenderSpec, DataSpec, SpanSpec
<1> QED
  BY <1>2, <1>3, <1>4, <1>5, PTL

-----------------------------------------------------------------------------
(* What follows for the core                                               *)

\* Whatever else the core is asked meanwhile: picks without replacement are
\* distinct (base.rs:130-205), random_int agrees with Python's randrange
\* (base.rs:14-38), and a call is refused only while another one runs Python
\* code under &mut self (lib.rs).
THEOREM CoreTheorem == DrawSpec => []DistinctPicks /\ []RandrangeAgrees /\ []RefusedOnlyWithin
<1> QED
  BY CompositionTheorem, DistinctPicksTheorem, RandrangeTheorem, RefusedOnlyWithinTheorem, PTL

\* Every eligible address has exactly one draw, and what is returned is eligible
\* (internet.rs:104-174), whatever else the core is asked meanwhile.
THEOREM CoreNetworksTheorem == DrawSpec => []PoolExact /\ []NetworkEligible
<1> QED
  BY CompositionTheorem, PoolTheorem, EligibleTheorem, PTL

\* Names of hosts, addresses and URLs are well formed (internet.rs:200-393),
\* whatever else the core is asked meanwhile.
THEOREM CoreNamesTheorem == DrawSpec => []NamesWellFormed
<1> QED
  BY CompositionTheorem, NamesWellFormedTheorem, PTL

\* Dates of birth give the age that was asked for, "this" periods are not left,
\* and a future is later than now and a past earlier (date_time.rs), whatever
\* else the core is asked meanwhile.
THEOREM CoreDatesTheorem == DrawSpec => []AgeInRange /\ []WithinPeriod /\ []FuturePast
<1> QED
  BY CompositionTheorem, AgeTheorem, PeriodTheorem, FutureTheorem, PTL

-----------------------------------------------------------------------------
(* Gendered tables                                                         *)

DataInv ==
  /\ OwnGender
  /\ compiling # "idle" => provider \in DOMAIN Schema

\* A pick in the table of a field is an item of that field.
LEMMA PickedIn ==
  ASSUME NEW f, NEW t, NEW use, PickIn(f, t, use), compiling' = "picked"
  PROVE  item'[1] = f
<1>1. PICK i : item' = <<f, i>>
  BY DEF PickIn, Panicked, Picked
<1> QED
  BY <1>1

\* prefix_female and its like: what pick_gendered falls back on.
LEMMA AffixFits ==
  ASSUME NEW f \in {Female, Male, Nonbinary}, NEW use, PickAffix(f, use),
         compiling' = "picked", item' # <<>>
  PROVE  /\ Has(f) => item'[1] = f
         /\ ~Has(f) => item'[1] = Combined \/ (f = Nonbinary /\ Has(Male) /\ Has(Female))
<1>1. CASE Has(f)
  <2>1. PickField(f, use)
    BY <1>1 DEF PickAffix, Combined, Female, Male, Nonbinary
  <2> QED
    BY <1>1, <2>1, PickedIn DEF PickField
<1>2. CASE ~Has(f)
  <2>1. PickGendered(use)
    BY <1>2 DEF PickAffix
  <2>2. CASE Has(Combined)
    <3>1. PickField(Combined, use)
      BY <2>1, <2>2 DEF PickGendered
    <3> QED
      BY <1>2, <3>1, PickedIn DEF PickField
  <2>3. CASE ~Has(Combined) /\ Has(Male) /\ Has(Female)
    <3>1. f = Nonbinary
      BY <1>2, <2>3
    <3> QED
      BY <1>2, <2>3, <3>1
  <2>4. CASE ~Has(Combined) /\ ~(Has(Male) /\ Has(Female))
    <3>1. LastResort(use)
      BY <2>1, <2>4, Zenon DEF PickGendered
    <3> QED
      BY <3>1 DEF LastResort, Nothing, Picked
  <2> QED
    BY <2>2, <2>3, <2>4
<1> QED
  BY <1>1, <1>2

LEMMA FormatKeeps ==
  ASSUME DataInv, NEW f \in 1..4, NEW use \in BOOLEAN, Format(f, use)
  PROVE  DataInv'
<1>1. role' = f /\ provider' = provider /\ built' = built
  BY DEF Format
<1>2. \A g \in 1..4 : Has(g)' = Has(g)
  BY <1>1 DEF Has
<1>3. ASSUME compiling' = "picked", item' # <<>>, provider \in {"names", "affixes"}, f # Combined
      PROVE  /\ Has(f) => item'[1] = f
             /\ ~Has(f) => item'[1] = Combined \/ (f = Nonbinary /\ Has(Male) /\ Has(Female))
  <2>1. f \in {Female, Male, Nonbinary}
    BY <1>3 DEF Combined, Female, Male, Nonbinary
  <2>2. CASE provider = "affixes"
    <3>1. PickAffix(f, use)
      BY <2>2 DEF Format
    <3> QED
      BY <1>3, <2>1, <3>1, AffixFits
  <2>3. CASE provider = "names"
    <3>1. PickName(f, use)
      BY <2>3 DEF Format
    <3>2. item'[1] = IF Has(f) THEN f ELSE Combined
      BY <1>3, <3>1, PickedIn DEF PickName, PickField
    <3> QED
      BY <3>2
  <2> QED
    BY <1>1, <1>3, <2>2, <2>3
<1>4. OwnGender'
  BY <1>1, <1>2, <1>3 DEF OwnGender, Combined, Female, Male, Nonbinary
<1>5. provider \in DOMAIN Schema
  BY DEF Format, DataInv
<1> QED
  BY <1>1, <1>4, <1>5 DEF DataInv

LEMMA NextData == DataInv /\ [DataNext]_dataVars => DataInv'
<1> SUFFICES ASSUME DataInv, [DataNext]_dataVars PROVE DataInv'
  OBVIOUS
<1>1. ASSUME NEW p \in DOMAIN Schema, Build(p)
      PROVE  DataInv'
  BY <1>1 DEF Build, DataInv, OwnGender
<1>2. ASSUME NEW a, EmitField(a)
      PROVE  DataInv'
  BY <1>2 DEF EmitField, DataInv, OwnGender
<1>3. CASE Compile
  BY <1>3 DEF Compile, DataInv, OwnGender
<1>4. ASSUME NEW f \in 1..4, NEW use \in BOOLEAN, Format(f, use)
      PROVE  DataInv'
  BY <1>4, FormatKeeps
<1>5. CASE GotItem
  BY <1>5 DEF GotItem, DataInv, OwnGender
<1>6. CASE UNCHANGED dataVars
  BY <1>6 DEF dataVars, DataInv, OwnGender, Has
<1> QED
  BY <1>1, <1>2, <1>3, <1>4, <1>5, <1>6 DEF DataNext

\* A gendered prefix, suffix or name comes from the table of its own gender
\* where there is one, whatever tables a locale has (person.rs).
THEOREM OwnGenderTheorem == DrawSpec => []OwnGender
<1>1. DrawInit => DataInv
  BY DEF DrawInit, DataInit, DataInv, OwnGender
<1>2. DataInv => OwnGender
  BY DEF DataInv
<1> QED
  BY <1>1, <1>2, DataSteps, NextData, PTL DEF DrawSpec

-----------------------------------------------------------------------------
(* Texts                                                                   *)

\* What texts are made of has characters, and a capital letter is one again.
PiecesSound ==
  \A limit \in Limits, L \in WordLists :
    \A body \in Bodies[limit][L] : body.len \in Nat \ {0} /\ body.grow = 0

\* The parts fit as long as there is room for more.
TextInv ==
  /\ writing \in {"idle", "writing", "done", "failed"}
  /\ size \in Nat /\ parts \in Nat /\ first = 0
  /\ parts > 0 => size > 0
  /\ writing = "idle" => size = 0 /\ parts = 0
  /\ writing = "writing" =>
       asked.limit \in Limits /\ asked.words \in WordLists /\ size < asked.limit
  /\ TextFits

LEMMA WriteKeeps ==
  ASSUME PiecesSound, TextInv, WriteText
  PROVE  TextInv'
<1>1. PICK body \in Bodies[asked.limit][asked.words] :
        AddPart(body) \/ Conclude(body) \/ Discard(body)
  BY DEF WriteText
<1>2. /\ writing = "writing" /\ asked.limit \in Limits /\ asked.limit \in Int
      /\ asked.words \in WordLists
      /\ size \in Nat /\ parts \in Nat /\ first = 0 /\ size < asked.limit
  BY TextAssumption DEF WriteText, TextInv
<1>3. body.len \in Nat \ {0} /\ body.grow = 0
  BY <1>1, <1>2 DEF PiecesSound
<1>4. Part(body) \in Nat \ {0}
  BY <1>3 DEF Part, Connector
<1>5. CASE AddPart(body)
  <2>1. /\ size + Part(body) < asked.limit /\ size' = size + Part(body)
        /\ parts' \in Nat /\ first' = 0
        /\ UNCHANGED <<writing, asked, length>>
    BY <1>2, <1>3, <1>5 DEF AddPart
  <2> QED
    BY <2>1, <1>2, <1>4 DEF TextInv, TextFits
<1>6. CASE Conclude(body)
  <2>1. /\ parts > 0 /\ writing' = "done" /\ length' = TextLength(Part(body))
        /\ UNCHANGED <<asked, parts, size, first>>
    BY <1>6 DEF Conclude
  <2>2. size > 0
    BY <2>1 DEF TextInv
  <2>3. TextLength(Part(body)) = size \/ TextLength(Part(body)) = size + 1
    BY <1>2 DEF TextLength, Punctuation
  <2> QED
    BY <2>1, <2>2, <2>3, <1>2 DEF TextInv, TextFits
<1>7. CASE Discard(body)
  <2>1. writing' \in {"failed", "writing"} /\ UNCHANGED <<asked, parts, size, first, length>>
    BY <1>7 DEF Discard
  <2> QED
    BY <2>1, <1>2 DEF TextInv, TextFits
<1> QED
  BY <1>1, <1>5, <1>6, <1>7

LEMMA NextText == PiecesSound /\ TextInv /\ [TextNext]_textVars => TextInv'
<1> SUFFICES ASSUME PiecesSound, TextInv, [TextNext]_textVars PROVE TextInv'
  OBVIOUS
<1>1. ASSUME NEW limit \in Limits, NEW L \in WordLists, AskText(limit, L)
      PROVE  TextInv'
  BY <1>1, TextAssumption DEF AskText, TextInv, TextFits
<1>2. CASE WriteText
  BY <1>2, WriteKeeps
<1>3. CASE GotText
  BY <1>3 DEF GotText, TextInv, TextFits
<1>4. CASE UNCHANGED textVars
  BY <1>4 DEF textVars, TextInv, TextFits
<1> QED
  BY <1>1, <1>2, <1>3, <1>4 DEF TextNext

\* text is never empty nor longer than asked for, whatever the limit and the
\* pieces, where no word gains characters with its capital; where one does, it
\* can be longer (lorem.rs:136-181).
THEOREM TextFitsTheorem == ASSUME PiecesSound PROVE DrawSpec => []TextFits
<1>1. DrawInit => TextInv
  BY DEF DrawInit, TextInit, TextInv, TextFits
<1>2. TextInv => TextFits
  BY DEF TextInv
<1>3. TextInv /\ [DrawNext]_drawVars => TextInv'
  BY TextSteps, NextText
<1> QED
  BY <1>1, <1>2, <1>3, PTL DEF DrawSpec

-----------------------------------------------------------------------------
(* Several tables                                                          *)

\* n items that weigh one each.
LEMMA OnesTotal ==
  ASSUME NEW n \in Nat
  PROVE  SoundWeights(Ones(n), n) /\ TotalWeight(Ones(n)) = n
<1> DEFINE C == Cumulative(Ones(n))
<1>1. SoundWeights(Ones(n), n)
  <2>1. Ones(n) \in [1..n -> Nat]
    BY DEF Ones
  <2> QED
    BY <2>1, FunctionIsSequence DEF SoundWeights
<1>2. /\ C \in [0..n -> Nat] /\ C[0] = 0 /\ \A i \in 1..n : C[i] = C[i - 1] + 1
      /\ TotalWeight(Ones(n)) = C[n]
  BY <1>1, SoundTotals DEF Ones
<1> HIDE DEF C
<1> DEFINE T == {i \in 0..n : C[i] # i}
<1>3. T = {}
  <2> SUFFICES ASSUME T # {} PROVE FALSE
    OBVIOUS
  <2>1. PICK m \in T : \A i \in T : m <= i
    <3> T \in SUBSET Nat
      OBVIOUS
    <3> HIDE DEF T
    <3> QED
      BY LeastNumber
  <2>2. m \in 1..n /\ m - 1 \in 0..n /\ m - 1 \notin T
    BY <1>2, <2>1
  <2> QED
    BY <1>2, <2>1, <2>2
<1>4. C[n] = n
  BY <1>3
<1> QED
  BY <1>1, <1>2, <1>4

LEMMA CompiledWeights ==
  ASSUME NEW t \in Compiled, NEW weighted, weighted => HasWeights(t)
  PROVE  /\ t.n \in Nat /\ SoundWeights(ItemWeights(t, weighted), t.n)
         /\ TotalWeight(ItemWeights(t, weighted)) > 0
         /\ TotalWeight(ItemWeights(t, weighted)) = IF weighted THEN TotalWeight(t.weights) ELSE t.n
<1>1. PICK n \in 1..MaxRows :
        \/ t = [n |-> n, weights |-> <<>>]
        \/ \E w \in [1..n -> 0..MaxShare] : ~BadWeights(w) /\ t = [n |-> n, weights |-> w]
  BY DEF Compiled
<1>2. n \in Nat /\ n > 0 /\ t.n = n
  BY <1>1, TableAssumption
<1>3. CASE weighted
  <2>1. PICK w \in [1..n -> 0..MaxShare] : ~BadWeights(w) /\ t = [n |-> n, weights |-> w]
    BY <1>1, <1>3 DEF HasWeights
  <2>2. Len(w) = n
    BY <1>2, <2>1, FunctionIsSequence
  <2>3. SoundWeights(w, n)
    BY <1>2, <2>1, <2>2, TableAssumption DEF SoundWeights
  <2>4. TotalWeight(w) \in Nat /\ TotalWeight(w) # 0
    BY <1>2, <2>1, <2>2, <2>3, SoundTotals DEF BadWeights
  <2>5. t.weights = w
    BY <2>1
  <2> QED
    BY <1>2, <1>3, <2>3, <2>4, <2>5 DEF ItemWeights
<1>4. CASE ~weighted
  BY <1>2, <1>4, OnesTotal DEF ItemWeights
<1> QED
  BY <1>3, <1>4

\* Item i, of the n that weigh v, lies in part k of those that weigh S: where the
\* draws begin that find it.
From(S, k, v, i) == Cumulative(S)[k - 1] + Cumulative(v)[i - 1]

LEMMA NestedDraws ==
  ASSUME NEW S, NEW m, SoundWeights(S, m), NEW k \in 1..m,
         NEW v, NEW n, SoundWeights(v, n), NEW i \in 1..n, TotalWeight(v) = S[k]
  PROVE  /\ From(S, k, v, i) \in Nat /\ v[i] \in Nat /\ TotalWeight(S) \in Nat
         /\ From(S, k, v, i) + v[i] <= TotalWeight(S)
         /\ \A x \in Nat : x < TotalWeight(S) =>
              (Bisect(Cumulative(S), m, x) = k
                 /\ Bisect(Cumulative(v), n, x - Cumulative(S)[k - 1]) = i
               <=> From(S, k, v, i) <= x /\ x < From(S, k, v, i) + v[i])
<1>1. PICK D : D = Cumulative(S)
  OBVIOUS
<1>2. PICK C : C = Cumulative(v)
  OBVIOUS
<1>3. m \in Nat /\ n \in Nat /\ v[i] \in Nat /\ S[k] \in Nat
  BY DEF SoundWeights
<1>4. /\ D \in [0..m -> Nat] /\ D[k] = D[k - 1] + S[k]
      /\ \A a, b \in 0..m : a <= b => D[a] <= D[b]
      /\ TotalWeight(S) = D[m]
  BY <1>1, SoundTotals
<1>5. /\ C \in [0..n -> Nat] /\ C[i] = C[i - 1] + v[i]
      /\ \A a, b \in 0..n : a <= b => C[a] <= C[b]
      /\ TotalWeight(v) = C[n]
  BY <1>2, SoundTotals
<1>6. /\ D[k] <= D[m] /\ C[i] <= C[n] /\ C[n] = S[k]
      /\ D[k - 1] \in Nat /\ D[m] \in Nat /\ C[i - 1] \in Nat
  BY <1>3, <1>4, <1>5
<1>7. From(S, k, v, i) = D[k - 1] + C[i - 1]
  BY <1>1, <1>2 DEF From
<1>8. ASSUME NEW x \in Nat, x < D[m]
      PROVE  Bisect(D, m, x) = k /\ Bisect(C, n, x - D[k - 1]) = i
               <=> D[k - 1] + C[i - 1] <= x /\ x < D[k - 1] + C[i - 1] + v[i]
  <2>1. Bisect(D, m, x) = k <=> D[k - 1] <= x /\ x < D[k - 1] + S[k]
    BY <1>1, <1>4, <1>8, BisectDraw
  <2>2. ASSUME D[k - 1] <= x, x < D[k - 1] + S[k]
        PROVE  Bisect(C, n, x - D[k - 1]) = i
                 <=> C[i - 1] <= x - D[k - 1] /\ x - D[k - 1] < C[i - 1] + v[i]
    <3>1. PICK y : y = x - D[k - 1]
      OBVIOUS
    <3>2. y \in Nat /\ y < S[k]
      BY <1>3, <1>6, <2>2, <3>1
    <3>3. Bisect(C, n, y) = i <=> C[i - 1] <= y /\ y < C[i - 1] + v[i]
      BY <1>2, <3>2, BisectDraw
    <3> QED
      BY <3>1, <3>3
  <2>3. C[i - 1] + v[i] <= S[k]
    BY <1>5, <1>6
  <2> QED
    BY <1>3, <1>6, <2>1, <2>2, <2>3
<1>9. D[k - 1] + C[i - 1] \in Nat /\ D[k - 1] + C[i - 1] + v[i] <= D[m]
  <2>1. C[i - 1] + v[i] <= S[k] /\ D[k - 1] + S[k] <= D[m]
    BY <1>4, <1>5, <1>6
  <2> QED
    BY <1>3, <1>6, <2>1
<1>10. D[m] \in Nat
  BY <1>6
<1> QED
  <2> SUFFICES /\ D[k - 1] + C[i - 1] \in Nat /\ v[i] \in Nat /\ D[m] \in Nat
               /\ D[k - 1] + C[i - 1] + v[i] <= D[m]
               /\ \A x \in Nat : x < D[m] =>
                    (Bisect(D, m, x) = k /\ Bisect(C, n, x - D[k - 1]) = i
                     <=> D[k - 1] + C[i - 1] <= x /\ x < D[k - 1] + C[i - 1] + v[i])
    BY <1>1, <1>2, <1>4, <1>7, Zenon
  <2> QED
    BY <1>3, <1>8, <1>9, <1>10

\* The draws that give item i of table k are as many as it weighs.
LEMMA DrawsOf ==
  ASSUME NEW m \in Nat, NEW ts \in [1..m -> Compiled], NEW use \in BOOLEAN,
         NEW k \in 1..m, NEW i \in 1..ts[k].n
  PROVE  Cardinality({x \in DrawsFor(ts, use) : Choice(ts, use, x) = <<k, i>>})
           = ItemWeights(ts[k], AllWeighted(ts, use))[i]
<1>1. PICK A : A = AllWeighted(ts, use)
  OBVIOUS
<1>2. PICK S : S = Sizes(ts, use)
  OBVIOUS
<1>3. PICK v : v = ItemWeights(ts[k], A)
  OBVIOUS
<1>4. Len(ts) = m
  BY FunctionIsSequence
<1>5. \A l \in 1..m : A => HasWeights(ts[l])
  BY <1>1, <1>4 DEF AllWeighted
<1>6. ASSUME NEW l \in 1..m
      PROVE  S[l] = TotalWeight(ItemWeights(ts[l], A)) /\ S[l] \in Nat /\ S[l] > 0
  <2>1. S[l] = IF A THEN TotalWeight(ts[l].weights) ELSE ts[l].n
    BY <1>1, <1>2, <1>4 DEF Sizes
  <2>2. /\ TotalWeight(ItemWeights(ts[l], A)) = IF A THEN TotalWeight(ts[l].weights) ELSE ts[l].n
        /\ TotalWeight(ItemWeights(ts[l], A)) > 0
        /\ SoundWeights(ItemWeights(ts[l], A), ts[l].n)
    BY <1>5, CompiledWeights
  <2>3. TotalWeight(ItemWeights(ts[l], A)) \in Nat
    BY <2>2, SoundTotals
  <2> QED
    BY <2>1, <2>2, <2>3
<1>7. SoundWeights(S, m)
  <2>1. DOMAIN S = 1..m /\ S = [l \in 1..m |-> S[l]]
    BY <1>2, <1>4 DEF Sizes
  <2>2. S \in [1..m -> Nat]
    BY <1>6, <2>1
  <2> QED
    BY <1>6, <2>2, FunctionIsSequence DEF SoundWeights
<1>8. SoundWeights(v, ts[k].n) /\ TotalWeight(v) = S[k] /\ Len(v) = ts[k].n
  BY <1>3, <1>5, <1>6, CompiledWeights DEF SoundWeights
<1>9. PICK lo : lo = From(S, k, v, i)
  OBVIOUS
<1>10. /\ lo \in Nat /\ v[i] \in Nat /\ TotalWeight(S) \in Nat
       /\ lo + v[i] <= TotalWeight(S)
       /\ \A x \in Nat : x < TotalWeight(S) =>
            (Bisect(Cumulative(S), m, x) = k
               /\ Bisect(Cumulative(v), ts[k].n, x - Cumulative(S)[k - 1]) = i
             <=> lo <= x /\ x < lo + v[i])
  BY <1>7, <1>8, <1>9, NestedDraws
<1>11. TotalWeight(S) > 0 /\ DrawsFor(ts, use) = 0..(TotalWeight(S) - 1)
  <2>1. TotalWeight(S) > 0
    <3>1. TotalWeight(S) = 0 => S[k] = 0
      BY <1>7, NoWeightLeft
    <3> QED
      BY <1>6, <1>10, <3>1
  <2> QED
    BY <1>2, <2>1 DEF DrawsFor, DrawsUpTo
<1>12. ASSUME NEW x \in Nat, x < TotalWeight(S)
       PROVE  Choice(ts, use, x) = <<k, i>> <=> lo <= x /\ x < lo + v[i]
  <2>1. PICK kk : kk = Bisect(Cumulative(S), m, x)
    OBVIOUS
  <2>2. PICK w : w = ItemWeights(ts[kk], A)
    OBVIOUS
  <2>3. Choice(ts, use, x) = <<kk, Bisect(Cumulative(w), Len(w), x - Cumulative(S)[kk - 1])>>
    BY <1>1, <1>2, <1>4, <2>1, <2>2 DEF Choice
  <2>4. kk = k => w = v
    BY <1>3, <2>2
  <2>5. Choice(ts, use, x) = <<k, i>>
          <=> kk = k /\ Bisect(Cumulative(v), ts[k].n, x - Cumulative(S)[k - 1]) = i
    BY <1>8, <2>3, <2>4
  <2> QED
    BY <1>10, <1>12, <2>1, <2>5
<1>13. {x \in DrawsFor(ts, use) : Choice(ts, use, x) = <<k, i>>} = lo..(lo + v[i] - 1)
  <2>1. PICK n \in Nat : n = TotalWeight(S)
    BY <1>10
  <2>2. DrawsFor(ts, use) = 0..(n - 1)
    BY <1>11, <2>1
  <2>3. \A x \in Nat : x < n => (Choice(ts, use, x) = <<k, i>> <=> lo <= x /\ x < lo + v[i])
    BY <1>12, <2>1
  <2>4. lo \in Nat /\ v[i] \in Nat /\ lo + v[i] <= n
    BY <1>10, <2>1
  <2> QED
    BY <2>2, <2>3, <2>4, SMTT(30)
<1>14. Cardinality(lo..(lo + v[i] - 1)) = v[i]
  <2>1. PICK hi : hi = lo + v[i] - 1
    OBVIOUS
  <2>2. hi \in Int /\ lo \in Int
    BY <1>10, <2>1
  <2>3. Cardinality(lo..hi) = IF lo > hi THEN 0 ELSE hi - lo + 1
    BY <2>2, FS_Interval
  <2>4. (IF lo > hi THEN 0 ELSE hi - lo + 1) = v[i]
    <3>1. lo \in Nat /\ v[i] \in Nat
      BY <1>10
    <3> QED
      BY <2>1, <3>1
  <2> QED
    BY <2>1, <2>3, <2>4
<1> QED
  BY <1>1, <1>3, <1>13, <1>14

\* The tables a call is about have passed build.rs.
TableInv ==
  picking = "asked" =>
    weighting \in BOOLEAN /\ \E m \in Nat : tables \in [1..m -> Compiled]

LEMMA NextTables == TableInv /\ [TableNext]_tableVars => TableInv'
<1> SUFFICES ASSUME TableInv, [TableNext]_tableVars PROVE TableInv'
  OBVIOUS
<1>1. ASSUME NEW m \in 1..MaxTables, NEW ts \in [1..m -> Compiled], NEW use \in BOOLEAN,
             AskTables(ts, use)
      PROVE  TableInv'
  BY <1>1, TableAssumption DEF AskTables, TableInv
<1>2. ASSUME NEW x, Pick(x)
      PROVE  TableInv'
  BY <1>2 DEF Pick, TableInv
<1>3. CASE Rendered
  BY <1>3 DEF Rendered, TableInv
<1>4. CASE UNCHANGED tableVars
  BY <1>4 DEF tableVars, TableInv
<1> QED
  BY <1>1, <1>2, <1>3, <1>4 DEF TableNext

LEMMA ConcatenatedTables == TableInv => AsConcatenated
<1> SUFFICES ASSUME TableInv, picking = "asked",
                    NEW k \in 1..Len(tables), NEW i \in 1..tables[k].n
             PROVE  Cardinality({x \in DrawsFor(tables, weighting) :
                                   Choice(tables, weighting, x) = <<k, i>>})
                      = IF weighting /\ \A l \in 1..Len(tables) : tables[l].weights # <<>>
                          THEN tables[k].weights[i] ELSE 1
  BY DEF AsConcatenated
<1>1. PICK m \in Nat : tables \in [1..m -> Compiled]
  BY DEF TableInv
<1>2. Len(tables) = m /\ k \in 1..m
  BY <1>1, FunctionIsSequence
<1>3. Cardinality({x \in DrawsFor(tables, weighting) : Choice(tables, weighting, x) = <<k, i>>})
        = ItemWeights(tables[k], AllWeighted(tables, weighting))[i]
  BY <1>1, <1>2, DrawsOf DEF TableInv
<1>4. AllWeighted(tables, weighting)
        <=> weighting /\ \A l \in 1..Len(tables) : tables[l].weights # <<>>
  BY DEF AllWeighted, HasWeights, TableInv
<1> QED
  BY <1>3, <1>4 DEF ItemWeights, Ones

\* Items of several tables are picked as from one: each by as many draws as it
\* weighs, for tables of every number, size and weight (data.rs, pick_concat).
THEOREM ConcatenatedTheorem == DrawSpec => []AsConcatenated
<1>1. DrawInit => TableInv
  BY DEF DrawInit, TableInit, TableInv
<1>2. TableInv /\ [DrawNext]_drawVars => TableInv'
  BY TableSteps, NextTables
<1> QED
  BY <1>1, <1>2, ConcatenatedTables, PTL DEF DrawSpec

-----------------------------------------------------------------------------
(* What build.rs lets through                                              *)

CompiledTable == [n : Nat, weights : Seq(Int)]
SoundTable(t) ==
  t \in CompiledTable /\ t.n > 0 /\ (HasWeights(t) => SoundWeights(t.weights, t.n))

\* The providers of tables and groups, whose lists may not be empty.
Checked == {"names", "affixes", "company"}

\* What is built of one field: tables that can be picked from, or plain lists.
SoundField(p, ts) ==
  /\ ts \in Seq(CompiledTable)
  /\ \A g \in 1..Len(ts) : IF p \in Checked THEN SoundTable(ts[g]) ELSE ts[g].weights = <<>>
  /\ p = "internet" => Len(ts) = 1

\* Every table that is there can be picked from, names have a combined one, and
\* assigned HTTP codes have a list.
BuiltInv ==
  /\ PanicsOnlyOnEmpty
  /\ compiling # "idle" => provider \in DOMAIN Schema
  /\ built \in Seq(Seq(CompiledTable))
  /\ \A f \in 1..Len(built) : SoundField(provider, built[f])
  /\ provider = "names" /\ Len(built) > 0 => built[Combined] # <<>>
  /\ compiling = "built" => Len(built) = Len(Schema[provider])
  /\ compiling = "idle" => built = <<>>

\* What a step does to the fields that are built, it does to BuiltInv.
LEMMA Providers == DOMAIN Schema = Checked \cup {"base", "address", "internet", "lorem", "date_time"}
BY DEF Schema, Checked

LEMMA SchemaShape ==
  /\ Len(Schema["names"]) = 4 /\ Len(Schema["affixes"]) = 4 /\ Len(Schema["company"]) = 2
  /\ \A i \in 1..4 : Schema["names"][i].kind = "Table" /\ Schema["affixes"][i].kind = "Table"
  /\ \A i \in 1..2 : Schema["company"][i].kind = "Groups"
  /\ Schema["names"][1].required
  /\ \A p \in DOMAIN Schema \ Checked :
       Len(Schema[p]) = 1 /\ Schema[p][1].kind \in DOMAIN TypeOf
  /\ Schema["internet"][1].kind = "IntList" /\ Schema["internet"][1].required
<1> DEFINE F == {Field("Table", TRUE), Field("Table", FALSE)}
<1>1. ASSUME NEW n \in Nat
      PROVE  /\ Optional(n) \in Seq(F) /\ Len(Optional(n)) = n
             /\ \A i \in 1..n : Optional(n)[i].kind = "Table"
  <2>1. PICK o : o = Field("Table", FALSE)
    OBVIOUS
  <2>2. o.kind = "Table"
    BY <2>1 DEF Field
  <2>3. o \in F /\ Optional(n) = [i \in 1..n |-> o]
    BY <2>1 DEF Optional
  <2> HIDE DEF F
  <2> QED
    BY <2>2, <2>3, FunctionIsSequence
<1>2. PICK e : e = Field("Table", TRUE)
  BY Zenon
<1>3. e \in F /\ e.kind = "Table" /\ e.required
  <2>1. e.kind = "Table" /\ e.required
    BY <1>2 DEF Field
  <2> QED
    BY <1>2, <2>1
<1> HIDE DEF F
<1>4. <<e>> \in Seq(F) /\ Len(<<e>>) = 1 /\ <<e>>[1] = e
  BY <1>3
<1>5. Schema["names"] = <<e>> \o Optional(3) /\ Schema["affixes"] = Optional(4)
  BY <1>2 DEF Schema
<1>6. Schema["company"] = <<Field("Groups", TRUE), Field("Groups", TRUE)>>
  BY DEF Schema
<1>7. Len(Optional(3)) = 3 /\ Optional(3) \in Seq(F)
  BY <1>1
<1>8. Len(Schema["names"]) = 4
  <2> DEFINE one == <<e>>
             three == Optional(3)
  <2>1. Len(one) = 1 /\ Len(three) = 3 /\ one \in Seq(F) /\ three \in Seq(F)
    BY <1>4, <1>7
  <2>2. Schema["names"] = one \o three
    BY <1>5
  <2> HIDE DEF one, three
  <2>3. Len(one \o three) = Len(one) + Len(three)
    BY ONLY <2>1, ConcatProperties
  <2>4. Len(one \o three) = 4
    BY ONLY <2>1, <2>3
  <2> QED
    BY ONLY <2>2, <2>4
<1>9. \A i \in 1..4 : Schema["names"][i] = IF i <= 1 THEN e ELSE Optional(3)[i - 1]
  BY <1>4, <1>5, <1>7, ConcatProperties
<1>10. \A i \in 1..4 : Schema["names"][i].kind = "Table"
  <2> SUFFICES ASSUME NEW i \in 1..4 PROVE Schema["names"][i].kind = "Table"
    OBVIOUS
  <2>1. CASE i = 1
    BY <1>3, <1>9, <2>1
  <2>2. CASE i # 1
    <3>1. i - 1 \in 1..3
      BY <2>2
    <3>2. Optional(3)[i - 1].kind = "Table"
      BY <1>1, <3>1
    <3> QED
      BY <1>9, <2>2, <3>2
  <2> QED
    BY <2>1, <2>2
<1>11. Schema["names"][1].required
  BY <1>3, <1>9
<1>12. Len(Schema["affixes"]) = 4 /\ \A i \in 1..4 : Schema["affixes"][i].kind = "Table"
  BY <1>1, <1>5
<1>13. Len(Schema["company"]) = 2 /\ \A i \in 1..2 : Schema["company"][i].kind = "Groups"
  BY <1>6 DEF Field
<1>14. ASSUME NEW p \in DOMAIN Schema \ Checked
       PROVE  Len(Schema[p]) = 1 /\ Schema[p][1].kind \in DOMAIN TypeOf
  <2>1. CASE p = "base"
    BY <2>1 DEF Schema, Field, TypeOf
  <2>2. CASE p = "address"
    BY <2>2 DEF Schema, Field, TypeOf
  <2>3. CASE p = "internet"
    BY <2>3 DEF Schema, Field, TypeOf
  <2>4. CASE p = "lorem"
    BY <2>4 DEF Schema, Field, TypeOf
  <2>5. CASE p = "date_time"
    BY <2>5 DEF Schema, Field, TypeOf
  <2> QED
    BY <2>1, <2>2, <2>3, <2>4, <2>5, Providers
<1>15. Schema["internet"][1].kind = "IntList" /\ Schema["internet"][1].required
  BY DEF Schema, Field
<1> QED
  BY <1>8, <1>10, <1>11, <1>12, <1>13, <1>14, <1>15

\* What fits is compiled into tables that can be picked from.
LEMMA EmittedSound ==
  ASSUME NEW a \in RawTables \cup RawGroups, NEW kind \in {"Table", "Groups"}, Fits(kind, a),
         kind = "Table" => a \in RawTables
  PROVE  /\ Emitted(a) \in Seq(CompiledTable) /\ Len(Emitted(a)) = Len(a.sizes)
         /\ \A g \in 1..Len(Emitted(a)) : SoundTable(Emitted(a)[g])
<1>1. /\ a.sizes \in Seq(Nat) /\ a.weights \in Seq(Int) /\ Len(a.sizes) \in Nat
      /\ \A i \in 1..Len(a.sizes) : a.sizes[i] \in Nat
      /\ a.type # "weighted" => a.weights = <<>>
      /\ kind = "Table" => Len(a.sizes) = 1
  BY RawAssumption, ElementOfSeq, LenProperties
<1>2. Emitted(a) \in [1..Len(a.sizes) -> CompiledTable]
  BY <1>1 DEF Emitted, CompiledTable
<1>3. Emitted(a) \in Seq(CompiledTable) /\ Len(Emitted(a)) = Len(a.sizes)
  BY <1>1, <1>2, FunctionIsSequence
<1>4. ASSUME NEW g \in 1..Len(a.sizes)
      PROVE  SoundTable(Emitted(a)[g])
  <2>1. Emitted(a)[g] = [n |-> a.sizes[g], weights |-> a.weights]
    BY DEF Emitted
  <2>2. a.sizes[g] > 0
    <3>1. CASE kind = "Table"
      <4>1. a.sizes[1] > 0
        BY <3>1 DEF Fits
      <4> QED
        BY <1>1, <3>1, <4>1
    <3>2. CASE kind = "Groups"
      BY <3>2 DEF Fits
    <3> QED
      BY <3>1, <3>2
  <2>3. a.weights # <<>> => SoundWeights(a.weights, a.sizes[g])
    <3> SUFFICES ASSUME a.weights # <<>> PROVE SoundWeights(a.weights, a.sizes[g])
      OBVIOUS
    <3>1. kind = "Table" /\ Len(a.weights) = a.sizes[1] /\ ~BadWeights(a.weights) /\ g = 1
      <4>1. a.type = "weighted"
        BY <1>1
      <4>2. kind = "Table"
        BY <4>1 DEF Fits
      <4>3. WeightsFit(a)
        BY <4>1, <4>2 DEF Fits
      <4>4. Len(a.sizes) = 1
        BY <1>1, <4>2
      <4> QED
        BY <4>2, <4>3, <4>4 DEF WeightsFit
    <3>2. \A i \in 1..Len(a.weights) : a.weights[i] \in Int
      BY <1>1, ElementOfSeq
    <3> QED
      BY <1>1, <3>1, <3>2 DEF SoundWeights, BadWeights
  <2> QED
    BY <1>1, <2>1, <2>2, <2>3 DEF SoundTable, CompiledTable, HasWeights
<1> QED
  BY <1>3, <1>4

\* A pick from a table that was let through finds an item.
LEMMA PickFinds ==
  ASSUME NEW f, NEW t, NEW use, SoundTable(t), PickIn(f, t, use)
  PROVE  compiling' = "picked"
<1>1. t.n \in Nat /\ t.n > 0
  BY DEF SoundTable, CompiledTable
<1>2. Items(t, use) # {} /\ Items(t, use) \subseteq 1..t.n
  <2>1. CASE use /\ HasWeights(t)
    <3>1. SoundWeights(t.weights, t.n) /\ Len(t.weights) = t.n
      BY <2>1 DEF SoundTable, SoundWeights
    <3>2. TotalWeight(t.weights) \in Nat
      BY <3>1, SoundTotals
    <3>3. 0 \in DrawsUpTo(TotalWeight(t.weights))
      BY <3>2 DEF DrawsUpTo
    <3>4. \A x : Bisect(Cumulative(t.weights), Len(t.weights), x) \in 1..t.n
      BY <1>1, <3>1, BisectIndex
    <3> QED
      BY <2>1, <3>3, <3>4 DEF Items
  <2>2. CASE ~(use /\ HasWeights(t))
    BY <1>1, <2>2 DEF Items
  <2> QED
    BY <2>1, <2>2
<1>3. Items(t, use) \ (1..t.n) = {}
  BY <1>2
<1> QED
  BY <1>2, <1>3 DEF PickIn, Picked

\* So does one from a list without weights that has an item.
LEMMA ListFinds ==
  ASSUME NEW f, NEW t \in CompiledTable, t.weights = <<>>, t.n > 0, NEW use, PickIn(f, t, use)
  PROVE  compiling' = "picked"
<1>1. SoundTable(t)
  BY DEF SoundTable, HasWeights
<1> QED
  BY <1>1, PickFinds

\* The tables of a field of a checked provider.
LEMMA FieldFinds ==
  ASSUME BuiltInv, provider \in Checked, NEW f \in 1..Len(built), Has(f)
  PROVE  /\ SoundTable(built[f][1])
         /\ \A use : PickField(f, use) => compiling' = "picked"
<1>1. built[f] \in Seq(CompiledTable)
  BY ElementOfSeq DEF BuiltInv
<1>2. 1 \in 1..Len(built[f])
  BY <1>1, EmptySeq, LenProperties DEF Has
<1>3. SoundTable(built[f][1])
  BY <1>2 DEF BuiltInv, SoundField
<1> QED
  BY <1>3, PickFinds DEF PickField

\* pick_concat finds an item of the three tables, wherever the draw falls.
LEMMA AnyFinds ==
  ASSUME BuiltInv, provider \in Checked, Len(built) = 4, Has(Male), Has(Female), Has(Nonbinary),
         NEW use, PickAny(use)
  PROVE  compiling' = "picked"
<1> DEFINE owner == <<Male, Female, Nonbinary>>
           ts == [k \in 1..3 |-> built[owner[k]][1]]
<1>1. \A k \in 1..3 : SoundTable(ts[k]) /\ ts[k].n \in Nat /\ ts[k].n > 0
  <2> SUFFICES ASSUME NEW k \in 1..3 PROVE SoundTable(ts[k])
    BY DEF SoundTable, CompiledTable
  <2>1. owner[k] \in 1..Len(built) /\ Has(owner[k])
    BY DEF Male, Female, Nonbinary
  <2> QED
    BY <2>1, FieldFinds
<1>2. Len(ts) = 3
  OBVIOUS
<1>3. ASSUME NEW x
      PROVE  Choice(ts, use, x)[2] \in 1..ts[Choice(ts, use, x)[1]].n
  <2> HIDE DEF ts
  <2>1. PICK k : k = Bisect(Cumulative(Sizes(ts, use)), 3, x)
    OBVIOUS
  <2>2. k \in 1..3
    BY <2>1, BisectIndex
  <2>3. PICK A : A = AllWeighted(ts, use)
    OBVIOUS
  <2>4. PICK w : w = ItemWeights(ts[k], A)
    OBVIOUS
  <2>5. Len(w) = ts[k].n
    <3>1. CASE A
      <4>1. HasWeights(ts[k])
        BY <1>2, <2>2, <2>3, <3>1 DEF AllWeighted
      <4> QED
        BY <1>1, <2>2, <2>4, <3>1, <4>1 DEF SoundTable, SoundWeights, ItemWeights
    <3>2. CASE ~A
      <4>1. w = Ones(ts[k].n)
        BY <2>4, <3>2 DEF ItemWeights
      <4> QED
        BY <1>1, <2>2, <4>1, OnesTotal DEF SoundWeights
    <3> QED
      BY <3>1, <3>2
  <2>6. Choice(ts, use, x)
          = <<k, Bisect(Cumulative(w), Len(w), x - Cumulative(Sizes(ts, use))[k - 1])>>
    BY <1>2, <2>1, <2>3, <2>4 DEF Choice
  <2>7. \A y : Bisect(Cumulative(w), ts[k].n, y) \in 1..ts[k].n
    BY <1>1, <2>2, BisectIndex
  <2> QED
    BY <2>5, <2>6, <2>7
<1>4. \/ Nothing
      \/ \E x \in DrawsFor(ts, use) :
           LET c == Choice(ts, use, x)
           IN IF c[2] \in 1..ts[c[1]].n THEN Picked(<<owner[c[1]], c[2]>>) ELSE Panicked
  BY Zenon DEF PickAny
<1> HIDE DEF ts, owner
<1>5. CASE Nothing
  BY <1>5 DEF Nothing, Picked
<1>6. CASE \E x \in DrawsFor(ts, use) :
             LET c == Choice(ts, use, x)
             IN IF c[2] \in 1..ts[c[1]].n THEN Picked(<<owner[c[1]], c[2]>>) ELSE Panicked
  BY <1>3, <1>6 DEF Picked
<1> QED
  BY <1>4, <1>5, <1>6

LEMMA GenderedFinds ==
  ASSUME BuiltInv, provider \in Checked, Len(built) = 4, NEW use, PickGendered(use)
  PROVE  compiling' = "picked"
<1>1. {Combined, Female, Male, Nonbinary} \subseteq 1..Len(built)
  BY DEF Combined, Female, Male, Nonbinary
<1>2. \A f \in {Combined, Female, Male, Nonbinary} :
        Has(f) /\ PickField(f, use) => compiling' = "picked"
  BY <1>1, FieldFinds
<1>3. LastResort(use) => compiling' = "picked"
  BY DEF LastResort, Nothing, Picked
<1>4. \/ Has(Combined) /\ PickField(Combined, use)
      \/ Has(Male) /\ PickField(Male, use)
      \/ Has(Female) /\ PickField(Female, use)
      \/ Has(Male) /\ Has(Female) /\ Has(Nonbinary) /\ PickAny(use)
      \/ LastResort(use)
  BY DEF PickGendered
<1> QED
  BY <1>2, <1>3, <1>4, AnyFinds

\* A formatter of a checked provider finds an item.
LEMMA CheckedFinds ==
  ASSUME BuiltInv, provider \in Checked, NEW f \in 1..4, NEW use \in BOOLEAN, Format(f, use)
  PROVE  compiling' = "picked"
<1>1. /\ compiling = "built" /\ f \in 1..Len(built) /\ Len(built) = Len(Schema[provider])
  BY LenProperties DEF Format, BuiltInv
<1>2. CASE provider = "affixes"
  <2>1. PickAffix(f, use) /\ Len(built) = 4
    BY <1>1, <1>2, SchemaShape DEF Format
  <2>2. CASE f # Combined /\ Has(f)
    BY <1>1, <2>1, <2>2, FieldFinds DEF PickAffix
  <2>3. CASE ~(f # Combined /\ Has(f))
    <3>1. PickGendered(use)
      BY <2>1, <2>3 DEF PickAffix
    <3> QED
      BY <2>1, <3>1, GenderedFinds
  <2> QED
    BY <2>2, <2>3
<1>3. CASE provider = "names"
  <2>1. PickName(f, use) /\ Combined \in 1..Len(built) /\ Has(Combined)
    BY <1>1, <1>3, SchemaShape DEF Format, BuiltInv, Has, Combined
  <2>2. CASE Has(f)
    BY <1>1, <2>1, <2>2, FieldFinds DEF PickName
  <2>3. CASE ~Has(f)
    BY <2>1, <2>3, FieldFinds DEF PickName
  <2> QED
    BY <2>2, <2>3
<1>4. CASE provider = "company"
  <2>1. PickGroups(f)
    BY <1>4 DEF Format
  <2>2. CASE Nothing
    BY <2>2 DEF Nothing, Picked
  <2>3. ASSUME NEW g \in 1..Len(built[f]), PickIn(f, built[f][g], FALSE)
        PROVE  compiling' = "picked"
    BY <1>1, <2>3, PickFinds DEF BuiltInv, SoundField
  <2> QED
    BY <2>1, <2>2, <2>3 DEF PickGroups
<1> QED
  BY <1>2, <1>3, <1>4 DEF Checked

\* One of plain lists panics at most where the list it indexes is empty.
LEMMA PlainFinds ==
  ASSUME BuiltInv, provider \notin Checked, NEW f \in 1..4, NEW use \in BOOLEAN, Format(f, use),
         compiling' = "panicked"
  PROVE  \/ provider \in {"base", "date_time"} /\ built[f] = <<>>
         \/ provider = "internet" /\ built[f][1].n = 0
<1>1. /\ compiling = "built" /\ f \in 1..Len(built) /\ built[f] \in Seq(CompiledTable)
      /\ provider \in {"base", "address", "internet", "lorem", "date_time"}
  BY LenProperties, ElementOfSeq, Providers DEF Format, BuiltInv
<1>2. ASSUME NEW e \in 1..Len(built[f]), built[f][e].n # 0, PickIn(f, built[f][e], FALSE)
      PROVE  FALSE
  <2>1. built[f][e] \in CompiledTable
    BY <1>1, ElementOfSeq
  <2>2. built[f][e].weights = <<>>
    BY <1>1 DEF BuiltInv, SoundField
  <2>3. built[f][e].n > 0
    BY <1>2, <2>1 DEF CompiledTable
  <2>4. compiling' = "picked"
    BY <1>2, <2>1, <2>2, <2>3, ListFinds
  <2> QED
    BY <2>4
<1>3. ~Nothing /\ ~NotFound /\ \A i : ~Picked(i)
  BY DEF Nothing, NotFound, Picked
<1>4. CASE provider = "internet"
  <2>1. PickIn(f, built[f][1], FALSE)
    BY <1>4 DEF Format, PickField
  <2>2. SoundField(provider, built[f])
    BY <1>1 DEF BuiltInv
  <2>3. Len(built[f]) = 1
    BY <1>4, <2>2 DEF SoundField
  <2>4. 1 \in 1..Len(built[f])
    BY <2>3
  <2>5. built[f][1].n = 0
    BY <1>2, <2>1, <2>4, Zenon
  <2> QED
    BY <1>4, <2>5
<1>5. CASE provider \in {"base", "date_time"}
  <2>1. PickEntry(f)
    BY <1>5 DEF Format
  <2> QED
    BY <1>2, <1>3, <1>5, <2>1 DEF PickEntry
<1>6. CASE provider = "lorem"
  <2>1. PickWord(f)
    BY <1>6 DEF Format
  <2> QED
    BY <1>2, <1>3, <2>1 DEF PickWord
<1>7. CASE provider = "address"
  <2>1. PickRange(f)
    BY <1>7 DEF Format
  <2> QED
    BY <1>3, <2>1 DEF PickRange
<1> QED
  BY <1>1, <1>4, <1>5, <1>6, <1>7

LEMMA PlainEnds ==
  ASSUME BuiltInv, provider \notin Checked, NEW f \in 1..4, NEW use \in BOOLEAN, Format(f, use)
  PROVE  compiling' # "idle"
<1>1. /\ Nothing => compiling' # "idle"
      /\ NotFound => compiling' # "idle"
      /\ Panicked => compiling' # "idle"
      /\ \A i : Picked(i) => compiling' # "idle"
  BY DEF Nothing, NotFound, Panicked, Picked
<1>2. ASSUME NEW t, PickIn(f, t, FALSE)
      PROVE  compiling' # "idle"
  BY <1>1, <1>2 DEF PickIn
<1>3. provider \in {"base", "address", "internet", "lorem", "date_time"}
  BY Providers DEF Format, BuiltInv
<1>4. CASE provider = "internet"
  BY <1>2, <1>4 DEF Format, PickField
<1>5. CASE provider \in {"base", "date_time"}
  <2>1. PickEntry(f)
    BY <1>5 DEF Format
  <2> QED
    BY <1>1, <1>2, <2>1 DEF PickEntry
<1>6. CASE provider = "lorem"
  <2>1. PickWord(f)
    BY <1>6 DEF Format
  <2> QED
    BY <1>1, <1>2, <2>1 DEF PickWord
<1>7. CASE provider = "address"
  <2>1. PickRange(f)
    BY <1>7 DEF Format
  <2> QED
    BY <1>1, <2>1 DEF PickRange
<1> QED
  BY <1>3, <1>4, <1>5, <1>6, <1>7

LEMMA FormatFinds ==
  ASSUME BuiltInv, NEW f \in 1..4, NEW use \in BOOLEAN, Format(f, use)
  PROVE  BuiltInv'
<1>1. /\ compiling = "built" /\ role' = f /\ UNCHANGED <<provider, built>>
  BY DEF Format
<1>2. compiling' = "panicked" =>
        \/ provider \in {"base", "date_time"} /\ built[f] = <<>>
        \/ provider = "internet" /\ built[f][1].n = 0
  BY CheckedFinds, PlainFinds
<1>3. PanicsOnlyOnEmpty'
  BY <1>1, <1>2 DEF PanicsOnlyOnEmpty
<1>4. compiling' # "idle"
  BY CheckedFinds, PlainEnds
<1> QED
  BY <1>1, <1>3, <1>4 DEF BuiltInv

LEMMA EmitKeeps ==
  ASSUME BuiltInv, compiling = "building",
         NEW a \in {MissingAttribute} \cup RawAttributes(provider), EmitField(a)
  PROVE  BuiltInv'
<1>1. /\ provider \in DOMAIN Schema /\ UNCHANGED provider
      /\ built \in Seq(Seq(CompiledTable)) /\ Len(built) \in Nat
      /\ Len(built) + 1 \in 1..Len(Schema[provider])
  <2>1. \A p \in DOMAIN Schema : Len(Schema[p]) \in Nat
    BY SchemaShape DEF Checked
  <2> QED
    BY <2>1, LenProperties DEF EmitField, BuiltInv
<1>2. PICK field : field = Schema[provider][Len(built) + 1]
  OBVIOUS
<1>3. /\ provider = "company" => field.kind = "Groups"
      /\ provider \in {"names", "affixes"} => field.kind = "Table"
      /\ provider = "names" /\ Len(built) = 0 => field.required
      /\ provider \notin Checked => field.kind \in DOMAIN TypeOf
      /\ provider = "internet" => field.kind = "IntList" /\ field.required
  <2>1. CASE provider = "names"
    BY <1>1, <1>2, <2>1, SchemaShape DEF Checked
  <2>2. CASE provider = "affixes"
    BY <1>1, <1>2, <2>2, SchemaShape DEF Checked
  <2>3. CASE provider = "company"
    BY <1>1, <1>2, <2>3, SchemaShape DEF Checked
  <2>4. CASE provider \notin Checked
    <3>1. Len(Schema[provider]) = 1
      BY <1>1, <2>4, SchemaShape
    <3>2. Len(built) + 1 = 1
      BY ONLY <1>1, <3>1
    <3> QED
      BY <1>1, <1>2, <2>4, <3>2, SchemaShape DEF Checked
  <2> QED
    BY <2>1, <2>2, <2>3, <2>4 DEF Checked
<1>4. CASE compiling' = "refused" /\ UNCHANGED built
  BY <1>1, <1>4 DEF BuiltInv, PanicsOnlyOnEmpty
<1>5. CASE /\ ~(IF a = MissingAttribute THEN field.required ELSE ~Fits(field.kind, a))
           /\ built' = Append(built, Emitted(a)) /\ UNCHANGED compiling
  <2>1. SoundField(provider, Emitted(a)) /\ (provider = "names" /\ Len(built) = 0 => Emitted(a) # <<>>)
    <3>1. CASE a = MissingAttribute
      <4>1. Emitted(a) = <<>>
        <5>1. a.sizes = <<>> /\ Len(a.sizes) = 0
          BY <3>1, EmptySeq DEF MissingAttribute
        <5>2. Emitted(a) \in [1..0 -> CompiledTable]
          BY <5>1 DEF Emitted
        <5> QED
          BY <5>2, FunctionIsSequence, EmptySeq
      <4>2. provider # "internet" /\ ~(provider = "names" /\ Len(built) = 0)
        BY <1>3, <1>5, <3>1
      <4> QED
        BY <4>1, <4>2, EmptySeq DEF SoundField
    <3>2. CASE a # MissingAttribute /\ provider \in Checked
      <4>1. /\ a \in RawTables \cup RawGroups /\ Fits(field.kind, a)
            /\ field.kind \in {"Table", "Groups"} /\ (field.kind = "Table" => a \in RawTables)
        BY <1>3, <1>5, <3>2 DEF Checked, RawAttributes
      <4>2. /\ Emitted(a) \in Seq(CompiledTable) /\ Len(Emitted(a)) = Len(a.sizes)
            /\ \A g \in 1..Len(Emitted(a)) : SoundTable(Emitted(a)[g])
        BY <4>1, EmittedSound
      <4>3. field.kind = "Table" => Len(a.sizes) = 1
        BY <4>1, RawAssumption
      <4>4. provider = "names" => Len(Emitted(a)) = 1
        BY <1>3, <4>2, <4>3
      <4>5. Emitted(a) = <<>> => Len(Emitted(a)) = 0
        BY EmptySeq
      <4>6. provider # "internet"
        BY <3>2 DEF Checked
      <4>7. SoundField(provider, Emitted(a))
        BY <3>2, <4>2, <4>6 DEF SoundField
      <4> QED
        BY <4>4, <4>5, <4>7
    <3>3. CASE a # MissingAttribute /\ provider \notin Checked
      <4>1. a \in RawLists /\ Fits(field.kind, a)
        BY <1>3, <1>5, <3>3 DEF Checked, RawAttributes
      <4>2. field.kind \notin {"Table", "Groups"} /\ a.type = TypeOf[field.kind]
        <5>1. field.kind \in {"IntList", "RangeMap", "ListMap", "Countries"}
          BY <1>3, <3>3 DEF TypeOf
        <5> QED
          BY <4>1, <5>1 DEF Fits
      <4>3. a.weights = <<>>
        <5>1. a.type # "weighted"
          BY <1>3, <3>3, <4>2 DEF TypeOf
        <5> QED
          BY <4>1, <5>1, RawAssumption
      <4>4. provider = "internet" => Len(a.sizes) = 1
        <5>1. provider = "internet" => a.type = "int_list"
          BY <1>3, <4>2 DEF TypeOf
        <5> QED
          BY <4>1, <5>1, RawAssumption
      <4>5. a.sizes \in Seq(Nat) /\ Len(a.sizes) \in Nat /\ \A i \in 1..Len(a.sizes) : a.sizes[i] \in Nat
        <5>1. a \in [type : STRING, sizes : Seq(Nat), weights : Seq(Int)]
          BY <4>1, RawAssumption
        <5> QED
          BY <5>1, ElementOfSeq, LenProperties
      <4>6. Emitted(a) \in [1..Len(a.sizes) -> CompiledTable]
        BY <4>3, <4>5, EmptySeq DEF Emitted, CompiledTable
      <4>7. \A g \in 1..Len(a.sizes) : Emitted(a)[g].weights = <<>>
        BY <4>3 DEF Emitted
      <4> QED
        BY <3>3, <4>4, <4>5, <4>6, <4>7, FunctionIsSequence DEF SoundField, Checked
    <3> QED
      BY <3>1, <3>2, <3>3
  <2>2. /\ built' \in Seq(Seq(CompiledTable)) /\ Len(built') = Len(built) + 1
        /\ \A f \in 1..Len(built) : built'[f] = built[f]
        /\ built'[Len(built) + 1] = Emitted(a)
    BY <1>1, <1>5, <2>1, AppendProperties DEF SoundField
  <2>3. ASSUME NEW f \in 1..Len(built')
        PROVE  SoundField(provider, built'[f])
    <3>1. CASE f \in 1..Len(built)
      BY <2>2, <3>1 DEF BuiltInv
    <3>2. CASE f = Len(built) + 1
      BY <2>1, <2>2, <3>2
    <3> QED
      BY <1>1, <2>2, <3>1, <3>2
  <2>4. provider = "names" => built'[Combined] # <<>>
    <3>1. CASE Len(built) = 0
      BY <2>1, <2>2, <3>1 DEF Combined
    <3>2. CASE Len(built) > 0
      <4>1. 1 \in 1..Len(built)
        BY <1>1, <3>2
      <4>2. built'[1] = built[1]
        BY <2>2, <4>1
      <4>3. provider = "names" => built[1] # <<>>
        BY <3>2 DEF BuiltInv, Combined
      <4> QED
        BY <4>2, <4>3 DEF Combined
    <3> QED
      BY <1>1, <3>1, <3>2
  <2>5. PanicsOnlyOnEmpty'
    BY <1>5 DEF PanicsOnlyOnEmpty
  <2> QED
    BY <1>1, <1>5, <2>2, <2>3, <2>4, <2>5 DEF BuiltInv
<1> QED
  BY <1>2, <1>4, <1>5 DEF EmitField

\* No call under way: nothing is built.
LEMMA EmptyBuilt ==
  /\ compiling = "idle" /\ built = <<>> => BuiltInv
  /\ compiling' = "idle" /\ built' = <<>> => BuiltInv'
<1>1. <<>> \in Seq(Seq(CompiledTable)) /\ Len(<<>>) = 0
  BY EmptySeq
<1>2. ASSUME compiling = "idle", built = <<>>
      PROVE  BuiltInv
  <2>1. built \in Seq(Seq(CompiledTable)) /\ Len(built) = 0
    BY <1>1, <1>2
  <2>2. \A f \in 1..Len(built) : SoundField(provider, built[f])
    BY <2>1
  <2> QED
    BY <1>2, <2>1, <2>2 DEF BuiltInv, PanicsOnlyOnEmpty
<1>3. ASSUME compiling' = "idle", built' = <<>>
      PROVE  BuiltInv'
  <2>1. built' \in Seq(Seq(CompiledTable)) /\ Len(built') = 0
    BY <1>1, <1>3
  <2>2. \A f \in 1..Len(built') : SoundField(provider', built'[f])
    BY <2>1
  <2> QED
    BY <1>3, <2>1, <2>2 DEF BuiltInv, PanicsOnlyOnEmpty
<1> QED
  BY <1>2, <1>3

LEMMA NextBuilt == BuiltInv /\ [DataNext]_dataVars => BuiltInv'
<1> SUFFICES ASSUME BuiltInv, [DataNext]_dataVars PROVE BuiltInv'
  OBVIOUS
<1>1. ASSUME NEW p \in DOMAIN Schema, compiling = "idle", Build(p)
      PROVE  BuiltInv'
  <2>1. built' = <<>> /\ provider' \in DOMAIN Schema /\ compiling' = "building"
    BY <1>1 DEF Build, BuiltInv
  <2>2. built' \in Seq(Seq(CompiledTable)) /\ Len(built') = 0
    BY <2>1, EmptySeq
  <2>3. \A f \in 1..Len(built') : SoundField(provider', built'[f])
    BY <2>2
  <2> QED
    BY <2>1, <2>2, <2>3 DEF BuiltInv, PanicsOnlyOnEmpty
<1>2. ASSUME NEW a \in {MissingAttribute} \cup RawAttributes(provider), EmitField(a)
      PROVE  BuiltInv'
  BY <1>2, EmitKeeps DEF EmitField
<1>3. CASE Compile
  BY <1>3 DEF Compile, BuiltInv, PanicsOnlyOnEmpty
<1>4. ASSUME NEW f \in 1..4, NEW use \in BOOLEAN, Format(f, use)
      PROVE  BuiltInv'
  BY <1>4, FormatFinds
<1>5. CASE GotItem
  BY <1>5, EmptyBuilt DEF GotItem
<1>6. CASE UNCHANGED dataVars
  BY <1>6 DEF dataVars, BuiltInv, PanicsOnlyOnEmpty
<1> QED
  BY <1>1, <1>2, <1>3, <1>4, <1>5, <1>6 DEF DataNext

\* Nothing that build.rs lets through makes a formatter index outside a table or
\* a list, except an empty list of languages, of assigned HTTP codes or of
\* countries, whatever the attributes hold (build.rs, emit_value; data.rs, pick;
\* internet.rs:373, base.rs:346-352, date_time.rs:545).
THEOREM NeverPanicTheorem == DrawSpec => []PanicsOnlyOnEmpty
<1>1. DrawInit => BuiltInv
  BY EmptyBuilt DEF DrawInit, DataInit
<1>2. BuiltInv => PanicsOnlyOnEmpty
  BY DEF BuiltInv
<1> QED
  BY <1>1, <1>2, DataSteps, NextBuilt, PTL DEF DrawSpec

-----------------------------------------------------------------------------
(* "{{ token }}" texts, for any texts                                       *)

\* From i on there is a first place that does not hold c.
LEMMA PastIs ==
  ASSUME NEW s, Len(s) \in Nat, NEW i \in 1..(Len(s) + 1), NEW c
  PROVE  /\ Past(s, i, c) \in i..(Len(s) + 1)
         /\ ~IsAt(s, Past(s, i, c), c)
         /\ \A k \in i..(Past(s, i, c) - 1) : s[k] = c
<1> DEFINE T == {j \in i..(Len(s) + 1) : ~IsAt(s, j, c)}
<1>1. T \in SUBSET Nat /\ Len(s) + 1 \in T
  BY DEF IsAt
<1>2. PICK j \in T : \A k \in T : j <= k
  <2> HIDE DEF T
  <2> QED
    BY <1>1, LeastNumber
<1>3. j \in i..(Len(s) + 1) /\ ~IsAt(s, j, c) /\ \A k \in i..(j - 1) : s[k] = c
  BY <1>1, <1>2 DEF IsAt
<1> QED
  BY <1>3 DEF Past

\* Nor is there a second one.
LEMMA PastUnique ==
  ASSUME NEW s, Len(s) \in Nat, NEW i \in 1..(Len(s) + 1), NEW c,
         NEW j \in i..(Len(s) + 1), ~IsAt(s, j, c), All(s, i, j, c)
  PROVE  Past(s, i, c) = j
<1> DEFINE p == Past(s, i, c)
<1>1. p \in i..(Len(s) + 1) /\ ~IsAt(s, p, c) /\ \A k \in i..(p - 1) : s[k] = c
  BY PastIs
<1> HIDE DEF p
<1>2. ~(p < j)
  BY <1>1 DEF All
<1>3. ~(j < p)
  BY <1>1 DEF IsAt
<1> QED
  BY <1>1, <1>2, <1>3 DEF p

\* What Past skips is all the same.
LEMMA PastAll ==
  ASSUME NEW s, Len(s) \in Nat, NEW i \in 1..(Len(s) + 1), NEW c
  PROVE  All(s, i, Past(s, i, c), c)
BY PastIs DEF All, IsAt

\* The parts of a token that is not grouped are where match_token finds them.
LEMMA PlainParts ==
  ASSUME NEW s, Len(s) \in Nat, NEW i \in Nat \ {0}, NEW j \in Nat, NEW a \in Nat, NEW b \in Nat,
         ReToken(s, i, j, a, b, "plain")
  PROVE  /\ i + 2 \in 1..(Len(s) + 1) /\ a = Past(s, i + 2, "blank")
         /\ a \in 1..(Len(s) + 1) /\ b = Past(s, a, "word")
         /\ b \in 1..(Len(s) + 1) /\ j - 2 = Past(s, b, "blank")
         /\ a < b /\ b <= j - 2 /\ ~IsAt(s, b, "colon") /\ Pair(s, j - 2, "close")
<1>1. /\ Pair(s, i, "open") /\ i + 2 <= a /\ a < b /\ Pair(s, j - 2, "close") /\ b <= j - 2
      /\ All(s, i + 2, a, "blank") /\ All(s, a, b, "word") /\ All(s, b, j - 2, "blank")
  BY DEF ReToken
<1>2. j - 2 <= Len(s) - 1 /\ s[j - 2] = "close"
  BY <1>1 DEF Pair, IsAt
<1>3. IsAt(s, a, "word")
  BY <1>1 DEF All
<1>4. IsAt(s, b, "blank") \/ IsAt(s, b, "close")
  <2>1. CASE b = j - 2
    BY <1>1, <2>1 DEF Pair
  <2>2. CASE b # j - 2
    BY <1>1, <2>2 DEF All
  <2> QED
    BY <2>1, <2>2
<1>5. /\ ~IsAt(s, a, "blank") /\ ~IsAt(s, b, "word")
      /\ ~IsAt(s, b, "colon") /\ ~IsAt(s, j - 2, "blank")
  BY <1>2, <1>3, <1>4 DEF IsAt
<1>6. /\ i + 2 \in 1..(Len(s) + 1) /\ a \in (i + 2)..(Len(s) + 1)
      /\ b \in a..(Len(s) + 1) /\ j - 2 \in b..(Len(s) + 1)
      /\ a \in 1..(Len(s) + 1) /\ b \in 1..(Len(s) + 1)
  BY <1>1, <1>2
<1> QED
  BY <1>1, <1>5, <1>6, PastUnique

\* Those of one that is grouped are where parse_token finds them.
LEMMA GroupedParts ==
  ASSUME NEW s, Len(s) \in Nat, NEW i \in Nat \ {0}, NEW j \in Nat, NEW a \in Nat, NEW b \in Nat,
         ReToken(s, i, j, a, b, "grouped")
  PROVE  /\ i + 2 \in 1..(Len(s) + 1) /\ a = Past(s, i + 2, "blank")
         /\ a \in 1..(Len(s) + 1) /\ b = Past(s, a, "word")
         /\ a < b /\ b < j - 2 /\ IsAt(s, b, "colon") /\ Pair(s, j - 2, "close")
         /\ \E g, h \in Nat :
              /\ b + 1 \in 1..(Len(s) + 1) /\ g = Past(s, b + 1, "blank")
              /\ g \in 1..(Len(s) + 1) /\ h = Past(s, g, "word") /\ b < g /\ g < h
              /\ h \in 1..(Len(s) + 1) /\ j - 2 = Past(s, h, "blank") /\ h <= j - 2
<1>1. /\ Pair(s, i, "open") /\ i + 2 <= a /\ a < b /\ Pair(s, j - 2, "close") /\ IsAt(s, b, "colon")
      /\ All(s, i + 2, a, "blank") /\ All(s, a, b, "word")
  BY DEF ReToken
<1>2. PICK g \in (b + 1)..(j - 3), h \in (b + 2)..(j - 2) :
        g < h /\ All(s, b + 1, g, "blank") /\ All(s, g, h, "word") /\ All(s, h, j - 2, "blank")
  BY DEF ReToken
<1>3. j - 2 <= Len(s) - 1 /\ s[j - 2] = "close"
  BY <1>1 DEF Pair, IsAt
<1>4. IsAt(s, a, "word") /\ IsAt(s, g, "word")
  BY <1>1, <1>2 DEF All
<1>5. IsAt(s, h, "blank") \/ IsAt(s, h, "close")
  <2>1. CASE h = j - 2
    BY <1>1, <2>1 DEF Pair
  <2>2. CASE h # j - 2
    BY <1>2, <2>2 DEF All
  <2> QED
    BY <2>1, <2>2
<1>6. /\ ~IsAt(s, a, "blank") /\ ~IsAt(s, b, "word") /\ ~IsAt(s, g, "blank") /\ ~IsAt(s, h, "word")
      /\ ~IsAt(s, j - 2, "blank")
  BY <1>1, <1>3, <1>4, <1>5 DEF IsAt
<1>7. /\ i + 2 \in 1..(Len(s) + 1) /\ a \in (i + 2)..(Len(s) + 1) /\ b \in a..(Len(s) + 1)
      /\ a \in 1..(Len(s) + 1) /\ b + 1 \in 1..(Len(s) + 1) /\ g \in (b + 1)..(Len(s) + 1)
      /\ g \in 1..(Len(s) + 1) /\ h \in g..(Len(s) + 1) /\ h \in 1..(Len(s) + 1)
      /\ j - 2 \in h..(Len(s) + 1) /\ g \in Nat /\ h \in Nat
  BY <1>1, <1>2, <1>3
<1>8. a = Past(s, i + 2, "blank") /\ b = Past(s, a, "word")
  BY <1>1, <1>6, <1>7, PastUnique
<1>9. g = Past(s, b + 1, "blank") /\ h = Past(s, g, "word") /\ j - 2 = Past(s, h, "blank")
  BY <1>2, <1>6, <1>7, PastUnique
<1>10. b < j - 2 /\ b < g /\ g < h /\ h <= j - 2
  BY <1>2
<1> QED
  BY <1>1, <1>7, <1>8, <1>9, <1>10

\* What the regular expression finds.
Found(s, i, j, a, b, g) == [from |-> i, to |-> j, name |-> SubSeq(s, a, b - 1), form |-> g]

\* Its members, place by place.
LEMMA ReTokensAre ==
  ASSUME NEW s, Len(s) \in Nat, NEW forms \in SUBSET {"plain", "grouped"}, NEW m
  PROVE  m \in ReTokens(s, forms) <=>
           \E i \in Nat \ {0}, j \in Nat, a \in Nat, b \in Nat, g \in forms :
             ReToken(s, i, j, a, b, g) /\ m = Found(s, i, j, a, b, g)
<1> DEFINE I == {i \in 1..Len(s) : Pair(s, i, "open")}
           J == {j \in 3..(Len(s) + 1) : Pair(s, j - 2, "close")}
           A == {a \in 2..Len(s) : s[a] = "word"}
           B == {b \in 2..Len(s) : s[b - 1] = "word"}
           T == {t \in I \X J \X A \X B \X forms : ReToken(s, t[1], t[2], t[3], t[4], t[5])}
<1>1. ASSUME NEW i \in Nat \ {0}, NEW j \in Nat, NEW a \in Nat, NEW b \in Nat, NEW g \in forms,
             ReToken(s, i, j, a, b, g)
      PROVE  i \in I /\ j \in J /\ a \in A /\ b \in B
  <2>1. /\ i + 2 \in 1..(Len(s) + 1) /\ i + 2 <= a /\ a < b /\ b <= j - 2 /\ Pair(s, j - 2, "close")
        /\ Pair(s, i, "open") /\ All(s, a, b, "word")
    <3>1. CASE g = "grouped"
      BY <1>1, <3>1, GroupedParts DEF ReToken
    <3>2. CASE g = "plain"
      BY <1>1, <3>2, PlainParts DEF ReToken
    <3> QED
      BY <3>1, <3>2
  <2>2. j - 2 <= Len(s) - 1
    BY <2>1 DEF Pair, IsAt
  <2>3. IsAt(s, a, "word") /\ IsAt(s, b - 1, "word")
    BY <2>1 DEF All
  <2> QED
    BY <2>1, <2>2, <2>3 DEF IsAt
<1>2. m \in ReTokens(s, forms) <=> \E t \in T : m = Found(s, t[1], t[2], t[3], t[4], t[5])
  BY DEF ReTokens, Found
<1>3. ASSUME NEW t \in T
      PROVE  /\ t[1] \in Nat \ {0} /\ t[2] \in Nat /\ t[3] \in Nat /\ t[4] \in Nat /\ t[5] \in forms
             /\ ReToken(s, t[1], t[2], t[3], t[4], t[5])
  BY <1>3
<1>4. ASSUME NEW i \in Nat \ {0}, NEW j \in Nat, NEW a \in Nat, NEW b \in Nat, NEW g \in forms,
             ReToken(s, i, j, a, b, g), m = Found(s, i, j, a, b, g)
      PROVE  \E t \in T : m = Found(s, t[1], t[2], t[3], t[4], t[5])
  <2> DEFINE t == <<i, j, a, b, g>>
  <2>1. i \in I /\ j \in J /\ a \in A /\ b \in B
    BY <1>1, <1>4
  <2> HIDE DEF I, J, A, B
  <2>2. t \in I \X J \X A \X B \X forms
    BY <2>1
  <2>3. t[1] = i /\ t[2] = j /\ t[3] = a /\ t[4] = b /\ t[5] = g
    OBVIOUS
  <2> HIDE DEF t
  <2>4. t \in T /\ m = Found(s, t[1], t[2], t[3], t[4], t[5])
    BY <1>4, <2>2, <2>3
  <2> QED
    BY <2>4
<1> HIDE DEF T
<1> QED
  BY <1>2, <1>3, <1>4

\* The same for tokens without a group,
LEMMA PlainTokensAre ==
  ASSUME NEW s, Len(s) \in Nat, NEW m
  PROVE  m \in ReTokens(s, {"plain"}) <=>
           \E i \in Nat \ {0}, j \in Nat, a \in Nat, b \in Nat :
             ReToken(s, i, j, a, b, "plain") /\ m = Found(s, i, j, a, b, "plain")
<1> DEFINE forms == {"plain"}
<1>1. forms \in SUBSET {"plain", "grouped"} /\ \A g : g \in forms <=> g = "plain"
  OBVIOUS
<1> HIDE DEF forms
<1>2. m \in ReTokens(s, forms) <=>
        \E i \in Nat \ {0}, j \in Nat, a \in Nat, b \in Nat, g \in forms :
          ReToken(s, i, j, a, b, g) /\ m = Found(s, i, j, a, b, g)
  BY <1>1, ReTokensAre
<1>3. m \in ReTokens(s, forms) <=>
        \E i \in Nat \ {0}, j \in Nat, a \in Nat, b \in Nat :
          ReToken(s, i, j, a, b, "plain") /\ m = Found(s, i, j, a, b, "plain")
  BY <1>1, <1>2
<1> QED
  BY <1>3 DEF forms

\* and for all.
LEMMA AllTokensAre ==
  ASSUME NEW s, Len(s) \in Nat, NEW m
  PROVE  m \in ReTokens(s, {"plain", "grouped"}) <=>
           \E i \in Nat \ {0}, j \in Nat, a \in Nat, b \in Nat :
             \/ ReToken(s, i, j, a, b, "plain") /\ m = Found(s, i, j, a, b, "plain")
             \/ ReToken(s, i, j, a, b, "grouped") /\ m = Found(s, i, j, a, b, "grouped")
<1>1. m \in ReTokens(s, {"plain", "grouped"}) <=>
        \E i \in Nat \ {0}, j \in Nat, a \in Nat, b \in Nat, g \in {"plain", "grouped"} :
          ReToken(s, i, j, a, b, g) /\ m = Found(s, i, j, a, b, g)
  BY ReTokensAre
<1> QED
  BY <1>1

\* What a scanner finds behind two braces.
Scanned(f) == [name |-> f.name, form |-> f.form, next |-> f.to]

\* An opening leaves room for what follows it.
LEMMA OpeningRange ==
  ASSUME NEW s, Len(s) \in Nat, NEW i \in Nat \ {0}, Pair(s, i, "open")
  PROVE  i + 2 \in 1..(Len(s) + 1) /\ i \in 1..Len(s) /\ i + 1 \in 1..Len(s)
BY DEF Pair, IsAt

\* match_token finds what the regular expression finds there without a group.
LEMMA MatchTokenIs ==
  ASSUME NEW s, Len(s) \in Nat, NEW i \in Nat \ {0}, Pair(s, i, "open")
  PROVE  MatchToken(s, i + 2) = {Scanned(f) : f \in {m \in ReTokens(s, {"plain"}) : m.from = i}}
<1> DEFINE n == Past(s, i + 2, "blank")
           e == Past(s, n, "word")
           c == Past(s, e, "blank")
           r == [name |-> SubSeq(s, n, e - 1), form |-> "plain", next |-> c + 2]
<1>1. \A m : m \in MatchToken(s, i + 2) <=> e > n /\ Pair(s, c, "close") /\ m = r
  BY DEF MatchToken
<1>2. /\ n \in (i + 2)..(Len(s) + 1) /\ n \in 1..(Len(s) + 1) /\ All(s, i + 2, n, "blank")
  BY OpeningRange, PastIs, PastAll
<1>3. e \in n..(Len(s) + 1) /\ e \in 1..(Len(s) + 1) /\ All(s, n, e, "word")
  <2> HIDE DEF n
  <2> QED
    BY <1>2, PastIs, PastAll
<1>4. c \in e..(Len(s) + 1) /\ c \in 1..(Len(s) + 1) /\ All(s, e, c, "blank")
  <2> HIDE DEF e
  <2> QED
    BY <1>3, PastIs, PastAll
<1>5. ASSUME e > n, Pair(s, c, "close")
      PROVE  \E f \in ReTokens(s, {"plain"}) : f.from = i /\ r = Scanned(f)
  <2> HIDE DEF n, e, c
  <2> DEFINE j == c + 2
             f == Found(s, i, j, n, e, "plain")
  <2>1. j \in Nat /\ j - 2 = c /\ n \in Nat /\ e \in Nat
    BY <1>2, <1>3, <1>4
  <2>2. ReToken(s, i, j, n, e, "plain")
    <3> HIDE DEF j
    <3> QED
      BY <1>2, <1>3, <1>4, <1>5, <2>1 DEF ReToken
  <2>3. f \in ReTokens(s, {"plain"})
    <3> HIDE DEF j
    <3> QED
      BY <2>1, <2>2, PlainTokensAre
  <2>4. f.from = i /\ r = Scanned(f)
    BY DEF Found, Scanned
  <2> QED
    BY <2>3, <2>4
<1>6. ASSUME NEW f \in ReTokens(s, {"plain"}), f.from = i
      PROVE  e > n /\ Pair(s, c, "close") /\ Scanned(f) = r
  <2>1. PICK k \in Nat \ {0}, j \in Nat, a \in Nat, b \in Nat :
          ReToken(s, k, j, a, b, "plain") /\ f = Found(s, k, j, a, b, "plain")
    BY PlainTokensAre, <1>6
  <2>2. k = i
    BY <1>6, <2>1 DEF Found
  <2>3. /\ a = n /\ b = Past(s, a, "word") /\ j - 2 = Past(s, b, "blank")
        /\ a < b /\ Pair(s, j - 2, "close")
    <3>1. ReToken(s, i, j, a, b, "plain")
      BY <2>1, <2>2, Zenon
    <3>2. a = Past(s, i + 2, "blank")
      BY <3>1, PlainParts, Zenon
    <3>3. b = Past(s, a, "word")
      BY <3>1, PlainParts, Zenon
    <3>4. j - 2 = Past(s, b, "blank")
      <4> HIDE DEF n, e, c
      <4> QED
        BY <3>1, PlainParts, SMTT(20)
    <3>5. a < b
      BY <3>1, PlainParts, Zenon
    <3>6. Pair(s, j - 2, "close")
      BY <3>1, PlainParts, Zenon
    <3> QED
      BY <3>2, <3>3, <3>4, <3>5, <3>6
  <2>4. a = n /\ b = e /\ j - 2 = c
    BY <2>3
  <2> HIDE DEF n, e, c
  <2>5. j = c + 2
    BY <2>4
  <2> QED
    BY <2>1, <2>2, <2>3, <2>4, <2>5 DEF Found, Scanned
<1> HIDE DEF n, e, c, r
<1> QED
  BY <1>1, <1>5, <1>6

\* parse_token finds what it finds there, with a group or without.
LEMMA ParseTokenIs ==
  ASSUME NEW s, Len(s) \in Nat, NEW i \in Nat \ {0}, Pair(s, i, "open")
  PROVE  ParseToken(s, i + 2) =
           {Scanned(f) : f \in {m \in ReTokens(s, {"plain", "grouped"}) : m.from = i}}
<1> DEFINE n == Past(s, i + 2, "blank")
           e == Past(s, n, "word")
           grouped == IsAt(s, e, "colon")
           g == IF grouped THEN Past(s, e + 1, "blank") ELSE e
           w == Past(s, g, "word")
           c == Past(s, w, "blank")
           r == [name |-> SubSeq(s, n, e - 1),
                 form |-> IF grouped THEN "grouped" ELSE "plain", next |-> c + 2]
           closed == e > n /\ (grouped => w > g) /\ Pair(s, c, "close")
<1>1. \A m : m \in ParseToken(s, i + 2) <=> closed /\ m = r
  BY DEF ParseToken
<1>2. /\ n \in (i + 2)..(Len(s) + 1) /\ n \in 1..(Len(s) + 1) /\ All(s, i + 2, n, "blank")
  BY OpeningRange, PastIs, PastAll
<1>3. /\ e \in n..(Len(s) + 1) /\ e \in 1..(Len(s) + 1) /\ All(s, n, e, "word")
      /\ ~IsAt(s, e, "word")
  <2> HIDE DEF n
  <2> QED
    BY <1>2, PastIs, PastAll
<1>4. /\ g \in e..(Len(s) + 1) /\ g \in 1..(Len(s) + 1)
      /\ grouped => g \in (e + 1)..(Len(s) + 1) /\ All(s, e + 1, g, "blank")
  <2> HIDE DEF e
  <2>1. CASE grouped
    <3>1. e + 1 \in 1..(Len(s) + 1)
      BY <1>3, <2>1 DEF IsAt
    <3>2. /\ Past(s, e + 1, "blank") \in (e + 1)..(Len(s) + 1)
          /\ All(s, e + 1, Past(s, e + 1, "blank"), "blank")
      BY <3>1, PastIs, PastAll
    <3> QED
      BY <1>3, <2>1, <3>2
  <2>2. CASE ~grouped
    BY <1>3, <2>2
  <2> QED
    BY <2>1, <2>2
<1>5. w \in g..(Len(s) + 1) /\ w \in 1..(Len(s) + 1) /\ All(s, g, w, "word")
  <2> HIDE DEF g
  <2> QED
    BY <1>4, PastIs, PastAll
<1>6. ~grouped => g = e /\ w = e
  <2> SUFFICES ASSUME ~grouped PROVE w = e
    OBVIOUS
  <2>1. All(s, e, e, "word") /\ e \in e..(Len(s) + 1)
    BY <1>3 DEF All
  <2> HIDE DEF e
  <2> QED
    BY <1>3, <2>1, PastUnique
<1>7. c \in w..(Len(s) + 1) /\ c \in 1..(Len(s) + 1) /\ All(s, w, c, "blank")
  <2> HIDE DEF w
  <2> QED
    BY <1>5, PastIs, PastAll
<1>8. ASSUME closed
      PROVE  \E f \in ReTokens(s, {"plain", "grouped"}) : f.from = i /\ r = Scanned(f)
  <2> DEFINE j == c + 2
             form == IF grouped THEN "grouped" ELSE "plain"
             f == Found(s, i, j, n, e, form)
  <2> HIDE DEF n, e, g, w, c
  <2>1. /\ j \in Nat /\ j - 2 = c /\ j - 3 = c - 1 /\ n \in Nat /\ e \in Nat
        /\ form \in {"plain", "grouped"}
    BY <1>2, <1>3, <1>7
  <2>2. ReToken(s, i, j, n, e, form)
    <3> HIDE DEF j
    <3>1. CASE grouped
      <4>1. g \in (e + 1)..(j - 3) /\ w \in (e + 2)..(j - 2) /\ g < w
        BY <1>4, <1>5, <1>7, <1>8, <2>1, <3>1
      <4> QED
        BY <1>2, <1>3, <1>4, <1>5, <1>7, <1>8, <2>1, <3>1, <4>1 DEF ReToken
    <3>2. CASE ~grouped
      BY <1>2, <1>3, <1>6, <1>7, <1>8, <2>1, <3>2 DEF ReToken
    <3> QED
      BY <3>1, <3>2
  <2>3. f \in ReTokens(s, {"plain", "grouped"})
    <3> HIDE DEF j, form
    <3> QED
      BY <2>1, <2>2, ReTokensAre
  <2>4. f.from = i /\ r = Scanned(f)
    BY DEF Found, Scanned
  <2> QED
    BY <2>3, <2>4
<1>9. ASSUME NEW f \in ReTokens(s, {"plain", "grouped"}), f.from = i
      PROVE  closed /\ Scanned(f) = r
  <2>1. PICK k \in Nat \ {0}, j \in Nat, a \in Nat, b \in Nat :
          \/ ReToken(s, k, j, a, b, "plain") /\ f = Found(s, k, j, a, b, "plain")
          \/ ReToken(s, k, j, a, b, "grouped") /\ f = Found(s, k, j, a, b, "grouped")
    BY AllTokensAre, <1>9
  <2>2. k = i
    BY <1>9, <2>1 DEF Found
  <2>3. CASE ReToken(s, k, j, a, b, "plain") /\ f = Found(s, k, j, a, b, "plain")
    <3>1. /\ a = Past(s, i + 2, "blank") /\ b = Past(s, a, "word") /\ j - 2 = Past(s, b, "blank")
          /\ a < b /\ Pair(s, j - 2, "close") /\ ~IsAt(s, b, "colon")
      BY <2>2, <2>3, PlainParts
    <3>2. a = n /\ b = e /\ ~grouped
      BY <3>1
    <3>3. j - 2 = c
      BY <1>6, <3>1, <3>2
    <3> HIDE DEF n, e, g, w, c
    <3>4. j = c + 2
      BY <3>3
    <3> QED
      BY <2>2, <2>3, <3>1, <3>2, <3>3, <3>4 DEF Found, Scanned
  <2>4. CASE ReToken(s, k, j, a, b, "grouped") /\ f = Found(s, k, j, a, b, "grouped")
    <3>1. /\ a = Past(s, i + 2, "blank") /\ b = Past(s, a, "word")
          /\ a < b /\ Pair(s, j - 2, "close") /\ IsAt(s, b, "colon")
      BY <2>2, <2>4, GroupedParts
    <3>2. PICK p \in Nat, q \in Nat :
            p = Past(s, b + 1, "blank") /\ q = Past(s, p, "word") /\ p < q /\ j - 2 = Past(s, q, "blank")
      BY <2>2, <2>4, GroupedParts
    <3>3. a = n /\ b = e /\ grouped
      BY <3>1
    <3>4. p = g /\ q = w /\ j - 2 = c
      BY <3>2, <3>3
    <3> HIDE DEF n, e, g, w, c
    <3>5. j = c + 2
      BY <3>4
    <3> QED
      BY <2>2, <2>4, <3>1, <3>2, <3>3, <3>4, <3>5 DEF Found, Scanned
  <2> QED
    BY <2>1, <2>3, <2>4
<1> HIDE DEF closed, r
<1> QED
  BY <1>1, <1>8, <1>9

\* A stretch of the text, in which no other token begins:
Stretch(s, f) ==
  /\ f.from \in 1..Len(s) /\ f.to \in 1..(Len(s) + 1) /\ f.from < f.to
  /\ Pair(s, f.from, "open")
  /\ \A k \in (f.from + 1)..(f.to - 1) : ~Pair(s, k, "open")

\* every token is one.
LEMMA TokenStretch ==
  ASSUME NEW s, Len(s) \in Nat, NEW f \in ReTokens(s, {"plain", "grouped"})
  PROVE  Stretch(s, f)
<1>1. PICK i \in Nat \ {0}, j \in Nat, a \in Nat, b \in Nat :
        \/ ReToken(s, i, j, a, b, "plain") /\ f = Found(s, i, j, a, b, "plain")
        \/ ReToken(s, i, j, a, b, "grouped") /\ f = Found(s, i, j, a, b, "grouped")
  BY AllTokensAre
<1>2. f.from = i /\ f.to = j
  BY <1>1 DEF Found
<1>3. /\ Pair(s, i, "open") /\ i + 2 <= a /\ a < b /\ Pair(s, j - 2, "close")
      /\ All(s, i + 2, a, "blank") /\ All(s, a, b, "word")
  BY <1>1 DEF ReToken
<1>4. b <= j - 2 /\ \A k \in b..(j - 3) : ~IsAt(s, k, "open")
  <2>1. CASE ReToken(s, i, j, a, b, "plain")
    BY <2>1 DEF ReToken, All, IsAt
  <2>2. CASE ReToken(s, i, j, a, b, "grouped")
    <3>1. IsAt(s, b, "colon")
      BY <2>2 DEF ReToken
    <3>2. PICK g \in (b + 1)..(j - 3), h \in (b + 2)..(j - 2) :
            g < h /\ All(s, b + 1, g, "blank") /\ All(s, g, h, "word") /\ All(s, h, j - 2, "blank")
      BY <2>2 DEF ReToken
    <3>3. ASSUME NEW k \in b..(j - 3) PROVE ~IsAt(s, k, "open")
      <4>1. k = b \/ k \in (b + 1)..(g - 1) \/ k \in g..(h - 1) \/ k \in h..(j - 2 - 1)
        BY <3>2
      <4>2. IsAt(s, k, "colon") \/ IsAt(s, k, "blank") \/ IsAt(s, k, "word")
        BY <3>1, <3>2, <4>1 DEF All
      <4> QED
        BY <4>2 DEF IsAt
    <3> QED
      BY <3>2, <3>3
  <2> QED
    BY <1>1, <2>1, <2>2
<1>5. j - 1 <= Len(s) /\ s[j - 2] = "close" /\ s[j - 1] = "close" /\ i + 1 <= Len(s)
  <2>1. j - 2 + 1 = j - 1
    OBVIOUS
  <2> QED
    BY <1>3, <2>1 DEF Pair, IsAt
<1>6. ASSUME NEW k \in (i + 2)..(j - 1) PROVE ~IsAt(s, k, "open")
  <2>1. k \in (i + 2)..(a - 1) \/ k \in a..(b - 1) \/ k \in b..(j - 3) \/ k = j - 2 \/ k = j - 1
    BY <1>3, <1>4
  <2> QED
    BY <1>3, <1>4, <1>5, <2>1 DEF All, IsAt
<1>7. ASSUME NEW k \in (i + 1)..(j - 1) PROVE ~Pair(s, k, "open")
  <2>1. CASE k = i + 1
    <3>1. k + 1 \in (i + 2)..(j - 1)
      BY <1>3, <1>4, <2>1
    <3> QED
      BY <1>6, <3>1 DEF Pair
  <2>2. CASE k # i + 1
    BY <1>6, <2>2 DEF Pair
  <2> QED
    BY <2>1, <2>2
<1> QED
  BY <1>2, <1>3, <1>4, <1>5, <1>7 DEF Stretch

\* From one place the regular expression finds one token.
LEMMA TokensAgree ==
  ASSUME NEW s, Len(s) \in Nat, NEW f \in ReTokens(s, {"plain", "grouped"}),
         NEW g \in ReTokens(s, {"plain", "grouped"}), f.from = g.from
  PROVE  f = g
<1>1. f.from \in Nat \ {0} /\ Pair(s, f.from, "open")
  BY TokenStretch DEF Stretch
<1>2. Scanned(f) \in ParseToken(s, f.from + 2) /\ Scanned(g) \in ParseToken(s, f.from + 2)
  BY <1>1, ParseTokenIs
<1>3. Scanned(f) = Scanned(g)
  <2>1. ASSUME NEW i PROVE \E r : \A m \in ParseToken(s, i) : m = r
    <3> DEFINE n == Past(s, i, "blank")
               e == Past(s, n, "word")
               g0 == IF IsAt(s, e, "colon") THEN Past(s, e + 1, "blank") ELSE e
               c == Past(s, Past(s, g0, "word"), "blank")
               r == [name |-> SubSeq(s, n, e - 1),
                     form |-> IF IsAt(s, e, "colon") THEN "grouped" ELSE "plain", next |-> c + 2]
    <3>1. \A m \in ParseToken(s, i) : m = r
      BY DEF ParseToken
    <3> QED
      BY <3>1
  <2> QED
    BY <1>2, <2>1
<1>4. ASSUME NEW m \in ReTokens(s, {"plain", "grouped"})
      PROVE  m = [from |-> m.from, to |-> m.to, name |-> m.name, form |-> m.form]
  BY AllTokensAre, SMTT(30) DEF Found
<1> QED
  BY <1>3, <1>4 DEF Scanned

\* Tokens without a group are tokens.
LEMMA PlainAmong ==
  ASSUME NEW s
  PROVE  /\ ReTokens(s, {"plain"}) \subseteq ReTokens(s, {"plain", "grouped"})
BY DEF ReTokens

\* What may stand in the output.
Segments(ms) == {<<"literal", <<c>>>> : c \in Characters} \cup {<<"token", m.name>> : m \in ms}

\* Each character stands for segments,
LEMMA InPlaceType ==
  ASSUME NEW s \in Seq(Characters), NEW ms, NEW k \in 1..Len(s)
  PROVE  InPlaceOf(s, ms, k) \in Seq(Segments(ms))
<1>1. CASE \E m \in ms : m.from = k
  <2>1. (CHOOSE m \in ms : m.from = k) \in ms
    BY <1>1
  <2>2. <<"token", (CHOOSE m \in ms : m.from = k).name>> \in Segments(ms)
    BY <2>1 DEF Segments
  <2> QED
    BY <1>1, <2>2 DEF InPlaceOf
<1>2. CASE ~\E m \in ms : m.from = k
  <2>1. s[k] \in Characters
    BY ElementOfSeq
  <2>2. <<"literal", <<s[k]>>>> \in Segments(ms)
    BY <2>1 DEF Segments
  <2> QED
    BY <1>2, <2>2 DEF InPlaceOf
<1> QED
  BY <1>1, <1>2

\* Substituted goes on by one character.
LEMMA SubstitutedSteps ==
  ASSUME NEW s \in Seq(Characters), NEW ms
  PROVE  /\ Substituted(s, ms, 0) = <<>>
         /\ \A k \in 1..Len(s) :
              Substituted(s, ms, k) = Substituted(s, ms, k - 1) \o InPlaceOf(s, ms, k)
         /\ \A k \in 0..Len(s) : Substituted(s, ms, k) \in Seq(Segments(ms))
<1> DEFINE n == Len(s)
           T == Seq(Segments(ms))
           step(c) == [k \in 0..n |-> IF k = 0 THEN <<>> ELSE c[k - 1] \o InPlaceOf(s, ms, k)]
           C == CHOOSE c : c = step(c)
           W == [k \in 0..n |-> T]
           h == [k \in 0..n |-> [x \in T |-> x \o InPlaceOf(s, ms, k)]]
<1>1. n \in Nat
  BY LenProperties
<1>2. \A k : Substituted(s, ms, k) = C[k]
  BY DEF Substituted
<1>3. ASSUME NEW k \in 1..n, NEW x \in T PROVE x \o InPlaceOf(s, ms, k) \in T
  BY InPlaceType, ConcatProperties
<1>4. <<>> \in T
  OBVIOUS
<1> HIDE DEF n, T
<1>5. ASSUME NEW k \in 1..n, NEW x \in W[k - 1]
      PROVE  h[k][x] = x \o InPlaceOf(s, ms, k) /\ h[k][x] \in W[k] /\ x \in T
  <2>1. k \in 0..n /\ k - 1 \in 0..n
    BY <1>1
  <2>2. x \in T /\ h[k][x] = x \o InPlaceOf(s, ms, k)
    BY <2>1
  <2> QED
    BY <1>3, <2>1, <2>2
<1>6. PICK f : Solves(f, 0, n, W, <<>>, h)
  <2>1. n \in Int /\ 0 \in Int /\ 0 <= n /\ <<>> \in W[0]
    BY <1>1, <1>4
  <2>2. \A k \in (0 + 1)..n : \A x \in W[k - 1] : h[k][x] \in W[k]
    <3>1. 0 + 1 = 1
      OBVIOUS
    <3> HIDE DEF W, h
    <3> QED
      BY <1>5, <3>1
  <2> HIDE DEF W, h
  <2> QED
    BY <2>1, <2>2, Recursion, Zenon
<1>7. f = step(f)
  <2>1. f = [k \in 0..n |-> f[k]] /\ f[0] = <<>>
    BY <1>6 DEF Solves
  <2>2. ASSUME NEW k \in 0..n, k # 0 PROVE f[k] = f[k - 1] \o InPlaceOf(s, ms, k)
    <3>1. k \in 1..n /\ k - 1 \in 0..n /\ k \in (0 + 1)..n
      BY <1>1, <2>2
    <3> HIDE DEF W, h
    <3>2. f[k] = h[k][f[k - 1]] /\ f[k - 1] \in W[k - 1]
      BY <1>6, <3>1 DEF Solves
    <3> QED
      BY <1>5, <3>1, <3>2
  <2>3. ASSUME NEW k \in 0..n
        PROVE  f[k] = IF k = 0 THEN <<>> ELSE f[k - 1] \o InPlaceOf(s, ms, k)
    BY <2>1, <2>2, Zenon
  <2> QED
    BY <2>1, <2>3, Zenon
<1>8. C = step(C)
  BY <1>7
<1> HIDE DEF C
<1>9. C[0] = <<>> /\ \A k \in 1..n : C[k] = C[k - 1] \o InPlaceOf(s, ms, k)
  <2>1. \A k \in 0..n : C[k] = IF k = 0 THEN <<>> ELSE C[k - 1] \o InPlaceOf(s, ms, k)
    BY <1>8, Zenon
  <2>2. 0 \in 0..n /\ \A k \in 1..n : k \in 0..n /\ k # 0
    BY <1>1
  <2> QED
    BY <2>1, <2>2, Zenon
<1>10. \A k \in 0..n : C[k] \in T
  <2> DEFINE S == {k \in 0..n : C[k] \in T}
  <2>1. 0 \in S
    BY <1>1, <1>4, <1>9
  <2>2. ASSUME NEW k \in (0 + 1)..n, k - 1 \in S PROVE k \in S
    <3>1. k \in 1..n /\ k \in 0..n
      BY <1>1
    <3>2. C[k - 1] \in T
      BY <2>2
    <3>3. C[k] \in T
      BY <1>3, <1>9, <3>1, <3>2
    <3> QED
      BY <3>1, <3>3
  <2>3. n \in Int /\ 0 \in Int
    BY <1>1
  <2> HIDE DEF S
  <2>4. \A k \in 0..n : k \in S
    BY <2>1, <2>2, <2>3, Induction
  <2> QED
    BY <2>4 DEF S
<1> QED
  BY <1>2, <1>9, <1>10 DEF n, T

\* The characters of a token are replaced, and no others.
LEMMA InPlaceOfToken ==
  ASSUME NEW s \in Seq(Characters), NEW ms, ms \subseteq ReTokens(s, {"plain", "grouped"}),
         NEW f \in ms
  PROVE  /\ InPlaceOf(s, ms, f.from) = <<<<"token", f.name>>>>
         /\ \A k \in (f.from + 1)..(f.to - 1) : InPlaceOf(s, ms, k) = <<>>
<1>1. Len(s) \in Nat /\ Stretch(s, f)
  BY TokenStretch, LenProperties
<1>2. (CHOOSE m \in ms : m.from = f.from) = f
  BY <1>1, TokensAgree
<1>3. ASSUME NEW k \in (f.from + 1)..(f.to - 1) PROVE InPlaceOf(s, ms, k) = <<>>
  <2>1. ~Pair(s, k, "open") /\ f.from < k /\ k < f.to
    BY <1>1 DEF Stretch
  <2>2. \A m \in ms : m.from # k
    BY <1>1, <2>1, TokenStretch DEF Stretch
  <2> QED
    BY <2>1, <2>2 DEF InPlaceOf
<1> QED
  BY <1>2, <1>3 DEF InPlaceOf

\* A character of no token is kept.
LEMMA InPlaceOfOther ==
  ASSUME NEW s, NEW ms, NEW k \in Nat, \A m \in ms : m.from \in Nat /\ m.to \in Nat,
         \A m \in ms : k < m.from \/ m.to <= k, \A m \in ms : m.from < m.to
  PROVE  InPlaceOf(s, ms, k) = <<<<"literal", <<s[k]>>>>>>
BY DEF InPlaceOf

\* Literals are written one by one,
LEMMA LiteralRun ==
  ASSUME text \in Seq(Characters), NEW ms, NEW i \in 1..(Len(text) + 1),
         NEW j \in i..(Len(text) + 1),
         \A k \in i..(j - 1) : InPlaceOf(text, ms, k) = <<<<"literal", <<text[k]>>>>>>
  PROVE  Substituted(text, ms, j - 1) = Substituted(text, ms, i - 1) \o Literal(i, j)
<1> DEFINE P(k) == Substituted(text, ms, k)
           X == Seq(Segments(ms))
           lit(k) == <<<<"literal", <<text[k]>>>>>>
           S == {k \in i..j : P(k - 1) = P(i - 1) \o Literal(i, k)}
<1>1. Len(text) \in Nat /\ \A k \in 1..Len(text) : text[k] \in Characters
  BY LenProperties
<1>2. /\ \A k \in 1..Len(text) : P(k) = P(k - 1) \o InPlaceOf(text, ms, k)
      /\ \A k \in 0..Len(text) : P(k) \in X
  BY SubstitutedSteps
<1> HIDE DEF P
<1>3. ASSUME NEW k \in i..j
      PROVE  /\ Literal(i, k) \in X /\ Len(Literal(i, k)) = k - i
             /\ \A l \in 1..(k - i) : Literal(i, k)[l] = <<"literal", <<text[i + l - 1]>>>>
  <2>1. k - i \in Nat /\ \A l \in 1..(k - i) : i + l - 1 \in 1..Len(text)
    BY <1>1
  <2>2. \A l \in 1..(k - i) : <<"literal", <<text[i + l - 1]>>>> \in Segments(ms)
    BY <1>1, <2>1 DEF Segments
  <2>3. Literal(i, k) \in [1..(k - i) -> Segments(ms)]
    BY <2>2 DEF Literal
  <2>4. \A l \in 1..(k - i) : Literal(i, k)[l] = <<"literal", <<text[i + l - 1]>>>>
    BY DEF Literal
  <2> QED
    BY <2>1, <2>3, <2>4, FunctionIsSequence
<1>4. i \in S
  <2>1. Literal(i, i) = <<>>
    <3>1. Literal(i, i) \in X /\ Len(Literal(i, i)) = 0
      BY <1>3
    <3> QED
      BY <3>1, EmptySeq
  <2>2. P(i - 1) \in X /\ i \in i..j
    BY <1>1, <1>2
  <2> HIDE DEF X
  <2>3. P(i - 1) \o <<>> = P(i - 1)
    BY <2>2, ConcatEmptySeq DEF X
  <2> QED
    BY <2>1, <2>2, <2>3
<1>5. ASSUME NEW k \in (i + 1)..j, k - 1 \in S PROVE k \in S
  <2> DEFINE l == k - 1
  <2>1. /\ l \in i..j /\ k \in i..j /\ l \in i..(j - 1)
        /\ l \in 1..Len(text) /\ l - 1 \in 0..Len(text)
        /\ i - 1 \in 0..Len(text)
    BY <1>1
  <2>2. P(l - 1) = P(i - 1) \o Literal(i, l)
    BY <1>5
  <2>3. P(l) = P(l - 1) \o lit(l)
    BY <1>2, <2>1
  <2>4. lit(l) \in X /\ Len(lit(l)) = 1 /\ lit(l)[1] = <<"literal", <<text[l]>>>>
    <3>1. <<"literal", <<text[l]>>>> \in Segments(ms)
      BY <1>1, <2>1 DEF Segments
    <3> QED
      BY <3>1
  <2>5. Literal(i, l) \o lit(l) = Literal(i, k)
    <3> DEFINE a == Literal(i, l)
               b == lit(l)
               c == Literal(i, k)
    <3>1. /\ a \in X /\ Len(a) = l - i
          /\ \A q \in 1..(l - i) : a[q] = <<"literal", <<text[i + q - 1]>>>>
      BY <1>3, <2>1
    <3>2. /\ c \in X /\ Len(c) = k - i
          /\ \A q \in 1..(k - i) : c[q] = <<"literal", <<text[i + q - 1]>>>>
      BY <1>3, <2>1
    <3> HIDE DEF a, b, c
    <3>3. b \in X /\ Len(b) = 1 /\ b[1] = <<"literal", <<text[l]>>>>
      BY <2>4 DEF b
    <3>4. /\ a \o b \in X /\ Len(a \o b) = Len(a) + Len(b)
          /\ \A q \in 1..(Len(a) + Len(b)) : (a \o b)[q] = IF q <= Len(a) THEN a[q] ELSE b[q - Len(a)]
      BY <3>1, <3>3, ConcatProperties
    <3>5. ASSUME NEW q \in 1..(k - i) PROVE (a \o b)[q] = c[q]
      <4>1. q \in 1..(Len(a) + Len(b))
        BY <2>1, <3>1, <3>3
      <4>2. (a \o b)[q] = IF q <= l - i THEN a[q] ELSE b[q - (l - i)]
        BY <3>1, <3>4, <4>1
      <4>3. CASE q <= l - i
        <5>1. q \in 1..(l - i)
          BY <2>1, <4>3
        <5>2. a[q] = <<"literal", <<text[i + q - 1]>>>>
          BY <3>1, <5>1
        <5> QED
          BY <3>2, <4>2, <4>3, <5>2
      <4>4. CASE ~(q <= l - i)
        <5>1. q - (l - i) = 1 /\ i + q - 1 = l
          BY <2>1, <4>4
        <5>2. (a \o b)[q] = <<"literal", <<text[l]>>>>
          BY <3>3, <4>2, <4>4, <5>1
        <5>3. c[q] = <<"literal", <<text[l]>>>>
          BY <3>2, <5>1
        <5> QED
          BY <5>2, <5>3
      <4> QED
        BY <4>3, <4>4
    <3>6. Len(a \o b) = Len(c)
      BY <2>1, <3>1, <3>2, <3>3, <3>4
    <3>7. a \o b = c
      BY <3>2, <3>4, <3>5, <3>6, SeqEqual
    <3> QED
      BY <3>7 DEF a, b, c
  <2>6. (P(i - 1) \o Literal(i, l)) \o lit(l) = P(i - 1) \o (Literal(i, l) \o lit(l))
    <3>1. P(i - 1) \in X /\ Literal(i, l) \in X
      BY <1>2, <1>3, <2>1
    <3> DEFINE p == P(i - 1)
               q == Literal(i, l)
               r == lit(l)
    <3>2. p \in X /\ q \in X /\ r \in X
      BY <2>4, <3>1, Zenon
    <3> HIDE DEF p, q, r
    <3>3. (p \o q) \o r = p \o (q \o r)
      BY ONLY <3>2, ConcatAssociative, SMTT(40)
    <3> QED
      BY <3>3 DEF p, q, r
  <2> QED
    BY <2>1, <2>2, <2>3, <2>5, <2>6
<1> HIDE DEF S
<1>6. \A k \in i..j : k \in S
  <2> HIDE DEF X, lit
  <2>1. i \in Int /\ j \in Int
    BY <1>1
  <2> QED
    BY <1>4, <1>5, <2>1, Induction
<1> QED
  BY <1>6 DEF S, P

\* a token at once.
LEMMA TokenRun ==
  ASSUME NEW s \in Seq(Characters), NEW ms, ms \subseteq ReTokens(s, {"plain", "grouped"}),
         NEW f \in ms
  PROVE  Substituted(s, ms, f.to - 1) = Substituted(s, ms, f.from - 1) \o <<<<"token", f.name>>>>
<1> DEFINE P(k) == Substituted(s, ms, k)
           X == Seq(Segments(ms))
           i == f.from
           j == f.to - 1
           put == P(i - 1) \o <<<<"token", f.name>>>>
           S == {k \in i..j : P(k) = put}
<1>1. Len(s) \in Nat /\ i \in 1..Len(s) /\ j \in i..Len(s) /\ f.from = i /\ f.to - 1 = j
  BY TokenStretch, LenProperties DEF Stretch
<1>2. /\ \A k \in 1..Len(s) : P(k) = P(k - 1) \o InPlaceOf(s, ms, k)
      /\ \A k \in 0..Len(s) : P(k) \in X
  BY SubstitutedSteps
<1>3. /\ InPlaceOf(s, ms, i) = <<<<"token", f.name>>>>
      /\ \A k \in (i + 1)..j : InPlaceOf(s, ms, k) = <<>>
  BY InPlaceOfToken
<1> HIDE DEF P, i, j
<1>4. P(i) = put
  BY <1>1, <1>2, <1>3
<1>5. i \in S
  <2>1. i \in i..j
    BY <1>1
  <2> QED
    BY <1>4, <2>1, Zenon
<1>6. ASSUME NEW k \in (i + 1)..j, k - 1 \in S PROVE k \in S
  <2>1. k \in 1..Len(s) /\ k - 1 \in 0..Len(s) /\ k \in i..j
    BY <1>1
  <2>2. P(k) = P(k - 1) \o <<>>
    BY <1>2, <1>3, <2>1
  <2>3. P(k) = P(k - 1)
    BY <1>2, <2>1, <2>2, ConcatEmptySeq
  <2> QED
    BY <1>6, <2>1, <2>3
<1> HIDE DEF S, put, X
<1>7. \A k \in i..j : k \in S
  <2>1. i \in Int /\ j \in Int
    BY <1>1
  <2> QED
    BY <1>5, <1>6, <2>1, Induction
<1>8. j \in S
  BY <1>1, <1>7
<1> QED
  BY <1>1, <1>8 DEF S, put, P

\* What a scanner finds at an opening is what is promised there.
LEMMA MatchesAre ==
  ASSUME reader \in {"parse", "compile"}, Len(text) \in Nat,
         NEW i \in Nat \ {0}, Pair(text, i, "open")
  PROVE  Matches(text, i + 2) = {Scanned(f) : f \in {m \in Promised : m.from = i}}
<1>1. CASE reader = "parse"
  <2>1. Promised = ReTokens(text, {"plain"}) /\ Matches(text, i + 2) = MatchToken(text, i + 2)
    BY <1>1 DEF Promised, Matches
  <2> QED
    BY <2>1, MatchTokenIs
<1>2. CASE reader = "compile"
  <2>1. /\ Promised = ReTokens(text, {"plain", "grouped"})
        /\ Matches(text, i + 2) = ParseToken(text, i + 2)
    BY <1>2 DEF Promised, Matches
  <2> QED
    BY <2>1, ParseTokenIs
<1> QED
  BY <1>1, <1>2

\* Whoever reads, promises tokens of the regular expression.
LEMMA PromisedAmong == Promised \subseteq ReTokens(text, {"plain", "grouped"})
BY PlainAmong DEF Promised

\* What was read so far is what the regular expression makes of it, and none of
\* its tokens goes on beyond it.
TokenInv ==
  /\ reading \in {"idle", "parse", "compile", "done", "failed"}
  /\ reading = "idle" => reader = "" /\ at = 1 /\ output = <<>>
  /\ reading # "idle" => reader \in {"parse", "compile"} /\ text \in Seq(Characters)
  /\ reading \in {"parse", "compile"} =>
       /\ reading = reader /\ at \in 1..(Len(text) + 1)
       /\ \A f \in Promised : at <= f.from \/ (f.to <= at /\ ~Unwanted(f))
       /\ output = Substituted(text, Promised, at - 1)
  /\ ReadAlike

\* Nothing is read at first.
LEMMA InitToken == TokenInit => TokenInv
BY DEF TokenInit, TokenInv, ReadAlike

\* While a scanner is at work:
AtWork ==
  /\ TokenInv /\ reading \in {"parse", "compile"}
  /\ reading = reader /\ reader \in {"parse", "compile"}
  /\ text \in Seq(Characters) /\ Len(text) \in Nat /\ at \in 1..(Len(text) + 1)
  /\ output = Substituted(text, Promised, at - 1)

\* While it reads, the invariant says this.
LEMMA Working ==
  ASSUME TokenInv, reading = reader
  PROVE  /\ AtWork
         /\ \A f \in Promised : at <= f.from \/ (f.to <= at /\ ~Unwanted(f))
<1>1. reading \in {"parse", "compile"}
  BY DEF TokenInv
<1> QED
  BY <1>1, LenProperties DEF TokenInv, AtWork

\* A reader starts with nothing read.
LEMMA ReadKeeps ==
  ASSUME TokenInv, reading = "idle",
         NEW s \in TokenTexts, NEW who \in {"parse", "compile"}, Read(s, who)
  PROVE  TokenInv'
<1>1. /\ reading' = who /\ reader' = who /\ text' = s /\ at' = 1 /\ output' = <<>>
      /\ s \in Seq(Characters) /\ Len(s) \in Nat
  BY TokenAssumption, LenProperties DEF Read, TokenInv
<1>2. Substituted(text', Promised', 0) = <<>>
  BY <1>1, SubstitutedSteps
<1>3. ASSUME NEW f \in Promised' PROVE 1 <= f.from
  <2>1. f \in ReTokens(s, {"plain", "grouped"})
    BY <1>1, PlainAmong DEF Promised
  <2> QED
    BY <1>1, <2>1, TokenStretch DEF Stretch
<1>4. ReadAlike'
  BY <1>1 DEF ReadAlike
<1>5. at' - 1 = 0 /\ at' \in 1..(Len(text') + 1)
  BY <1>1
<1> QED
  BY <1>1, <1>2, <1>3, <1>4, <1>5 DEF TokenInv

\* No token of the text begins between here and the next opening.
LEMMA NextToken ==
  ASSUME TokenInv, reading = reader, NEW i \in 1..Len(text), IsNext(i)
  PROVE  /\ \A f \in Promised : f.to <= at \/ i <= f.from
         /\ at <= i /\ Pair(text, i, "open")
         /\ Substituted(text, Promised, i - 1) = output \o Literal(at, i)
<1>1. AtWork /\ \A f \in Promised : at <= f.from \/ (f.to <= at /\ ~Unwanted(f))
  BY Working
<1>2. Promised \subseteq ReTokens(text, {"plain", "grouped"})
  BY PromisedAmong
<1>3. ASSUME NEW f \in Promised
      PROVE  /\ f.from \in 1..Len(text) /\ f.to \in Nat /\ f.from < f.to
             /\ Pair(text, f.from, "open")
  BY <1>1, <1>2, TokenStretch DEF Stretch, AtWork
<1>4. at <= i /\ Pair(text, i, "open") /\ at \in Nat /\ Len(text) \in Nat
  BY <1>1 DEF IsNext, Openings, AtWork
<1>5. ASSUME NEW f \in Promised PROVE f.to <= at \/ i <= f.from
  <2> SUFFICES ASSUME at <= f.from PROVE i <= f.from
    BY <1>1
  <2>1. f.from \in Openings
    BY <1>3, <1>4 DEF Openings
  <2> QED
    BY <2>1 DEF IsNext
<1>6. ASSUME NEW k \in at..(i - 1)
      PROVE  InPlaceOf(text, Promised, k) = <<<<"literal", <<text[k]>>>>>>
  <2>1. k \in Nat /\ at <= k /\ k < i
    BY <1>4
  <2>2. \A f \in Promised : k < f.from \/ f.to <= k
    BY <1>3, <1>4, <1>5, <2>1
  <2>3. /\ \A f \in Promised : f.from \in Nat /\ f.to \in Nat
        /\ \A f \in Promised : f.from < f.to
    BY <1>3
  <2> QED
    BY <2>1, <2>2, <2>3, InPlaceOfOther
<1>7. Substituted(text, Promised, i - 1) = Substituted(text, Promised, at - 1) \o Literal(at, i)
  <2>1. text \in Seq(Characters) /\ at \in 1..(Len(text) + 1) /\ i \in at..(Len(text) + 1)
    BY <1>1, <1>4 DEF AtWork
  <2> QED
    BY <1>6, <2>1, LiteralRun
<1> QED
  BY <1>1, <1>4, <1>5, <1>7 DEF AtWork

\* A token that is taken is the next one that was promised,
LEMMA TakeKeeps ==
  ASSUME TokenInv, NEW i \in 1..Len(text), TakeToken(i)
  PROVE  TokenInv'
<1>1. /\ reading = reader /\ IsNext(i)
      /\ reading' = reading /\ reader' = reader /\ text' = text
  BY DEF TakeToken
<1>2. AtWork /\ \A f \in Promised : at <= f.from \/ (f.to <= at /\ ~Unwanted(f))
  BY <1>1, Working
<1>3. /\ \A f \in Promised : f.to <= at \/ i <= f.from
      /\ at <= i /\ Pair(text, i, "open")
      /\ Substituted(text, Promised, i - 1) = output \o Literal(at, i)
  BY <1>1, NextToken
<1>4. PICK m \in Matches(text, i + 2) :
        /\ ~Unwanted(m) /\ at' = m.next
        /\ output' = output \o Literal(at, i) \o <<<<"token", m.name>>>>
  BY DEF TakeToken
<1>5. reader \in {"parse", "compile"} /\ text \in Seq(Characters) /\ Len(text) \in Nat /\ at \in Nat
  BY <1>2 DEF AtWork
<1>6. PICK f \in Promised : f.from = i /\ m = Scanned(f)
  BY <1>3, <1>4, <1>5, MatchesAre
<1>7. at' = f.to /\ m.name = f.name /\ ~Unwanted(f)
  BY <1>4, <1>6 DEF Scanned, Unwanted
<1>8. Promised \subseteq ReTokens(text, {"plain", "grouped"}) /\ Promised' = Promised
  BY <1>1, PromisedAmong DEF Promised
<1>9. ASSUME NEW g \in Promised
      PROVE  /\ g.from \in 1..Len(text) /\ g.to \in 1..(Len(text) + 1) /\ g.from < g.to
             /\ Pair(text, g.from, "open")
             /\ \A k \in (g.from + 1)..(g.to - 1) : ~Pair(text, k, "open")
  BY <1>5, <1>8, TokenStretch DEF Stretch
<1>10. output' = Substituted(text, Promised, f.to - 1)
  <2>1. Substituted(text, Promised, f.to - 1)
          = Substituted(text, Promised, f.from - 1) \o <<<<"token", f.name>>>>
    BY <1>5, <1>6, <1>8, TokenRun
  <2> QED
    BY <1>3, <1>4, <1>6, <1>7, <2>1
<1>11. ASSUME NEW g \in Promised PROVE f.to <= g.from \/ (g.to <= f.to /\ ~Unwanted(g))
  <2>1. CASE g.to <= at
    <3>1. ~(at <= g.from) /\ g.to <= f.to
      BY <1>3, <1>5, <1>6, <1>9, <2>1
    <3> QED
      BY <1>2, <3>1
  <2>2. CASE g.from = i
    <3>1. g = f
      BY <1>5, <1>6, <1>8, <2>2, TokensAgree
    <3> QED
      BY <1>7, <1>9, <3>1
  <2>3. CASE i < g.from
    <3>1. ~(g.from \in (f.from + 1)..(f.to - 1))
      BY <1>6, <1>9
    <3>2. f.to <= g.from
      BY <1>6, <1>9, <2>3, <3>1
    <3> QED
      BY <3>2
  <2> QED
    BY <1>3, <1>6, <1>9, <2>1, <2>2, <2>3
<1>12. \A g : Unwanted(g)' <=> Unwanted(g)
  BY <1>1 DEF Unwanted
<1>13. ReadAlike'
  BY <1>1, <1>2 DEF ReadAlike, AtWork
<1>14. at' \in 1..(Len(text) + 1)
  BY <1>7, <1>9
<1> QED
  BY <1>1, <1>2, <1>5, <1>7, <1>8, <1>10, <1>11, <1>12, <1>13, <1>14 DEF TokenInv, AtWork

\* one that is refused was promised and is unwanted,
LEMMA RefuseKeeps ==
  ASSUME TokenInv, NEW i \in 1..Len(text), RefuseToken(i)
  PROVE  TokenInv'
<1>1. /\ reading = reader /\ IsNext(i) /\ reading' = "failed"
      /\ reader' = reader /\ text' = text
  BY DEF RefuseToken
<1>2. reader \in {"parse", "compile"} /\ text \in Seq(Characters) /\ Len(text) \in Nat
  BY <1>1, Working DEF AtWork
<1>3. Pair(text, i, "open")
  BY <1>1, NextToken
<1>4. PICK f \in Promised : Unwanted(Scanned(f))
  BY <1>2, <1>3, MatchesAre DEF RefuseToken
<1>5. Promised' = Promised /\ Unwanted(f)'
  BY <1>1, <1>4 DEF Promised, Unwanted, Scanned
<1>6. ReadAlike'
  BY <1>1, <1>4, <1>5 DEF ReadAlike
<1> QED
  BY <1>1, <1>2, <1>6 DEF TokenInv

\* a brace that is skipped begins none,
LEMMA SkipKeeps ==
  ASSUME TokenInv, NEW i \in 1..Len(text), SkipBrace(i)
  PROVE  TokenInv'
<1>1. /\ reading = reader /\ IsNext(i) /\ Matches(text, i + 2) = {}
      /\ reading' = reading /\ reader' = reader /\ text' = text
      /\ output' = output \o Literal(at, i + 1) /\ at' = i + 1
  BY DEF SkipBrace
<1>2. AtWork /\ \A f \in Promised : at <= f.from \/ (f.to <= at /\ ~Unwanted(f))
  BY <1>1, Working
<1>3. /\ \A f \in Promised : f.to <= at \/ i <= f.from
      /\ at <= i /\ Pair(text, i, "open")
  BY <1>1, NextToken
<1>4. /\ reader \in {"parse", "compile"} /\ text \in Seq(Characters) /\ Len(text) \in Nat
      /\ at \in 1..(Len(text) + 1) /\ output = Substituted(text, Promised, at - 1)
  BY <1>2 DEF AtWork
<1>5. ASSUME NEW f \in Promised PROVE f.from # i
  <2>1. {Scanned(g) : g \in {m \in Promised : m.from = i}} = {}
    <3>1. Matches(text, i + 2) = {Scanned(g) : g \in {m \in Promised : m.from = i}}
      <4>1. i \in Nat \ {0}
        BY <1>4
      <4> QED
        BY <1>3, <1>4, <4>1, MatchesAre
    <3> QED
      BY <1>1, <3>1, Zenon
  <2>2. f.from = i => Scanned(f) \in {Scanned(g) : g \in {m \in Promised : m.from = i}}
    OBVIOUS
  <2> QED
    BY <2>1, <2>2
<1>6. Promised \subseteq ReTokens(text, {"plain", "grouped"}) /\ Promised' = Promised
  BY <1>1, PromisedAmong DEF Promised
<1>7. ASSUME NEW f \in Promised
      PROVE  f.from \in Nat /\ f.to \in Nat /\ f.from < f.to
  BY <1>4, <1>6, TokenStretch DEF Stretch
<1>8. ASSUME NEW f \in Promised PROVE i + 1 <= f.from \/ (f.to <= at /\ ~Unwanted(f))
  <2>1. CASE f.to <= at
    BY <1>2, <1>4, <1>7, <2>1
  <2>2. CASE i <= f.from
    BY <1>5, <1>7, <2>2
  <2> QED
    BY <1>3, <2>1, <2>2
<1>9. ASSUME NEW k \in at..i PROVE InPlaceOf(text, Promised, k) = <<<<"literal", <<text[k]>>>>>>
  <2>1. k \in Nat /\ at <= k /\ k <= i
    BY <1>4
  <2>2. \A f \in Promised : k < f.from \/ f.to <= k
    BY <1>4, <1>7, <1>8, <2>1
  <2>3. /\ \A f \in Promised : f.from \in Nat /\ f.to \in Nat
        /\ \A f \in Promised : f.from < f.to
    BY <1>7
  <2> QED
    BY <2>1, <2>2, <2>3, InPlaceOfOther
<1>10. output' = Substituted(text, Promised, i)
  <2> DEFINE j == i + 1
  <2>1. j \in at..(Len(text) + 1) /\ j - 1 = i /\ \A k \in at..(j - 1) : k \in at..i
    BY <1>3, <1>4
  <2> HIDE DEF j
  <2>2. Substituted(text, Promised, j - 1) = Substituted(text, Promised, at - 1) \o Literal(at, j)
    BY <1>4, <1>9, <2>1, LiteralRun
  <2> QED
    BY <1>1, <1>4, <2>1, <2>2 DEF j
<1>11. /\ \A f \in Promised : i + 1 <= f.from \/ (f.to <= i + 1 /\ ~Unwanted(f))
       /\ i + 1 \in 1..(Len(text) + 1) /\ i + 1 - 1 = i
  BY <1>3, <1>4, <1>7, <1>8
<1>12. \A g : Unwanted(g)' <=> Unwanted(g)
  BY <1>1 DEF Unwanted
<1>13. ReadAlike'
  BY <1>1, <1>2 DEF ReadAlike, AtWork
<1>14. \A f \in Promised' : at' <= f.from \/ (f.to <= at' /\ ~Unwanted(f)')
  <2>1. at' = i + 1 /\ Promised' = Promised
    BY <1>1, <1>6
  <2> QED
    BY <2>1, <1>11, <1>12
<1>15. output' = Substituted(text', Promised', at' - 1)
  BY <1>1, <1>6, <1>10, <1>11
<1>16. reading' = reader' /\ reading' \in {"parse", "compile"} /\ text' \in Seq(Characters)
  BY <1>1, <1>4
<1>17. at' \in 1..(Len(text') + 1)
  BY <1>1, <1>11
<1> QED
  BY <1>13, <1>14, <1>15, <1>16, <1>17 DEF TokenInv

\* and when no opening is left, no token is.
LEMMA RestKeeps ==
  ASSUME TokenInv, TakeRest
  PROVE  TokenInv'
<1>1. /\ reading = reader /\ Openings = {} /\ reading' = "done"
      /\ reader' = reader /\ text' = text /\ output' = output \o Literal(at, Len(text) + 1)
  BY DEF TakeRest
<1>2. AtWork /\ \A f \in Promised : at <= f.from \/ (f.to <= at /\ ~Unwanted(f))
  BY <1>1, Working
<1>3. /\ reader \in {"parse", "compile"} /\ text \in Seq(Characters) /\ Len(text) \in Nat
      /\ at \in 1..(Len(text) + 1) /\ output = Substituted(text, Promised, at - 1)
  BY <1>2 DEF AtWork
<1>4. Promised \subseteq ReTokens(text, {"plain", "grouped"}) /\ Promised' = Promised
  BY <1>1, PromisedAmong DEF Promised
<1>5. ASSUME NEW f \in Promised
      PROVE  f.from \in Nat /\ f.to \in Nat /\ f.from < f.to /\ f.to <= at /\ ~Unwanted(f)
  <2>1. f.from \in 1..Len(text) /\ f.to \in Nat /\ f.from < f.to /\ Pair(text, f.from, "open")
    BY <1>3, <1>4, TokenStretch DEF Stretch
  <2>2. ~(at <= f.from)
    BY <1>1, <1>3, <2>1 DEF Openings
  <2> QED
    BY <1>2, <2>1, <2>2
<1>6. ASSUME NEW k \in at..Len(text)
      PROVE  InPlaceOf(text, Promised, k) = <<<<"literal", <<text[k]>>>>>>
  <2>1. k \in Nat /\ at <= k
    BY <1>3
  <2>2. \A f \in Promised : k < f.from \/ f.to <= k
    BY <1>3, <1>5, <2>1
  <2> QED
    BY <1>5, <2>1, <2>2, InPlaceOfOther
<1>7. output' = Substituted(text, Promised, Len(text))
  <2> DEFINE j == Len(text) + 1
  <2>1. j \in at..(Len(text) + 1) /\ j - 1 = Len(text) /\ \A k \in at..(j - 1) : k \in at..Len(text)
    BY <1>3
  <2> HIDE DEF j
  <2>2. Substituted(text, Promised, j - 1) = Substituted(text, Promised, at - 1) \o Literal(at, j)
    BY <1>3, <1>6, <2>1, LiteralRun
  <2> QED
    BY <1>1, <1>3, <2>1, <2>2 DEF j
<1>8. \A f \in Promised' : ~Unwanted(f)'
  BY <1>1, <1>4, <1>5 DEF Unwanted
<1>9. output' = Substituted(text', Promised', Len(text'))
  BY <1>1, <1>4, <1>7
<1>10. ReadAlike'
  BY <1>1, <1>8, <1>9 DEF ReadAlike
<1> QED
  BY <1>1, <1>3, <1>10 DEF TokenInv

\* Every step of a scanner keeps the invariant.
LEMMA TokenStep == TokenInv /\ [TokenNext]_tokenVars => TokenInv'
<1> SUFFICES ASSUME TokenInv, [TokenNext]_tokenVars PROVE TokenInv'
  OBVIOUS
<1>1. ASSUME reading = "idle", NEW s \in TokenTexts, NEW who \in {"parse", "compile"}, Read(s, who)
      PROVE  TokenInv'
  BY <1>1, ReadKeeps
<1>2. ASSUME NEW i \in 1..Len(text), TakeToken(i) \/ RefuseToken(i) \/ SkipBrace(i)
      PROVE  TokenInv'
  BY <1>2, TakeKeeps, RefuseKeeps, SkipKeeps
<1>3. CASE TakeRest
  BY <1>3, RestKeeps
<1>4. CASE ReadReturn
  BY <1>4 DEF ReadReturn, TokenInv, ReadAlike
<1>5. CASE UNCHANGED tokenVars
  <2>1. Promised' = Promised /\ \A f : Unwanted(f)' <=> Unwanted(f)
    BY <1>5 DEF tokenVars, Promised, Unwanted
  <2>2. ReadAlike'
    BY <1>5, <2>1 DEF tokenVars, ReadAlike, TokenInv
  <2> QED
    BY <1>5, <2>1, <2>2 DEF tokenVars, TokenInv
<1> QED
  BY <1>1, <1>2, <1>3, <1>4, <1>5 DEF TokenNext

\* Generator::parse (template.rs:17-51) and template_expr (build.rs) find in every
\* text the tokens that the regular expression of generator.py finds, keep all
\* else, and refuse a text exactly when one of its tokens is not theirs to take.
THEOREM ReadAlikeTheorem == DrawSpec => []ReadAlike
<1>1. DrawInit => TokenInv
  BY InitToken DEF DrawInit
<1>2. TokenInv => ReadAlike
  BY DEF TokenInv
<1> QED
  BY <1>1, <1>2, TokenSteps, TokenStep, PTL DEF DrawSpec

-----------------------------------------------------------------------------
(* Relative date strings, for any strings and units                        *)

\* From i on there are some digits, and then none.
LEMMA DigitsAre ==
  ASSUME NEW s, Len(s) \in Nat, NEW i \in 1..(Len(s) + 1)
  PROVE  /\ DigitsFrom(s, i) \in 0..(Len(s) + 1 - i)
         /\ \A k \in i..(i + DigitsFrom(s, i) - 1) : s[k] \in Decimal
         /\ i + DigitsFrom(s, i) <= Len(s) => s[i + DigitsFrom(s, i)] \notin Decimal
<1> DEFINE S == {n \in 0..(Len(s) + 1 - i) : i + n <= Len(s) => s[i + n] \notin Decimal}
<1>1. Len(s) + 1 - i \in S /\ S \subseteq Nat
  OBVIOUS
<1>2. PICK n \in S : \A m \in S : n <= m
  BY <1>1, LeastNumber
<1>3. ASSUME NEW k \in i..(i + n - 1) PROVE s[k] \in Decimal
  <2>1. k - i \in 0..(Len(s) + 1 - i) /\ k - i < n /\ i + (k - i) = k
    OBVIOUS
  <2>2. k - i \notin S
    BY <1>2, <2>1
  <2> QED
    BY <2>1, <2>2
<1> QED
  BY <1>2, <1>3 DEF DigitsFrom

\* They are all that is there before something else.
LEMMA DigitsUnique ==
  ASSUME NEW s, Len(s) \in Nat, NEW i \in 1..(Len(s) + 1), NEW n \in Nat, i + n <= Len(s),
         \A k \in i..(i + n - 1) : s[k] \in Decimal, s[i + n] \notin Decimal
  PROVE  DigitsFrom(s, i) = n
<1>1. PICK m : m = DigitsFrom(s, i)
  OBVIOUS
<1>2. /\ m \in 0..(Len(s) + 1 - i)
      /\ \A k \in i..(i + m - 1) : s[k] \in Decimal
      /\ i + m <= Len(s) => s[i + m] \notin Decimal
  BY <1>1, DigitsAre
<1>3. ~(m < n)
  <2> SUFFICES ASSUME m < n PROVE FALSE
    OBVIOUS
  <2>1. i + m \in i..(i + n - 1) /\ i + m <= Len(s)
    BY <1>2
  <2> QED
    BY <1>2, <2>1
<1>4. ~(n < m)
  <2> SUFFICES ASSUME n < m PROVE FALSE
    OBVIOUS
  <2>1. i + n \in i..(i + m - 1)
    BY <1>2
  <2> QED
    BY <1>2, <2>1
<1> QED
  BY <1>1, <1>2, <1>3, <1>4

\* What a group from i up to j stands for.
FoundPart(s, n, i, j) ==
  [unit |-> Units[n],
   amount |-> IF s[i] = "-" THEN -Number(s, i + 1, j - i - 2) ELSE Number(s, i + 1, j - i - 2),
   next |-> j]

\* A group has its digits where signed_amount counts them.
LEMMA GroupDigits ==
  ASSUME NEW s, Len(s) \in Nat, NEW n \in 1..Len(Units), NEW i \in 1..(Len(s) + 1), NEW j \in Int,
         Group(s, n, i, j)
  PROVE  i <= Len(s) /\ i + 1 \in 1..(Len(s) + 1) /\ DigitsFrom(s, i + 1) = j - i - 2
<1>1. /\ i + 3 <= j /\ j <= Len(s) + 1 /\ s[j - 1] = Units[n]
      /\ \A k \in (i + 1)..(j - 2) : s[k] \in Decimal
  BY DEF Group
<1>2. i + 1 \in 1..(Len(s) + 1) /\ j - i - 2 \in Nat /\ (i + 1) + (j - i - 2) = j - 1
  BY <1>1
<1>3. (i + 1) + (j - i - 2) - 1 = j - 2 /\ j - 1 <= Len(s) /\ i <= Len(s)
  BY <1>1
<1>4. s[j - 1] \notin Decimal
  BY <1>1, SpanAssumption DEF Decimal
<1> HIDE DEF Group
<1>5. PICK d \in Nat : d = j - i - 2
  BY <1>2
<1>6. DigitsFrom(s, i + 1) = d
  BY <1>1, <1>2, <1>3, <1>4, <1>5, DigitsUnique
<1> QED
  BY <1>2, <1>3, <1>5, <1>6

\* signed_amount finds the group that starts there.
LEMMA SignedAmountGroup ==
  ASSUME NEW s, Len(s) \in Nat, NEW n \in 1..Len(Units), NEW i \in 1..(Len(s) + 1),
         NEW m \in SignedAmount(s, i, Units[n])
  PROVE  \E j \in 1..(Len(s) + 1) : Group(s, n, i, j) /\ m = FoundPart(s, n, i, j)
<1> DEFINE d == DigitsFrom(s, i + 1)
           e == i + 1 + d
<1>1. i <= Len(s) /\ s[i] \in Signs
  BY DEF SignedAmount, SpanPart
<1>3. /\ d > 0 /\ e <= Len(s) /\ s[e] = Units[n]
      /\ m = [unit |-> Units[n],
              amount |-> IF s[i] = "-" THEN -Number(s, i + 1, d) ELSE Number(s, i + 1, d),
              next |-> e + 1]
  BY <1>1 DEF SignedAmount, SpanPart
<1>4. d \in 0..(Len(s) - i) /\ \A k \in (i + 1)..(i + d) : s[k] \in Decimal
  BY <1>1, DigitsAre
<1>5. PICK dd \in Nat : dd = d
  BY <1>4
<1>6. PICK j : j = e + 1
  OBVIOUS
<1>7. dd > 0 /\ i + 1 + dd <= Len(s) /\ j = i + 1 + dd + 1
  BY <1>3, <1>5, <1>6
<1>8. j \in 1..(Len(s) + 1) /\ i + 3 <= j /\ j - 1 = i + 1 + dd /\ j - 2 = i + dd /\ j - i - 2 = dd
  BY <1>7
<1>9. j - 1 = e /\ j - 2 = i + d /\ j - i - 2 = d
  BY <1>5, <1>8
<1>10. Group(s, n, i, j)
  <2>1. s[j - 1] = Units[n] /\ \A k \in (i + 1)..(j - 2) : s[k] \in Decimal
    BY <1>3, <1>4, <1>9
  <2>2. i + 3 <= j /\ j <= Len(s) + 1 /\ s[i] \in Signs
    BY <1>1, <1>8
  <2> HIDE DEF d, e
  <2> QED
    BY ONLY <2>1, <2>2 DEF Group
<1>11. m = FoundPart(s, n, i, j)
  BY <1>3, <1>6, <1>9 DEF FoundPart
<1> QED
  BY <1>8, <1>10, <1>11

\* Where it finds none, there is none.
LEMMA NoneSigned ==
  ASSUME NEW s, Len(s) \in Nat, NEW n \in 1..Len(Units), NEW i \in 1..(Len(s) + 1),
         SignedAmount(s, i, Units[n]) = {}, NEW j \in 1..(Len(s) + 1), Group(s, n, i, j)
  PROVE  FALSE
<1> DEFINE d == DigitsFrom(s, i + 1)
           e == i + 1 + d
<1>1. i <= Len(s) /\ d = j - i - 2
  BY GroupDigits
<1>2. s[i] \in Signs /\ i + 3 <= j /\ j <= Len(s) + 1 /\ s[j - 1] = Units[n]
  BY DEF Group
<1>3. d > 0 /\ e = j - 1
  <2>1. i + 3 <= j /\ d = j - i - 2 /\ Len(s) \in Nat
    BY <1>1, <1>2
  <2> HIDE DEF d
  <2> QED
    BY ONLY <2>1, i \in 1..(Len(s) + 1), j \in 1..(Len(s) + 1)
<1>4. e <= Len(s) /\ s[e] = Units[n]
  BY <1>2, <1>3
<1>5. e \in {y \in {e} : d > 0 /\ y <= Len(s) /\ s[y] = Units[n]}
  BY <1>3, <1>4
<1>6. SignedAmount(s, i, Units[n])
        = {[unit |-> Units[n],
            amount |-> IF s[i] = "-" THEN -Number(s, i + 1, d) ELSE Number(s, i + 1, d),
            next |-> e + 1] : x \in {y \in {e} : d > 0 /\ y <= Len(s) /\ s[y] = Units[n]}}
  <2>1. ~(i > Len(s) \/ s[i] \notin Signs)
    BY <1>1, <1>2
  <2> QED
    BY ONLY <2>1 DEF SignedAmount, SpanPart
<1> HIDE DEF d, e
<1> QED
  BY <1>5, <1>6

\* There is one.
LEMMA GroupUnique ==
  ASSUME NEW s, Len(s) \in Nat, NEW n \in 1..Len(Units), NEW i \in 1..(Len(s) + 1),
         NEW j \in Int, NEW k \in Int, Group(s, n, i, j), Group(s, n, i, k)
  PROVE  j = k
<1>1. DigitsFrom(s, i + 1) = j - i - 2 /\ DigitsFrom(s, i + 1) = k - i - 2
  BY GroupDigits
<1> QED
  BY <1>1


\* The places where the groups that signed_amount finds one after the other end,
\* up to the unit that is next.
Passed(p) ==
  /\ p \in [0..Len(Units) -> 1..(Len(span) + 1)] /\ p[0] = 1
  /\ \A n \in 1..(unit - 1) :
       IF p[n] = p[n - 1] THEN \A j \in 1..(Len(span) + 1) : ~Group(span, n, p[n - 1], j)
                          ELSE Group(span, n, p[n - 1], p[n])
  /\ \A k \in (unit - 1)..Len(Units) : p[k] = rest
  /\ amounts = GroupAmounts(span, p)

\* The invariant of parse_date_string.
SpanInv ==
  /\ span \in Seq(STRING) /\ spanning \in {"idle", "parsing", "done", "failed"}
  /\ unit \in 1..(Len(Units) + 1)
  /\ spanning = "idle" => span = <<>> /\ unit = 1 /\ rest = 1 /\ amounts = {}
  /\ spanning \in {"done", "failed"} =>
       unit = Len(Units) + 1 /\ (spanning = "failed" <=> amounts = {})
  /\ \E p \in [0..Len(Units) -> 1..(Len(span) + 1)] : Passed(p)

\* What a group stands for in the amounts.
Worth(s, n, i, j) ==
  [unit |-> Units[n],
   amount |-> IF s[i] = "-" THEN -Number(s, i + 1, j - i - 2) ELSE Number(s, i + 1, j - i - 2)]

\* The amounts, group by group.
LEMMA GroupAmountsAre ==
  ASSUME NEW s, NEW f, NEW a
  PROVE  a \in GroupAmounts(s, f)
           <=> \E n \in 1..Len(Units) : f[n] # f[n - 1] /\ a = Worth(s, n, f[n - 1], f[n])
<1> DEFINE T == {m \in 1..Len(Units) : f[m] # f[m - 1]}
           v(n) == Number(s, f[n - 1] + 1, f[n] - f[n - 1] - 2)
           W(n) == [unit |-> Units[n], amount |-> IF s[f[n - 1]] = "-" THEN -v(n) ELSE v(n)]
<1>1. GroupAmounts(s, f) = {W(n) : n \in T}
  BY DEF GroupAmounts
<1>2. \A n : W(n) = Worth(s, n, f[n - 1], f[n])
  BY DEF Worth
<1>3. a \in {W(n) : n \in T} <=> \E n \in T : a = W(n)
  OBVIOUS
<1> QED
  BY <1>1, <1>2, <1>3

\* How many units there are.
LEMMA UnitsLength == Len(Units) \in Nat
BY SpanAssumption

\* At first no unit has been tried.
LEMMA SpanInitially == SpanInit => SpanInv
<1> SUFFICES ASSUME SpanInit PROVE SpanInv
  OBVIOUS
<1> DEFINE p == [k \in 0..Len(Units) |-> 1]
<1>1. Len(Units) \in Nat /\ Len(span) = 0 /\ span \in Seq(STRING)
  BY UnitsLength DEF SpanInit
<1>2. p \in [0..Len(Units) -> 1..(Len(span) + 1)] /\ \A k \in 0..Len(Units) : p[k] = 1
  BY <1>1
<1>3. \A n \in 1..Len(Units) : p[n] = p[n - 1]
  BY <1>1, <1>2
<1>4. \A a : a \notin GroupAmounts(span, p)
  BY <1>3, GroupAmountsAre
<1>5. amounts = GroupAmounts(span, p)
  BY <1>4 DEF SpanInit
<1>6. Passed(p)
  BY <1>1, <1>2, <1>5 DEF Passed, SpanInit
<1> QED
  BY <1>1, <1>2, <1>6 DEF SpanInv, SpanInit

\* A part that is taken makes one more group end.
LEMMA SpanTaken ==
  ASSUME SpanInv, NEW part, TakeUnit(part)
  PROVE  SpanInv'
<1> PICK p \in [0..Len(Units) -> 1..(Len(span) + 1)] : Passed(p)
  BY DEF SpanInv
<1> USE UnitsLength
<1>1. /\ spanning = "parsing" /\ unit \in 1..Len(Units) /\ unit' = unit + 1
      /\ spanning' = spanning /\ span' = span /\ rest' = part.next
      /\ amounts' = amounts \cup {[unit |-> part.unit, amount |-> part.amount]}
      /\ part \in SignedAmount(span, rest, Units[unit])
  BY DEF TakeUnit, SpanInv
<1>2. Len(span) \in Nat /\ span \in Seq(STRING)
  BY DEF SpanInv
<1>3. p[unit - 1] = rest /\ rest \in 1..(Len(span) + 1)
  BY <1>1, <1>2 DEF Passed
<1>4. PICK j \in 1..(Len(span) + 1) : Group(span, unit, rest, j) /\ part = FoundPart(span, unit, rest, j)
  BY <1>1, <1>2, <1>3, SignedAmountGroup
<1>5. j # rest
  BY <1>2, <1>3, <1>4 DEF Group
<1>6. rest' = j /\ [unit |-> part.unit, amount |-> part.amount] = Worth(span, unit, rest, j)
  BY <1>1, <1>4 DEF FoundPart, Worth
<1> DEFINE q == [k \in 0..Len(Units) |-> IF k < unit THEN p[k] ELSE j]
<1>7. q \in [0..Len(Units) -> 1..(Len(span) + 1)]
  OBVIOUS
<1>8. /\ \A k \in 0..(unit - 1) : q[k] = p[k]
      /\ \A k \in unit..Len(Units) : q[k] = j
  BY <1>1
<1> HIDE DEF q
<1>9. \A n \in 1..(unit - 1) : q[n] = p[n] /\ q[n - 1] = p[n - 1]
  BY <1>1, <1>8
<1>10. q[unit] = j /\ q[unit - 1] = rest
  BY <1>1, <1>3, <1>8
<1>11. \A n \in (unit + 1)..Len(Units) : q[n] = q[n - 1]
  BY <1>1, <1>8
<1>12. \A n \in unit..Len(Units) : p[n] = p[n - 1]
  BY <1>1, <1>2 DEF Passed
<1>13. \A a : a \in GroupAmounts(span, q)
                <=> a \in GroupAmounts(span, p) \/ a = Worth(span, unit, rest, j)
  <2> TAKE a
  <2>1. ASSUME NEW n \in 1..Len(Units), q[n] # q[n - 1], a = Worth(span, n, q[n - 1], q[n])
        PROVE  a \in GroupAmounts(span, p) \/ a = Worth(span, unit, rest, j)
    <3>1. CASE n < unit
      <4>1. n \in 1..(unit - 1)
        BY <1>1, <3>1
      <4> QED
        BY <1>9, <2>1, <4>1, GroupAmountsAre
    <3>2. CASE n = unit
      BY <1>10, <2>1, <3>2
    <3>3. CASE n > unit
      BY <1>1, <1>11, <2>1, <3>3
    <3> QED
      BY <1>1, <3>1, <3>2, <3>3
  <2>2. ASSUME NEW n \in 1..Len(Units), p[n] # p[n - 1], a = Worth(span, n, p[n - 1], p[n])
        PROVE  a \in GroupAmounts(span, q)
    <3>1. n \in 1..(unit - 1)
      BY <1>1, <1>12, <2>2
    <3> QED
      BY <1>9, <2>2, <3>1, GroupAmountsAre
  <2>3. a = Worth(span, unit, rest, j) => a \in GroupAmounts(span, q)
    BY <1>1, <1>5, <1>10, GroupAmountsAre
  <2> QED
    BY <2>1, <2>2, <2>3, GroupAmountsAre
<1>14. amounts = GroupAmounts(span, p)
  BY DEF Passed
<1>15. amounts' = GroupAmounts(span, q)
  BY <1>1, <1>6, <1>13, <1>14
<1>16. ASSUME NEW n \in 1..unit
       PROVE  IF q[n] = q[n - 1] THEN \A k \in 1..(Len(span) + 1) : ~Group(span, n, q[n - 1], k)
                                 ELSE Group(span, n, q[n - 1], q[n])
  <2>1. CASE n \in 1..(unit - 1)
    BY <1>9, <2>1 DEF Passed
  <2>2. CASE n = unit
    BY <1>4, <1>5, <1>10, <2>2
  <2> QED
    BY <1>1, <2>1, <2>2
<1>17. q[0] = 1
  BY <1>1, <1>8 DEF Passed
<1>18. unit' - 1 = unit /\ \A k \in unit..Len(Units) : q[k] = rest'
  BY <1>1, <1>6, <1>8
<1>19. /\ q \in [0..Len(Units) -> 1..(Len(span') + 1)] /\ q[0] = 1
       /\ \A n \in 1..(unit' - 1) :
            IF q[n] = q[n - 1] THEN \A k \in 1..(Len(span') + 1) : ~Group(span', n, q[n - 1], k)
                               ELSE Group(span', n, q[n - 1], q[n])
       /\ \A k \in (unit' - 1)..Len(Units) : q[k] = rest'
       /\ amounts' = GroupAmounts(span', q)
  BY <1>1, <1>7, <1>15, <1>16, <1>17, <1>18
<1>20. \E r \in [0..Len(Units) -> 1..(Len(span') + 1)] : Passed(r)'
  BY <1>19 DEF Passed
<1>21. /\ span' \in Seq(STRING) /\ spanning' = "parsing"
       /\ unit' \in 1..(Len(Units) + 1)
  BY <1>1, <1>2
<1> QED
  BY <1>20, <1>21 DEF SpanInv

\* Where there is none the places stay as they are.
LEMMA SpanPassed ==
  ASSUME SpanInv, PassUnit
  PROVE  SpanInv'
<1> PICK p \in [0..Len(Units) -> 1..(Len(span) + 1)] : Passed(p)
  BY DEF SpanInv
<1> USE UnitsLength
<1>1. /\ spanning = "parsing" /\ unit \in 1..Len(Units) /\ unit' = unit + 1
      /\ spanning' = spanning /\ span' = span /\ rest' = rest /\ amounts' = amounts
      /\ SignedAmount(span, rest, Units[unit]) = {}
  BY DEF PassUnit, SpanInv
<1>2. Len(span) \in Nat /\ span \in Seq(STRING)
  BY DEF SpanInv
<1>3. p[unit - 1] = rest /\ p[unit] = rest /\ rest \in 1..(Len(span) + 1)
  BY <1>1, <1>2 DEF Passed
<1>4. \A j \in 1..(Len(span) + 1) : ~Group(span, unit, rest, j)
  BY <1>1, <1>2, <1>3, NoneSigned
<1>5. ASSUME NEW n \in 1..unit
      PROVE  IF p[n] = p[n - 1] THEN \A k \in 1..(Len(span) + 1) : ~Group(span, n, p[n - 1], k)
                                ELSE Group(span, n, p[n - 1], p[n])
  <2>1. CASE n \in 1..(unit - 1)
    BY <2>1 DEF Passed
  <2>2. CASE n = unit
    BY <1>3, <1>4, <2>2
  <2> QED
    BY <1>1, <2>1, <2>2
<1>6. \A k \in unit..Len(Units) : p[k] = rest
  BY <1>1 DEF Passed
<1>7. p[0] = 1 /\ amounts = GroupAmounts(span, p)
  BY DEF Passed
<1>8. Passed(p)'
  BY <1>1, <1>5, <1>6, <1>7 DEF Passed
<1> QED
  BY <1>1, <1>2, <1>8 DEF SpanInv

\* Every step of parse_date_string keeps the invariant.
LEMMA SpanInductive ==
  ASSUME SpanInv, [SpanNext]_spanVars
  PROVE  SpanInv'
<1> USE UnitsLength
<1>1. ASSUME spanning = "idle", NEW s \in SpanTexts, AskSpan(s) PROVE SpanInv'
  <2> DEFINE p == [k \in 0..Len(Units) |-> 1]
  <2>1. /\ span' = s /\ spanning' = "parsing" /\ unit' = 1 /\ rest' = 1 /\ amounts' = {}
        /\ s \in Seq(STRING) /\ Len(s) \in Nat
    BY <1>1, SpanAssumption DEF AskSpan, SpanInv
  <2>2. p \in [0..Len(Units) -> 1..(Len(s) + 1)] /\ \A k \in 0..Len(Units) : p[k] = 1
    BY <2>1
  <2>3. \A n \in 1..Len(Units) : p[n] = p[n - 1]
    BY <2>2
  <2>4. \A a : a \notin GroupAmounts(s, p)
    BY <2>3, GroupAmountsAre
  <2>5. amounts' = GroupAmounts(s, p)
    BY <2>1, <2>4
  <2>6. Passed(p)'
    BY <2>1, <2>2, <2>5 DEF Passed
  <2> QED
    BY <2>1, <2>2, <2>6 DEF SpanInv
<1>2. ASSUME NEW part, TakeUnit(part) PROVE SpanInv'
  BY <1>2, SpanTaken
<1>3. CASE PassUnit
  BY <1>3, SpanPassed
<1>4. CASE SumUp
  <2>1. /\ UNCHANGED <<span, unit, rest, amounts>> /\ unit = Len(Units) + 1
        /\ spanning' = IF amounts = {} THEN "failed" ELSE "done"
    BY <1>4 DEF SumUp, SpanInv
  <2>2. (\E p \in [0..Len(Units) -> 1..(Len(span) + 1)] : Passed(p))'
    BY <2>1 DEF SpanInv, Passed
  <2> QED
    BY <2>1, <2>2 DEF SpanInv
<1>5. CASE GotSpan
  <2> DEFINE p == [k \in 0..Len(Units) |-> 1]
  <2>1. /\ span' = <<>> /\ spanning' = "idle" /\ unit' = 1 /\ rest' = 1 /\ amounts' = {}
        /\ <<>> \in Seq(STRING) /\ Len(<<>>) = 0
    BY <1>5 DEF GotSpan
  <2>2. p \in [0..Len(Units) -> 1..(Len(<<>>) + 1)] /\ \A k \in 0..Len(Units) : p[k] = 1
    BY <2>1
  <2>3. \A n \in 1..Len(Units) : p[n] = p[n - 1]
    BY <2>2
  <2>4. \A a : a \notin GroupAmounts(<<>>, p)
    BY <2>3, GroupAmountsAre
  <2>5. amounts' = GroupAmounts(<<>>, p)
    BY <2>1, <2>4
  <2>6. Passed(p)'
    BY <2>1, <2>2, <2>5 DEF Passed
  <2> QED
    BY <2>1, <2>2, <2>6 DEF SpanInv
<1>6. CASE UNCHANGED spanVars
  BY <1>6 DEF spanVars, SpanInv, Passed
<1> QED
  BY <1>1, <1>2, <1>3, <1>4, <1>5, <1>6 DEF SpanNext


\* When all units have been tried the places are those of the match that the
\* regular expression prefers.
LEMMA PassedPreferred ==
  ASSUME NEW p, Passed(p), unit = Len(Units) + 1, span \in Seq(STRING)
  PROVE  p \in GroupEnds(span) /\ \A g \in GroupEnds(span) : Preferred(p, g)
<1> USE UnitsLength
<1>1. /\ p \in [0..Len(Units) -> 1..(Len(span) + 1)] /\ p[0] = 1
      /\ \A n \in 1..Len(Units) :
           IF p[n] = p[n - 1] THEN \A j \in 1..(Len(span) + 1) : ~Group(span, n, p[n - 1], j)
                              ELSE Group(span, n, p[n - 1], p[n])
  BY DEF Passed
<1>2. p \in GroupEnds(span)
  BY <1>1 DEF GroupEnds
<1>3. ASSUME NEW g \in GroupEnds(span), p # g PROVE Preferred(p, g)
  <2> DEFINE D == {n \in 0..Len(Units) : p[n] # g[n]}
  <2>1. /\ g \in [0..Len(Units) -> 1..(Len(span) + 1)] /\ g[0] = 1
        /\ \A n \in 1..Len(Units) : g[n] # g[n - 1] => Group(span, n, g[n - 1], g[n])
    BY DEF GroupEnds
  <2>2. D # {} /\ D \subseteq Nat
    BY <1>1, <1>3, <2>1, SMTT(30)
  <2>3. PICK n \in D : \A m \in D : n <= m
    BY <2>2, LeastNumber
  <2>4. n \in 1..Len(Units) /\ p[n] # g[n]
    BY <1>1, <2>1, <2>3
  <2>5. \A k \in 0..(n - 1) : p[k] = g[k]
    <3> TAKE k \in 0..(n - 1)
    <3>1. k \in 0..Len(Units) /\ ~(n <= k)
      BY <2>4
    <3> QED
      BY <2>3, <3>1
  <2>6. p[n - 1] = g[n - 1] /\ g[n] \in 1..(Len(span) + 1)
    BY <2>1, <2>4, <2>5
  <2>7. p[n] # p[n - 1]
    <3> SUFFICES ASSUME p[n] = p[n - 1] PROVE FALSE
      OBVIOUS
    <3>1. ~Group(span, n, p[n - 1], g[n])
      BY <1>1, <2>4, <2>6
    <3>2. Group(span, n, g[n - 1], g[n])
      BY <2>1, <2>4, <2>6
    <3> QED
      BY <2>6, <3>1, <3>2
  <2> QED
    BY <2>4, <2>5, <2>7 DEF Preferred
<1> QED
  BY <1>2, <1>3 DEF Preferred

\* There is one such match.
LEMMA PreferredUnique ==
  ASSUME NEW s \in Seq(STRING), NEW f \in GroupEnds(s), NEW g \in GroupEnds(s),
         Preferred(f, g), Preferred(g, f)
  PROVE  f = g
<1> USE UnitsLength
<1> SUFFICES ASSUME f # g PROVE FALSE
  OBVIOUS
<1>1. /\ f \in [0..Len(Units) -> 1..(Len(s) + 1)] /\ g \in [0..Len(Units) -> 1..(Len(s) + 1)]
      /\ \A n \in 1..Len(Units) : f[n] # f[n - 1] => Group(s, n, f[n - 1], f[n])
      /\ \A n \in 1..Len(Units) : g[n] # g[n - 1] => Group(s, n, g[n - 1], g[n])
  BY DEF GroupEnds
<1>2. PICK n \in 1..Len(Units) :
        (\A k \in 0..(n - 1) : f[k] = g[k]) /\ f[n] # g[n] /\ f[n] # f[n - 1]
  BY DEF Preferred
<1>3. PICK m \in 1..Len(Units) :
        (\A k \in 0..(m - 1) : g[k] = f[k]) /\ g[m] # f[m] /\ g[m] # g[m - 1]
  BY DEF Preferred
<1>4. ~(n < m) /\ ~(m < n)
  BY <1>2, <1>3
<1>5. n = m
  BY <1>4
<1>6. f[n - 1] = g[n - 1]
  BY <1>2
<1>7. Group(s, n, f[n - 1], f[n]) /\ Group(s, n, f[n - 1], g[n])
  BY <1>1, <1>2, <1>3, <1>5, <1>6
<1>8. n \in 0..Len(Units) /\ n - 1 \in 0..Len(Units) /\ Len(s) \in Nat
  OBVIOUS
<1>9. f[n - 1] \in 1..(Len(s) + 1) /\ f[n] \in 1..(Len(s) + 1) /\ g[n] \in 1..(Len(s) + 1)
  BY <1>1, <1>8
<1>10. f[n] = g[n]
  BY <1>7, <1>8, <1>9, GroupUnique
<1> QED
  BY <1>2, <1>10

\* So the amounts are those of the regular expression.
LEMMA SpanParsedLikeRegex == SpanInv => ParsedLikeRegex
<1> SUFFICES ASSUME SpanInv, spanning \in {"done", "failed"}
             PROVE  LET matches == GroupEnds(span)
                        f == CHOOSE f \in matches : \A g \in matches : Preferred(f, g)
                    IN /\ amounts = GroupAmounts(span, f)
                       /\ spanning = "failed" <=> amounts = {}
  BY DEF ParsedLikeRegex
<1> DEFINE matches == GroupEnds(span)
           f == CHOOSE f \in matches : \A g \in matches : Preferred(f, g)
<1>1. unit = Len(Units) + 1 /\ span \in Seq(STRING) /\ (spanning = "failed" <=> amounts = {})
  BY DEF SpanInv
<1>2. PICK p \in [0..Len(Units) -> 1..(Len(span) + 1)] : Passed(p)
  BY DEF SpanInv
<1>3. p \in matches /\ \A g \in matches : Preferred(p, g)
  BY <1>1, <1>2, PassedPreferred
<1>4. f \in matches /\ \A g \in matches : Preferred(f, g)
  BY <1>3
<1>5. f = p
  BY <1>1, <1>3, <1>4, PreferredUnique
<1>6. amounts = GroupAmounts(span, p)
  BY <1>2 DEF Passed
<1> QED
  BY <1>1, <1>5, <1>6

\* parse_date_string (date_time.rs:98-139) finds in every string the amounts that
\* the groups of _tz.py's regular expression match, whichever parts the string has,
\* in whatever order and whatever follows them, and fails exactly when no group
\* takes part.
THEOREM ParsedLikeRegexTheorem == DrawSpec => []ParsedLikeRegex
<1>1. DrawInit => SpanInv
  BY SpanInitially DEF DrawInit
<1> QED
  BY <1>1, SpanSteps, SpanInductive, SpanParsedLikeRegex, PTL DEF DrawSpec

-----------------------------------------------------------------------------
(* Placeholders, for any texts and letters                                 *)

\* The characters, with those that the code names.
Chars == STRING \cup {"0", "1", "2", "f", "A", "?", "%", "-", "O", "R"}

\* The powers of ten.
LEMMA TenToIs ==
  /\ TenTo[0] = 1
  /\ \A n \in 1..MaxDigits : TenTo[n] = 10 * TenTo[n - 1]
  /\ \A n \in 0..MaxDigits : TenTo[n] \in Nat \ {0}
<1> DEFINE M == MaxDigits
           T == Nat \ {0}
           step(c) == [n \in 0..M |-> IF n = 0 THEN 1 ELSE 10 * c[n - 1]]
           W == [n \in 0..M |-> T]
           h == [n \in 0..M |-> [x \in T |-> 10 * x]]
<1>1. M \in Nat
  BY PlaceholderAssumption
<1>2. ASSUME NEW n \in 1..M, NEW x \in W[n - 1]
      PROVE  h[n][x] = 10 * x /\ h[n][x] \in W[n]
  <2>1. n \in 0..M /\ n - 1 \in 0..M
    BY <1>1
  <2>2. x \in T /\ 10 * x \in T
    BY <2>1
  <2> HIDE DEF M, T
  <2> QED
    BY <2>1, <2>2
<1>3. PICK f : Solves(f, 0, M, W, 1, h)
  <2>1. M \in Int /\ 0 \in Int /\ 0 <= M /\ 1 \in W[0]
    BY <1>1
  <2>2. \A n \in (0 + 1)..M : \A x \in W[n - 1] : h[n][x] \in W[n]
    <3>1. 0 + 1 = 1
      OBVIOUS
    <3> HIDE DEF W, h
    <3> QED
      BY <1>2, <3>1
  <2> HIDE DEF W, h, M
  <2> QED
    BY <2>1, <2>2, Recursion, Zenon
<1>4. f = step(f)
  <2>1. f = [n \in 0..M |-> f[n]] /\ f[0] = 1
    BY <1>3 DEF Solves
  <2>2. ASSUME NEW n \in 0..M, n # 0 PROVE f[n] = 10 * f[n - 1]
    <3>1. n \in 1..M /\ n - 1 \in 0..M /\ n \in (0 + 1)..M
      BY <1>1, <2>2
    <3> HIDE DEF W, h
    <3>2. f[n] = h[n][f[n - 1]] /\ f[n - 1] \in W[n - 1]
      BY <1>3, <3>1 DEF Solves
    <3> QED
      BY <1>2, <3>1, <3>2
  <2>3. ASSUME NEW n \in 0..M PROVE f[n] = IF n = 0 THEN 1 ELSE 10 * f[n - 1]
    BY <2>1, <2>2, Zenon
  <2> QED
    BY <2>1, <2>3, Zenon
<1>5. TenTo = step(TenTo)
  BY <1>4 DEF TenTo
<1>6. TenTo[0] = 1 /\ \A n \in 1..M : TenTo[n] = 10 * TenTo[n - 1]
  <2>1. \A n \in 0..M : TenTo[n] = IF n = 0 THEN 1 ELSE 10 * TenTo[n - 1]
    BY <1>5, Zenon
  <2>2. 0 \in 0..M /\ \A n \in 1..M : n \in 0..M /\ n # 0
    BY <1>1
  <2> QED
    BY <2>1, <2>2, Zenon
<1> DEFINE S == {n \in 0..M : TenTo[n] \in T}
<1>7. 0 \in S
  BY <1>1, <1>6
<1>8. ASSUME NEW n \in (0 + 1)..M, n - 1 \in S PROVE n \in S
  <2>1. n \in 1..M /\ n \in 0..M /\ TenTo[n - 1] \in T
    BY <1>1, <1>8
  <2>2. TenTo[n] = 10 * TenTo[n - 1]
    BY <1>6, <2>1
  <2> QED
    BY <2>1, <2>2
<1>9. \A n \in 0..M : n \in S
  <2>1. M \in Int /\ 0 \in Int
    BY <1>1
  <2> HIDE DEF S
  <2> QED
    BY <1>7, <1>8, <2>1, Induction
<1> QED
  BY <1>6, <1>9

\* They grow.
LEMMA TenToGrows ==
  ASSUME NEW a \in 0..MaxDigits, NEW b \in 0..MaxDigits, a < b
  PROVE  TenTo[a] < TenTo[b]
<1> USE TenToIs
<1> DEFINE S == {n \in (a + 1)..b : TenTo[a] < TenTo[n]}
<1>1. a \in Nat /\ b \in Nat /\ MaxDigits \in Nat
  BY PlaceholderAssumption
<1>2. a + 1 \in S
  <2>1. a + 1 \in 1..MaxDigits /\ (a + 1) - 1 = a /\ a + 1 \in (a + 1)..b
    BY <1>1
  <2>2. TenTo[a + 1] = 10 * TenTo[a] /\ TenTo[a] \in Nat \ {0}
    BY <2>1
  <2> QED
    BY <2>1, <2>2
<1>3. ASSUME NEW n \in (a + 1 + 1)..b, n - 1 \in S PROVE n \in S
  <2>1. n \in (a + 1)..b /\ n \in 1..MaxDigits /\ n - 1 \in 0..MaxDigits
    BY <1>1
  <2>2. TenTo[n] = 10 * TenTo[n - 1] /\ TenTo[n - 1] \in Nat \ {0} /\ TenTo[a] < TenTo[n - 1]
        /\ TenTo[a] \in Nat
    BY <1>3, <2>1
  <2> QED
    BY <2>1, <2>2
<1>4. a + 1 \in Int /\ b \in Int /\ b \in (a + 1)..b
  BY <1>1
<1> HIDE DEF S
<1>5. \A n \in (a + 1)..b : n \in S
  BY <1>2, <1>3, <1>4, Induction
<1>6. b \in S
  BY <1>4, <1>5
<1> QED
  BY <1>6 DEF S

\* So a number between two of them has as many digits as the larger one has zeros.
LEMMA DigitsAreOf ==
  ASSUME NEW d \in 0..MaxDigits, NEW n \in Nat, n < TenTo[d],
         d > 0 => n >= TenTo[d - 1]
  PROVE  DigitsOf(n) = d
<1> USE TenToIs
<1>1. \A e \in 0..(d - 1) : n >= TenTo[e]
  <2> TAKE e \in 0..(d - 1)
  <2>1. e \in 0..MaxDigits /\ d - 1 \in 0..MaxDigits /\ d > 0
    BY PlaceholderAssumption
  <2>2. TenTo[e] <= TenTo[d - 1]
    BY <2>1, TenToGrows
  <2>3. n >= TenTo[d - 1] /\ TenTo[e] \in Nat /\ TenTo[d - 1] \in Nat
    BY <2>1
  <2> QED
    BY <2>2, <2>3
<1>2. ASSUME NEW m \in 0..MaxDigits, n < TenTo[m], \A e \in 0..(m - 1) : n >= TenTo[e]
      PROVE  m = d
  <2>1. ~(m < d)
    <3> SUFFICES ASSUME m < d PROVE FALSE
      OBVIOUS
    <3>1. m \in 0..(d - 1) /\ TenTo[m] \in Nat
      OBVIOUS
    <3> QED
      BY <1>1, <1>2, <3>1
  <2>2. ~(d < m)
    <3> SUFFICES ASSUME d < m PROVE FALSE
      OBVIOUS
    <3>1. d \in 0..(m - 1) /\ TenTo[d] \in Nat
      OBVIOUS
    <3> QED
      BY <1>2, <3>1
  <2> QED
    BY <2>1, <2>2
<1> QED
  BY <1>1, <1>2 DEF DigitsOf

\* What a pass writes for a character is one character or none.
LEMMA WrittenShape ==
  ASSUME NEW c \in Chars, NEW letters \in SUBSET Chars,
         NEW pass \in {"digits", "letters", "both", "hex"}, NEW r \in WrittenFor(pass, c, letters)
  PROVE  r = <<>> \/ \E x \in Chars : r = <<x>>
<1>1. \A n \in {0, 1, 2} : \A d \in Digit(n) : \E x \in Chars : d = <<x>>
  BY DEF Digit, Chars
<1>2. \A d \in NumberFor(c) : d = <<>> \/ \E x \in Chars : d = <<x>>
  BY <1>1 DEF NumberFor
<1>3. \A l \in SUBSET Chars : \A d \in LetterFor(c, l) : \E x \in Chars : d = <<x>>
  BY DEF LetterFor
<1>4. \A d \in BothFor(c) : d = <<>> \/ \E x \in Chars : d = <<x>>
  BY <1>2, <1>3, PlaceholderAssumption DEF BothFor, Chars
<1>5. \A d \in HexFor(c) : \E x \in Chars : d = <<x>>
  BY DEF HexFor, Chars
<1> QED
  BY <1>2, <1>3, <1>4, <1>5 DEF WrittenFor


\* What a pass wrote for a character is at b in w, unless it wrote nothing.
Piece(pass, letters, c, w, a, b) ==
  \/ b = a /\ <<>> \in WrittenFor(pass, c, letters)
  \/ b = a + 1 /\ <<w[b]>> \in WrittenFor(pass, c, letters)

\* w is what it wrote for the first n characters of u.
Copied(pass, letters, u, n, w) ==
  \E f \in [0..n -> 0..Len(w)] :
    /\ f[0] = 0 /\ f[n] = Len(w)
    /\ \A k \in 1..n : Piece(pass, letters, u[k], w, f[k - 1], f[k])

\* Such places make a text one that is filled in.
LEMMA FilledInPlaces ==
  ASSUME NEW ask, NEW s, NEW r, Len(s) \in Nat, Len(r) \in Nat,
         NEW f \in [0..Len(s) -> 0..Len(r)], f[0] = 0, f[Len(s)] = Len(r),
         \A k \in 1..Len(s) :
           f[k - 1] <= f[k] /\ SubSeq(r, f[k - 1] + 1, f[k]) \in StandsFor(ask, s[k])
  PROVE  FilledIn(ask, s, r)
<1> DEFINE N == Len(s)
           T == SUBSET (0..Len(r))
           Ends(n, X) == UNION {{j \in i..Len(r) : SubSeq(r, i + 1, j) \in StandsFor(ask, s[n])} :
                                  i \in X}
           step(c) == [n \in 0..N |-> IF n = 0 THEN {0} ELSE Ends(n, c[n - 1])]
           upTo[n \in 0..N] ==
             IF n = 0 THEN {0}
             ELSE UNION {{j \in i..Len(r) : SubSeq(r, i + 1, j) \in StandsFor(ask, s[n])} :
                           i \in upTo[n - 1]}
           W == [n \in 0..N |-> T]
           h == [n \in 0..N |-> [x \in T |-> Ends(n, x)]]
<1>1. N \in Nat
  OBVIOUS
<1>2. \A n, X : \A j : j \in Ends(n, X)
        <=> \E i \in X : j \in i..Len(r) /\ SubSeq(r, i + 1, j) \in StandsFor(ask, s[n])
  OBVIOUS
<1>3. ASSUME NEW n, NEW X \in T PROVE Ends(n, X) \in T
  BY <1>2
<1>4. {0} \in T
  OBVIOUS
<1> HIDE DEF Ends, T, N
<1>5. ASSUME NEW n \in 1..N, NEW x \in W[n - 1]
      PROVE  h[n][x] = Ends(n, x) /\ h[n][x] \in W[n]
  <2>1. n \in 0..N /\ n - 1 \in 0..N
    BY <1>1
  <2>2. x \in T /\ Ends(n, x) \in T
    BY <1>3, <2>1
  <2> QED
    BY <2>1, <2>2
<1>6. PICK g : Solves(g, 0, N, W, {0}, h)
  <2>1. N \in Int /\ 0 \in Int /\ 0 <= N /\ {0} \in W[0]
    BY <1>1, <1>4
  <2>2. \A n \in (0 + 1)..N : \A x \in W[n - 1] : h[n][x] \in W[n]
    <3>1. 0 + 1 = 1
      OBVIOUS
    <3> HIDE DEF W, h
    <3> QED
      BY <1>5, <3>1
  <2> HIDE DEF W, h
  <2> QED
    BY <2>1, <2>2, Recursion, Zenon
<1>7. g = step(g)
  <2>1. g = [n \in 0..N |-> g[n]] /\ g[0] = {0}
    BY <1>6 DEF Solves
  <2>2. ASSUME NEW n \in 0..N, n # 0 PROVE g[n] = Ends(n, g[n - 1])
    <3>1. n \in 1..N /\ n - 1 \in 0..N /\ n \in (0 + 1)..N
      BY <1>1, <2>2
    <3> HIDE DEF W, h
    <3>2. g[n] = h[n][g[n - 1]] /\ g[n - 1] \in W[n - 1]
      BY <1>6, <3>1 DEF Solves
    <3> QED
      BY <1>5, <3>1, <3>2
  <2>3. ASSUME NEW n \in 0..N PROVE g[n] = IF n = 0 THEN {0} ELSE Ends(n, g[n - 1])
    BY <2>1, <2>2, Zenon
  <2> QED
    BY <2>1, <2>3, Zenon
<1>8. upTo = step(upTo)
  BY <1>7 DEF Ends
<1>9. FilledIn(ask, s, r) <=> Len(r) \in upTo[N]
  BY DEF FilledIn, N
<1> HIDE DEF upTo
<1>10. upTo[0] = {0} /\ \A n \in 1..N : upTo[n] = Ends(n, upTo[n - 1])
  <2>1. \A n \in 0..N : upTo[n] = IF n = 0 THEN {0} ELSE Ends(n, upTo[n - 1])
    BY <1>8, Zenon
  <2>2. 0 \in 0..N /\ \A n \in 1..N : n \in 0..N /\ n # 0
    BY <1>1
  <2> QED
    BY <2>1, <2>2, Zenon
<1> DEFINE S == {n \in 0..N : f[n] \in upTo[n]}
<1>11. 0 \in S
  BY <1>1, <1>10
<1>12. ASSUME NEW n \in (0 + 1)..N, n - 1 \in S PROVE n \in S
  <2>1. n \in 1..N /\ n \in 0..N /\ n - 1 \in 0..N /\ f[n - 1] \in upTo[n - 1]
    BY <1>1, <1>12
  <2>2. f[n - 1] <= f[n] /\ SubSeq(r, f[n - 1] + 1, f[n]) \in StandsFor(ask, s[n])
    BY <2>1 DEF N
  <2>3. f[n] \in 0..Len(r) /\ f[n - 1] \in 0..Len(r)
    BY <2>1 DEF N
  <2>4. f[n] \in f[n - 1]..Len(r)
    BY <2>2, <2>3
  <2>5. f[n] \in Ends(n, upTo[n - 1])
    BY <1>2, <2>1, <2>2, <2>4
  <2> QED
    BY <1>10, <2>1, <2>5
<1>13. \A n \in 0..N : n \in S
  <2>1. N \in Int /\ 0 \in Int
    BY <1>1
  <2> HIDE DEF S
  <2> QED
    BY <1>11, <1>12, <2>1, Induction
<1>14. f[N] \in upTo[N] /\ f[N] = Len(r)
  BY <1>1, <1>13 DEF N
<1> QED
  BY <1>9, <1>14


\* The passes that a text of this kind goes through once.
Once(ask, pass) ==
  /\ PassesOf(ask.kind) = <<pass>> /\ ask.kind # "number"
  /\ ask.kind \in {"postcode", "ripe_id", "nic_handle"} => ask.letters = DefaultLetters

\* What a pass writes is then what stands for a character in the end.
LEMMA OnceWritten ==
  ASSUME NEW ask, NEW pass, Once(ask, pass), NEW c
  PROVE  WrittenFor(pass, c, ask.letters) = Substitutes(ask, c)
<1>1. CASE ask.kind = "bothify"
  BY <1>1 DEF Once, PassesOf, BothPasses
<1>2. CASE ask.kind = "lexify"
  <2>1. pass = "letters"
    BY <1>2 DEF Once, PassesOf
  <2> QED
    BY <1>2, <2>1 DEF WrittenFor, Substitutes
<1>3. CASE ask.kind = "hexify"
  <2>1. pass = "hex"
    BY <1>3 DEF Once, PassesOf
  <2> QED
    BY <1>3, <2>1 DEF WrittenFor, Substitutes
<1>4. CASE ask.kind \in {"postcode", "ripe_id", "nic_handle"}
  <2>1. pass = "both" /\ ask.letters = DefaultLetters
    BY <1>4 DEF Once, PassesOf
  <2>2. WrittenFor(pass, c, ask.letters) = BothFor(c)
    BY <2>1 DEF WrittenFor
  <2>3. Substitutes(ask, c) = IF c = "?" THEN LetterFor(c, ask.letters) ELSE NumberFor(c)
    BY <1>4 DEF Substitutes
  <2> QED
    BY <2>1, <2>2, <2>3 DEF BothFor
<1>5. CASE ask.kind \notin {"bothify", "lexify", "hexify", "postcode", "ripe_id", "nic_handle"}
  <2>1. pass = "digits"
    BY <1>5 DEF Once, PassesOf
  <2> QED
    BY <1>5, <2>1 DEF WrittenFor, Substitutes
<1> QED
  BY <1>1, <1>2, <1>3, <1>4, <1>5

\* Upper case, character by character.
LEMMA StandsForIs ==
  ASSUME NEW ask, NEW c
  PROVE  /\ <<>> \in Substitutes(ask, c) => <<>> \in StandsFor(ask, c)
         /\ \A x : <<x>> \in Substitutes(ask, c)
              => (IF InUpper(ask.kind) THEN <<Upper(x)>> ELSE <<x>>) \in StandsFor(ask, c)
<1>1. Uppercase(<<>>) = <<>>
  BY DEF Uppercase
<1>2. \A x : Uppercase(<<x>>) = <<Upper(x)>>
  BY DEF Uppercase
<1> QED
  BY <1>1, <1>2 DEF StandsFor

\* What is written in the end.
Printed(ask, w) == IF InUpper(ask.kind) THEN Uppercase(w) ELSE w

\* A stretch of one character.
LEMMA OneCharacter ==
  ASSUME NEW S, NEW r \in Seq(S), NEW j \in 1..Len(r)
  PROVE  SubSeq(r, j, j) = <<r[j]>>
<1>1. SubSeq(r, j, j) = [i \in 1..1 |-> r[j + i - 1]]
  OBVIOUS
<1>2. \A i \in 1..1 : j + i - 1 = j
  OBVIOUS
<1>3. <<r[j]>> = [i \in 1..1 |-> r[j]]
  OBVIOUS
<1> QED
  BY <1>1, <1>2, <1>3

\* If all pieces are substitutes, the text is filled in.
LEMMA FilledInPieces ==
  ASSUME NEW ask, NEW s, NEW w \in Seq(Chars), Len(s) \in Nat,
         NEW f \in [0..Len(s) -> 0..Len(w)], f[0] = 0, f[Len(s)] = Len(w),
         \A k \in 1..Len(s) : \/ f[k] = f[k - 1] /\ <<>> \in Substitutes(ask, s[k])
                              \/ f[k] = f[k - 1] + 1 /\ <<w[f[k]]>> \in Substitutes(ask, s[k])
  PROVE  FilledIn(ask, s, Printed(ask, w))
<1> DEFINE r == Printed(ask, w)
<1>1. Len(w) \in Nat
  OBVIOUS
<1>2. \A x \in Chars : Upper(x) \in Chars
  BY DEF Upper, Chars
<1>3. Uppercase(w) \in Seq(Chars) /\ Len(Uppercase(w)) = Len(w)
      /\ \A j \in 1..Len(w) : Uppercase(w)[j] = Upper(w[j])
  BY <1>1, <1>2 DEF Uppercase
<1>4. r \in Seq(Chars) /\ Len(r) = Len(w)
      /\ \A j \in 1..Len(w) : r[j] = IF InUpper(ask.kind) THEN Upper(w[j]) ELSE w[j]
  BY <1>3 DEF Printed
<1> HIDE DEF r
<1>5. ASSUME NEW k \in 1..Len(s)
      PROVE  f[k - 1] <= f[k] /\ SubSeq(r, f[k - 1] + 1, f[k]) \in StandsFor(ask, s[k])
  <2>1. k \in 0..Len(s) /\ k - 1 \in 0..Len(s)
    OBVIOUS
  <2>2. f[k] \in 0..Len(w) /\ f[k - 1] \in 0..Len(w)
    BY <2>1
  <2>3. CASE f[k] = f[k - 1] /\ <<>> \in Substitutes(ask, s[k])
    <3>1. SubSeq(r, f[k - 1] + 1, f[k]) = <<>>
      BY <1>1, <1>4, <2>2, <2>3
    <3>2. <<>> \in StandsFor(ask, s[k])
      BY <2>3, StandsForIs
    <3>3. f[k - 1] <= f[k]
      BY <2>2, <2>3
    <3> QED
      BY <3>1, <3>2, <3>3
  <2>4. CASE f[k] = f[k - 1] + 1 /\ <<w[f[k]]>> \in Substitutes(ask, s[k])
    <3>1. f[k] \in 1..Len(w)
      BY <1>1, <2>2, <2>4
    <3>2. SubSeq(r, f[k], f[k]) = <<r[f[k]]>>
      BY <1>4, <3>1, OneCharacter
    <3>3. <<r[f[k]]>> \in StandsFor(ask, s[k])
      BY <1>4, <2>4, <3>1, StandsForIs
    <3>4. f[k - 1] <= f[k] /\ f[k - 1] + 1 = f[k]
      BY <2>2, <2>4
    <3> QED
      BY <3>2, <3>3, <3>4
  <2> QED
    BY <2>3, <2>4
<1>6. f \in [0..Len(s) -> 0..Len(r)] /\ f[Len(s)] = Len(r) /\ Len(r) \in Nat
  BY <1>1, <1>4
<1> QED
  BY <1>5, <1>6, FilledInPlaces DEF r

\* One pass over the text fills it in.
LEMMA OncePasses ==
  ASSUME NEW ask, NEW pass, Once(ask, pass), NEW s, Len(s) \in Nat, NEW w \in Seq(Chars),
         Copied(pass, ask.letters, s, Len(s), w)
  PROVE  FilledIn(ask, s, Printed(ask, w))
<1>1. PICK f \in [0..Len(s) -> 0..Len(w)] :
        /\ f[0] = 0 /\ f[Len(s)] = Len(w)
        /\ \A k \in 1..Len(s) : Piece(pass, ask.letters, s[k], w, f[k - 1], f[k])
  BY DEF Copied
<1>2. \A k \in 1..Len(s) : \/ f[k] = f[k - 1] /\ <<>> \in Substitutes(ask, s[k])
                           \/ f[k] = f[k - 1] + 1 /\ <<w[f[k]]>> \in Substitutes(ask, s[k])
  BY <1>1, OnceWritten DEF Piece
<1> QED
  BY <1>1, <1>2, FilledInPieces


\* The letters are written character by character.
LEMMA LettersPass ==
  ASSUME NEW letters, NEW m, Len(m) \in Nat, NEW w, Len(w) \in Nat,
         Copied("letters", letters, m, Len(m), w)
  PROVE  Len(w) = Len(m) /\ \A k \in 1..Len(m) : <<w[k]>> \in LetterFor(m[k], letters)
<1>1. PICK f \in [0..Len(m) -> 0..Len(w)] :
        /\ f[0] = 0 /\ f[Len(m)] = Len(w)
        /\ \A k \in 1..Len(m) : Piece("letters", letters, m[k], w, f[k - 1], f[k])
  BY DEF Copied
<1>2. \A c : WrittenFor("letters", c, letters) = LetterFor(c, letters)
  BY DEF WrittenFor
<1>3. \A c : <<>> \notin LetterFor(c, letters)
  BY DEF LetterFor
<1>4. \A k \in 1..Len(m) : f[k] = f[k - 1] + 1 /\ <<w[f[k]]>> \in LetterFor(m[k], letters)
  BY <1>1, <1>2, <1>3 DEF Piece
<1> DEFINE S == {k \in 0..Len(m) : f[k] = k}
<1>5. 0 \in S
  BY <1>1
<1>6. ASSUME NEW k \in (0 + 1)..Len(m), k - 1 \in S PROVE k \in S
  <2>1. k \in 1..Len(m) /\ k \in 0..Len(m) /\ f[k - 1] = k - 1
    BY <1>6
  <2>2. f[k] = f[k - 1] + 1
    BY <1>4, <2>1
  <2> QED
    BY <2>1, <2>2
<1>7. \A k \in 0..Len(m) : k \in S
  <2>1. Len(m) \in Int /\ 0 \in Int
    OBVIOUS
  <2> HIDE DEF S
  <2> QED
    BY <1>5, <1>6, <2>1, Induction
<1>8. \A k \in 0..Len(m) : f[k] = k
  BY <1>7
<1>9. Len(m) \in 0..Len(m) /\ \A k \in 1..Len(m) : k \in 0..Len(m)
  OBVIOUS
<1> QED
  BY <1>1, <1>4, <1>8, <1>9

\* bothify puts the letters into what numerify wrote: no digit is a "?".
LEMMA TwicePasses ==
  ASSUME NEW ask, ask.kind = "bothify", NEW s, Len(s) \in Nat,
         NEW m \in Seq(Chars), NEW w \in Seq(Chars),
         Copied("digits", ask.letters, s, Len(s), m), Copied("letters", ask.letters, m, Len(m), w)
  PROVE  FilledIn(ask, s, Printed(ask, w))
<1>1. Len(m) \in Nat /\ Len(w) \in Nat
  OBVIOUS
<1>2. Len(w) = Len(m) /\ \A k \in 1..Len(m) : <<w[k]>> \in LetterFor(m[k], ask.letters)
  BY <1>1, LettersPass
<1>3. PICK f \in [0..Len(s) -> 0..Len(m)] :
        /\ f[0] = 0 /\ f[Len(s)] = Len(m)
        /\ \A k \in 1..Len(s) : Piece("digits", ask.letters, s[k], m, f[k - 1], f[k])
  BY DEF Copied
<1>4. \A c : WrittenFor("digits", c, ask.letters) = NumberFor(c)
  BY DEF WrittenFor
<1>5. \A c : Substitutes(ask, c)
               = IF c = "?" THEN LetterFor(c, ask.letters) ELSE NumberFor(c)
  BY DEF Substitutes
<1>6. <<>> \notin NumberFor("?") /\ \A x : <<x>> \in NumberFor("?") => x = "?"
  BY DEF NumberFor
<1>7. \A c : c # "?" => \A x : <<x>> \in NumberFor(c) => x # "?"
  BY DEF NumberFor, Digit
<1>8. \A c, x : c # "?" /\ <<x>> \in LetterFor(c, ask.letters) => x = c
  BY DEF LetterFor
<1>9. ASSUME NEW k \in 1..Len(s)
      PROVE  \/ f[k] = f[k - 1] /\ <<>> \in Substitutes(ask, s[k])
             \/ f[k] = f[k - 1] + 1 /\ <<w[f[k]]>> \in Substitutes(ask, s[k])
  <2>1. k \in 0..Len(s) /\ k - 1 \in 0..Len(s)
    OBVIOUS
  <2>2. f[k] \in 0..Len(m) /\ f[k - 1] \in 0..Len(m)
    BY <2>1
  <2>3. CASE f[k] = f[k - 1] /\ <<>> \in NumberFor(s[k])
    <3>1. s[k] # "?"
      BY <1>6, <2>3
    <3> QED
      BY <1>5, <2>3, <3>1
  <2>4. CASE f[k] = f[k - 1] + 1 /\ <<m[f[k]]>> \in NumberFor(s[k])
    <3>1. f[k] \in 1..Len(m)
      BY <1>1, <2>2, <2>4
    <3>2. <<w[f[k]]>> \in LetterFor(m[f[k]], ask.letters)
      BY <1>2, <3>1
    <3>3. CASE s[k] = "?"
      <4>1. m[f[k]] = "?"
        BY <1>6, <2>4, <3>3
      <4> QED
        BY <1>5, <2>4, <3>2, <3>3, <4>1
    <3>4. CASE s[k] # "?"
      <4>1. m[f[k]] # "?"
        BY <1>7, <2>4, <3>4
      <4>2. w[f[k]] = m[f[k]]
        BY <1>8, <3>2, <4>1
      <4> QED
        BY <1>5, <2>4, <3>4, <4>2
    <3> QED
      BY <3>3, <3>4
  <2> QED
    BY <1>3, <1>4, <2>3, <2>4 DEF Piece
<1>10. f \in [0..Len(s) -> 0..Len(w)] /\ f[Len(s)] = Len(w)
  BY <1>2, <1>3
<1> QED
  BY <1>3, <1>9, <1>10, FilledInPieces

\* One more character is read.
LEMMA CopyOne ==
  ASSUME NEW pass, NEW letters, NEW u, Len(u) \in Nat, NEW n \in 0..(Len(u) - 1),
         NEW w \in Seq(Chars), Copied(pass, letters, u, n, w),
         NEW r \in WrittenFor(pass, u[n + 1], letters), r = <<>> \/ \E x \in Chars : r = <<x>>
  PROVE  w \o r \in Seq(Chars) /\ Copied(pass, letters, u, n + 1, w \o r)
<1> DEFINE v == w \o r
           e == Len(v)
<1>1. Len(w) \in Nat
  OBVIOUS
<1>2. r \in Seq(Chars) /\ (r # <<>> => Len(r) = 1 /\ r = <<r[1]>>) /\ Len(r) \in {0, 1}
  <2>1. CASE r = <<>>
    BY <2>1
  <2>2. CASE r # <<>>
    <3>1. PICK x \in Chars : r = <<x>>
      BY <2>2
    <3> QED
      BY <3>1
  <2> QED
    BY <2>1, <2>2
<1>3. v \in Seq(Chars) /\ e = Len(w) + Len(r) /\ e \in Nat
      /\ \A j \in 1..Len(w) : v[j] = w[j]
  BY <1>1, <1>2
<1>4. Piece(pass, letters, u[n + 1], v, Len(w), e)
  <2>1. CASE r = <<>>
    <3>1. e = Len(w)
      BY <1>1, <1>3, <2>1
    <3> QED
      BY <2>1, <3>1 DEF Piece
  <2>2. CASE r # <<>>
    <3>1. Len(r) = 1 /\ r = <<r[1]>>
      BY <1>2, <2>2
    <3>2. e = Len(w) + 1 /\ v[e] = r[1]
      BY <1>1, <1>2, <1>3, <3>1
    <3> HIDE DEF v, e
    <3> QED
      BY <3>1, <3>2 DEF Piece
  <2> QED
    BY <2>1, <2>2
<1>5. PICK f \in [0..n -> 0..Len(w)] :
        /\ f[0] = 0 /\ f[n] = Len(w)
        /\ \A k \in 1..n : Piece(pass, letters, u[k], w, f[k - 1], f[k])
  BY DEF Copied
<1> HIDE DEF v, e
<1> DEFINE g == [k \in 0..(n + 1) |-> IF k <= n THEN f[k] ELSE e]
<1>6. g \in [0..(n + 1) -> 0..e]
  <2>1. \A k \in 0..n : f[k] \in 0..e
    BY <1>1, <1>2, <1>3, <1>5
  <2> QED
    BY <1>3, <2>1
<1>7. g[n + 1] = e /\ \A k \in 0..n : g[k] = f[k]
  OBVIOUS
<1> HIDE DEF g
<1>8. ASSUME NEW k \in 1..(n + 1) PROVE Piece(pass, letters, u[k], v, g[k - 1], g[k])
  <2>1. CASE k = n + 1
    <3>1. k - 1 = n /\ n \in 0..n
      BY <2>1
    <3> QED
      BY <1>4, <1>5, <1>7, <2>1, <3>1
  <2>2. CASE k # n + 1
    <3>1. k \in 1..n /\ k \in 0..n /\ k - 1 \in 0..n
      BY <2>2
    <3>2. Piece(pass, letters, u[k], w, f[k - 1], f[k]) /\ g[k] = f[k] /\ g[k - 1] = f[k - 1]
      BY <1>5, <1>7, <3>1
    <3>3. f[k] \in 0..Len(w) /\ f[k - 1] \in 0..Len(w)
      BY <1>5, <3>1
    <3>4. f[k] = f[k - 1] + 1 => v[f[k]] = w[f[k]]
      BY <1>1, <1>3, <3>3, SMTT(30)
    <3> QED
      BY <3>2, <3>4 DEF Piece
  <2> QED
    BY <2>1, <2>2
<1>9. g[0] = 0
  BY <1>5, <1>7
<1>10. Copied(pass, letters, u, n + 1, v)
  BY <1>6, <1>7, <1>8, <1>9 DEF Copied, e
<1> QED
  BY <1>3, <1>10 DEF v


\* The pass has read the first n characters of u.
Reading(pass, u) ==
  /\ filled \in Seq(Chars)
  /\ \E n \in 0..Len(u) : /\ left = SubSeq(u, n + 1, Len(u))
                          /\ Copied(pass, fillRequest.letters, u, n, filled)

\* While a text is filled in: the first pass reads the text, the second one of
\* bothify what the first one wrote.
Passing ==
  /\ fillRequest.kind # "number"
  /\ fillRequest.text \in Seq(Chars) /\ fillRequest.letters \in SUBSET Chars
  /\ fillRequest.kind \in {"postcode", "ripe_id", "nic_handle"} =>
       fillRequest.letters = DefaultLetters
  /\ \/ passes = PassesOf(fillRequest.kind) /\ Reading(passes[1], fillRequest.text)
     \/ /\ fillRequest.kind = "bothify" /\ passes = <<"letters">>
        /\ \E m \in Seq(Chars) :
             /\ Copied("digits", fillRequest.letters, fillRequest.text, Len(fillRequest.text), m)
             /\ Reading("letters", m)

\* The invariant of a substitution.
FillInv ==
  /\ filling \in {"idle", "filling", "done", "failed"}
  /\ filling = "idle" => filled = <<>>
  /\ filling = "filling" => Passing
  /\ ReplacedOnce

\* The passes of a kind.
LEMMA PassesAre ==
  ASSUME NEW kind
  PROVE  \/ kind = "bothify" /\ PassesOf(kind) = <<"digits", "letters">>
         \/ kind # "bothify" /\ \E pass \in {"digits", "letters", "both", "hex"} :
              PassesOf(kind) = <<pass>> /\ (pass = "letters" => kind = "lexify")
<1>1. kind = "bothify" => PassesOf(kind) = <<"digits", "letters">>
  BY DEF PassesOf, BothPasses
<1>2. kind = "lexify" => PassesOf(kind) = <<"letters">>
  BY DEF PassesOf
<1>3. kind = "hexify" => PassesOf(kind) = <<"hex">>
  BY DEF PassesOf
<1>4. kind \in {"postcode", "ripe_id", "nic_handle"} => PassesOf(kind) = <<"both">>
  BY DEF PassesOf
<1>5. kind \notin {"bothify", "lexify", "hexify", "postcode", "ripe_id", "nic_handle"}
        => PassesOf(kind) = <<"digits">>
  BY DEF PassesOf
<1> QED
  BY <1>1, <1>2, <1>3, <1>4, <1>5

\* Strings are texts.
LEMMA SeqChars ==
  ASSUME NEW s \in Seq(STRING)
  PROVE  s \in Seq(Chars)
<1>1. STRING \subseteq Chars
  BY DEF Chars
<1>2. s \in [1..Len(s) -> STRING] /\ Len(s) \in Nat
  OBVIOUS
<1>3. s \in [1..Len(s) -> Chars]
  BY <1>1, <1>2
<1> QED
  BY <1>2, <1>3

\* At first nothing is filled in.
LEMMA FillInitially == FillInit => FillInv
BY DEF FillInit, FillInv, ReplacedOnce

\* A call that begins has written nothing.
LEMMA BeginKeeps ==
  ASSUME FillInv, filling = "idle", NEW kind, kind # "number", NEW s \in Seq(Chars),
         NEW letters \in SUBSET Chars, Begin(kind, s, letters),
         kind \in {"postcode", "ripe_id", "nic_handle"} => letters = DefaultLetters
  PROVE  FillInv'
<1>1. /\ filling' = "filling" /\ fillRequest' = [kind |-> kind, text |-> s, letters |-> letters]
      /\ passes' = PassesOf(kind) /\ left' = s /\ filled' = <<>>
  BY DEF Begin, FillInv
<1>2. /\ fillRequest'.kind = kind /\ fillRequest'.text = s /\ fillRequest'.letters = letters
      /\ <<>> \in Seq(Chars) /\ Len(<<>>) = 0
  BY <1>1
<1>3. s = SubSeq(s, 0 + 1, Len(s)) /\ 0 \in 0..Len(s)
  OBVIOUS
<1>4. \A pass : Copied(pass, letters, s, 0, <<>>)
  <2> TAKE pass
  <2> DEFINE f == [k \in 0..0 |-> 0]
  <2>1. f \in [0..0 -> 0..Len(<<>>)] /\ f[0] = 0 /\ 1..0 = {}
    BY <1>2
  <2> QED
    BY <1>2, <2>1 DEF Copied
<1>5. \A pass : Reading(pass, s)'
  BY <1>1, <1>2, <1>3, <1>4 DEF Reading
<1>6. Passing'
  BY <1>1, <1>2, <1>5 DEF Passing
<1>7. ReplacedOnce'
  BY <1>1 DEF ReplacedOnce
<1> QED
  BY <1>1, <1>6, <1>7 DEF FillInv

\* A suffix that cannot do is refused.
LEMMA RefuseFill ==
  ASSUME FillInv, Refuse("nic_handle")
  PROVE  FillInv'
<1>1. filling' = "failed" /\ fillRequest'.kind = "nic_handle"
  BY DEF Refuse, NoFill
<1> QED
  BY <1>1 DEF FillInv, ReplacedOnce

\* A format is filled in with the default letters.
LEMMA AskFormatKeeps ==
  ASSUME FillInv, filling = "idle", NEW kind \in DOMAIN FormatTables, AskFormat(kind)
  PROVE  FillInv'
<1> DEFINE table == IF kind = "basic_phone_number" /\ FormatTables[kind] = {}
                      THEN FormatTables["phone_number"] ELSE FormatTables[kind]
<1>1. kind # "number" /\ table \subseteq Seq(STRING)
  BY PlaceholderAssumption
<1>2. DefaultLetters \in SUBSET Chars
  BY PlaceholderAssumption DEF Chars
<1>3. PICK s \in Seq(STRING) : Begin(kind, s, DefaultLetters)
  <2>1. (\E s \in table : Begin(kind, s, DefaultLetters)) \/ Begin(kind, <<>>, DefaultLetters)
    BY DEF AskFormat
  <2>2. <<>> \in Seq(STRING)
    OBVIOUS
  <2> HIDE DEF table
  <2> QED
    BY <1>1, <2>1, <2>2
<1>4. s \in Seq(Chars)
  BY SeqChars
<1> HIDE DEF table
<1> QED
  BY <1>1, <1>2, <1>3, <1>4, BeginKeeps

\* A handle is a text.
LEMMA HandleChars ==
  ASSUME NEW before \in Seq(Chars), NEW after \in Seq(Chars), NEW s \in Handle(before, after)
  PROVE  s \in Seq(Chars)
<1>1. PICK m \in 2..4, n \in 1..5 : s = InHandle(before, m, n, after)
  BY DEF Handle
<1>2. Placeholder("?", m) \in Seq(Chars) /\ Placeholder("%", n) \in Seq(Chars)
  BY DEF Chars, Placeholder
<1>3. before \o Placeholder("?", m) \in Seq(Chars)
  BY <1>2
<1>4. before \o Placeholder("?", m) \o Placeholder("%", n) \in Seq(Chars)
  BY <1>2, <1>3
<1>5. before \o Placeholder("?", m) \o Placeholder("%", n) \o after \in Seq(Chars)
  BY <1>4
<1> QED
  BY <1>1, <1>5 DEF InHandle

\* It is filled in with the default letters, too.
LEMMA AskHandleKeeps ==
  ASSUME FillInv, filling = "idle", AskRipe \/ \E suffix \in HandleEnds : AskNic(suffix)
  PROVE  FillInv'
<1>1. DefaultLetters \in SUBSET Chars
  BY PlaceholderAssumption DEF Chars
<1>2. CASE AskRipe
  <2>1. <<"O", "-">> \in Seq(Chars) /\ <<"-", "R">> \in Seq(Chars)
    BY DEF Chars
  <2>2. PICK s \in Handle(<<"O", "-">>, <<"-", "R">>) : Begin("ripe_id", s, DefaultLetters)
    BY <1>2 DEF AskRipe
  <2>3. s \in Seq(Chars)
    BY <2>1, HandleChars
  <2> QED
    BY <1>1, <2>2, <2>3, BeginKeeps
<1>3. ASSUME NEW suffix \in HandleEnds, AskNic(suffix) PROVE FillInv'
  <2>1. CASE Len(suffix) < 2
    BY <1>3, <2>1, RefuseFill DEF AskNic
  <2>2. CASE ~(Len(suffix) < 2)
    <3>1. PICK s \in Handle(<<>>, <<"-">> \o suffix) : Begin("nic_handle", s, DefaultLetters)
      BY <1>3, <2>2 DEF AskNic
    <3>2. suffix \in Seq(Chars)
      BY SeqChars, PlaceholderAssumption
    <3>3. <<"-">> \in Seq(Chars) /\ <<>> \in Seq(Chars)
      BY DEF Chars
    <3>4. <<"-">> \o suffix \in Seq(Chars)
      BY <3>2, <3>3
    <3>5. s \in Seq(Chars)
      BY <3>1, <3>3, <3>4, HandleChars
    <3> QED
      BY <1>1, <3>1, <3>5, BeginKeeps
  <2> QED
    BY <2>1, <2>2
<1> QED
  BY <1>2, <1>3


\* One more character is read and one written, or none.
LEMMA ReadingOn ==
  ASSUME NEW pass \in {"digits", "letters", "both", "hex"}, NEW u \in Seq(Chars),
         Reading(pass, u), fillRequest.letters \in SUBSET Chars, left # <<>>,
         NEW r \in WrittenFor(pass, left[1], fillRequest.letters),
         filled' = filled \o r, left' = Tail(left), UNCHANGED fillRequest
  PROVE  Reading(pass, u)'
<1>1. Len(u) \in Nat
  OBVIOUS
<1>2. PICK n \in 0..Len(u) : /\ left = SubSeq(u, n + 1, Len(u))
                             /\ Copied(pass, fillRequest.letters, u, n, filled)
  BY DEF Reading
<1>3. n \in 0..(Len(u) - 1)
  <2>1. n = Len(u) => left = <<>>
    BY <1>1, <1>2
  <2> QED
    BY <1>1, <2>1
<1>4. left[1] = u[n + 1] /\ left[1] \in Chars
  BY <1>1, <1>2, <1>3
<1>5. Tail(left) = SubSeq(u, n + 1 + 1, Len(u))
  BY <1>1, <1>2, <1>3
<1>6. r = <<>> \/ \E x \in Chars : r = <<x>>
  <2>1. PICK c \in Chars, L \in SUBSET Chars : c = left[1] /\ L = fillRequest.letters
    BY <1>4
  <2>2. r \in WrittenFor(pass, c, L)
    BY <2>1
  <2> QED
    BY <2>2, WrittenShape
<1>7. filled \in Seq(Chars)
  BY DEF Reading
<1>8. filled \o r \in Seq(Chars) /\ Copied(pass, fillRequest.letters, u, n + 1, filled \o r)
  <2>1. r \in WrittenFor(pass, u[n + 1], fillRequest.letters)
    BY <1>4
  <2> QED
    BY <1>1, <1>2, <1>3, <1>6, <1>7, <2>1, CopyOne
<1>9. n + 1 \in 0..Len(u)
  BY <1>1, <1>3
<1> QED
  BY <1>5, <1>8, <1>9 DEF Reading

\* So the invariant is kept when a character is replaced,
LEMMA ReplaceKeeps ==
  ASSUME FillInv, NEW r, Replace(r)
  PROVE  FillInv'
<1>1. /\ filling = "filling" /\ left # <<>> /\ r \in WrittenFor(passes[1], left[1], fillRequest.letters)
      /\ filled' = filled \o r /\ left' = Tail(left)
      /\ filling' = filling /\ fillRequest' = fillRequest /\ passes' = passes
  BY DEF Replace
<1>2. Passing
  BY <1>1 DEF FillInv
<1>3. /\ fillRequest.text \in Seq(Chars) /\ fillRequest.letters \in SUBSET Chars
  BY <1>2 DEF Passing
<1>4. CASE passes = PassesOf(fillRequest.kind) /\ Reading(passes[1], fillRequest.text)
  <2>1. passes[1] \in {"digits", "letters", "both", "hex"}
    BY <1>4, PassesAre
  <2>2. Reading(passes[1], fillRequest.text)'
    <3>1. PICK pass \in {"digits", "letters", "both", "hex"} : pass = passes[1]
      BY <2>1
    <3>2. PICK u \in Seq(Chars) : u = fillRequest.text
      BY <1>3
    <3>3. Reading(pass, u)'
      BY <1>1, <1>3, <1>4, <3>1, <3>2, ReadingOn
    <3> QED
      BY <1>1, <3>1, <3>2, <3>3 DEF Reading
  <2>3. Passing'
    BY <1>1, <1>2, <1>4, <2>2 DEF Passing
  <2> QED
    BY <1>1, <2>3 DEF FillInv, ReplacedOnce
<1>5. CASE /\ fillRequest.kind = "bothify" /\ passes = <<"letters">>
           /\ \E m \in Seq(Chars) :
                /\ Copied("digits", fillRequest.letters, fillRequest.text, Len(fillRequest.text), m)
                /\ Reading("letters", m)
  <2>1. PICK m \in Seq(Chars) :
          /\ Copied("digits", fillRequest.letters, fillRequest.text, Len(fillRequest.text), m)
          /\ Reading("letters", m)
    BY <1>5
  <2>2. passes[1] = "letters"
    BY <1>5
  <2>3. Reading("letters", m)'
    BY <1>1, <1>3, <2>1, <2>2, ReadingOn
  <2>4. Passing'
    BY <1>1, <1>2, <1>5, <2>1, <2>3 DEF Passing
  <2> QED
    BY <1>1, <2>4 DEF FillInv, ReplacedOnce
<1> QED
  BY <1>2, <1>4, <1>5 DEF Passing

\* when letters are missing,
LEMMA EmptyPoolKeeps ==
  ASSUME FillInv, EmptyPool
  PROVE  FillInv'
<1>1. /\ filling = "filling" /\ filling' = "failed" /\ fillRequest' = fillRequest
      /\ passes[1] = "letters" /\ fillRequest.letters = {}
  BY DEF EmptyPool, LettersMissing
<1>2. Passing
  BY <1>1 DEF FillInv
<1>3. fillRequest.kind \in {"lexify", "bothify"}
  <2>1. CASE passes = PassesOf(fillRequest.kind)
    BY <1>1, <2>1, PassesAre
  <2> QED
    BY <1>2, <2>1 DEF Passing
<1> QED
  BY <1>1, <1>3 DEF FillInv, ReplacedOnce

\* When all has been read the pass has written all of it.
LEMMA AllRead ==
  ASSUME NEW pass, NEW u \in Seq(Chars), Reading(pass, u), left = <<>>
  PROVE  filled \in Seq(Chars) /\ Copied(pass, fillRequest.letters, u, Len(u), filled)
<1>1. Len(u) \in Nat
  OBVIOUS
<1>2. PICK n \in 0..Len(u) : /\ left = SubSeq(u, n + 1, Len(u))
                             /\ Copied(pass, fillRequest.letters, u, n, filled)
  BY DEF Reading
<1>3. Len(SubSeq(u, n + 1, Len(u))) = Len(u) - n
  BY <1>1
<1>4. n = Len(u)
  <2>1. Len(left) = 0
    OBVIOUS
  <2>2. Len(SubSeq(u, n + 1, Len(u))) = 0
    BY <1>2, <2>1
  <2> QED
    BY <1>1, <1>3, <2>2
<1> QED
  BY <1>2, <1>4 DEF Reading

\* and when a pass is over.
LEMMA EndPassKeeps ==
  ASSUME FillInv, EndPass
  PROVE  FillInv'
<1>1. /\ filling = "filling" /\ left = <<>> /\ passes' = Tail(passes) /\ fillRequest' = fillRequest
      /\ Len(passes) > 1 => left' = filled /\ filled' = <<>> /\ filling' = filling
      /\ ~(Len(passes) > 1) => filling' = "done" /\ filled' = Printed(fillRequest, filled)
  BY DEF EndPass, Printed
<1>2. Passing
  BY <1>1 DEF FillInv
<1> DEFINE s == fillRequest.text
           L == fillRequest.letters
<1>3. /\ s \in Seq(Chars) /\ Len(s) \in Nat /\ L \in SUBSET Chars /\ fillRequest.kind # "number"
      /\ fillRequest.kind \in {"postcode", "ripe_id", "nic_handle"} => L = DefaultLetters
  BY <1>2 DEF Passing
<1>4. ASSUME filling' = "done", filled' = Printed(fillRequest, filled),
             FilledIn(fillRequest, s, Printed(fillRequest, filled))
      PROVE  FillInv'
  <2>1. FilledIn(fillRequest, fillRequest.text, filled)'
    BY <1>1, <1>4
  <2> QED
    BY <1>1, <1>3, <1>4, <2>1 DEF FillInv, ReplacedOnce
<1>5. CASE passes = PassesOf(fillRequest.kind) /\ Reading(passes[1], s)
  <2>1. filled \in Seq(Chars) /\ Copied(passes[1], L, s, Len(s), filled)
    BY <1>1, <1>3, <1>5, AllRead
  <2>2. CASE fillRequest.kind = "bothify"
    <3>1. passes = <<"digits", "letters">>
      BY <1>5, <2>2, PassesAre
    <3>2. passes' = <<"letters">> /\ left' = filled /\ filled' = <<>> /\ filling' = filling
      BY <1>1, <3>1
    <3>3. Copied("digits", L, s, Len(s), filled)
      BY <2>1, <3>1
    <3>4. Copied("letters", L, filled, 0, <<>>)
      <4> DEFINE f == [k \in 0..0 |-> 0]
      <4>1. f \in [0..0 -> 0..Len(<<>>)] /\ f[0] = 0 /\ 1..0 = {} /\ Len(<<>>) = 0
        OBVIOUS
      <4> QED
        BY <4>1 DEF Copied
    <3>5. filled = SubSeq(filled, 0 + 1, Len(filled)) /\ 0 \in 0..Len(filled) /\ <<>> \in Seq(Chars)
      BY <2>1
    <3>6. PICK m \in Seq(Chars) : m = filled
      BY <2>1
    <3>7. Reading("letters", m)'
      BY <1>1, <3>2, <3>4, <3>5, <3>6 DEF Reading
    <3>8. Copied("digits", L, s, Len(s), m)
      BY <3>3, <3>6
    <3>9. Passing'
      BY <1>1, <1>3, <2>2, <3>2, <3>7, <3>8 DEF Passing
    <3> QED
      BY <1>1, <3>2, <3>9 DEF FillInv, ReplacedOnce
  <2>3. CASE fillRequest.kind # "bothify"
    <3>1. PICK pass : passes = <<pass>>
      BY <1>5, <2>3, PassesAre
    <3>2. Once(fillRequest, pass) /\ Copied(pass, L, s, Len(s), filled) /\ ~(Len(passes) > 1)
      BY <1>3, <1>5, <2>1, <3>1 DEF Once
    <3>3. FilledIn(fillRequest, s, Printed(fillRequest, filled))
      BY <1>3, <2>1, <3>2, OncePasses
    <3> QED
      BY <1>1, <1>4, <3>2, <3>3
  <2> QED
    BY <2>2, <2>3
<1>6. CASE /\ fillRequest.kind = "bothify" /\ passes = <<"letters">>
           /\ \E m \in Seq(Chars) : Copied("digits", L, s, Len(s), m) /\ Reading("letters", m)
  <2>1. PICK m \in Seq(Chars) : Copied("digits", L, s, Len(s), m) /\ Reading("letters", m)
    BY <1>6
  <2>2. filled \in Seq(Chars) /\ Copied("letters", L, m, Len(m), filled)
    BY <1>1, <2>1, AllRead
  <2>3. FilledIn(fillRequest, s, Printed(fillRequest, filled))
    BY <1>3, <1>6, <2>1, <2>2, TwicePasses
  <2>4. ~(Len(passes) > 1)
    BY <1>6
  <2> QED
    BY <1>1, <1>4, <2>3, <2>4
<1> QED
  BY <1>2, <1>5, <1>6 DEF Passing


\* A number that is drawn has the digits that were asked for.
LEMMA NumberDigits ==
  ASSUME NEW d \in 0..MaxDigits, NEW fixed \in BOOLEAN, fixed => d # 0,
         NEW x \in {IF fixed THEN TenTo[d - 1] ELSE 0, TenTo[d] - 1}
  PROVE  IF fixed THEN DigitsOf(x) = d ELSE DigitsOf(x) <= d
<1> USE TenToIs
<1>1. d \in Nat /\ MaxDigits \in Nat
  BY PlaceholderAssumption
<1>2. DigitsOf(TenTo[d] - 1) = d
  <2>1. TenTo[d] \in Nat \ {0}
    OBVIOUS
  <2>2. ASSUME d > 0 PROVE TenTo[d] - 1 >= TenTo[d - 1]
    <3>1. d - 1 \in 0..MaxDigits /\ d - 1 < d
      BY <1>1, <2>2
    <3> QED
      BY <2>1, <3>1, TenToGrows
  <2> DEFINE n == TenTo[d] - 1
  <2>3. n \in Nat /\ n < TenTo[d] /\ (d > 0 => n >= TenTo[d - 1])
    BY <2>1, <2>2
  <2> HIDE DEF n
  <2> QED
    BY <2>3, DigitsAreOf DEF n
<1>3. CASE fixed
  <2>1. d \in 1..MaxDigits /\ d - 1 \in 0..MaxDigits /\ d - 1 < d
    BY <1>1, <1>3
  <2>2. DigitsOf(TenTo[d - 1]) = d
    <3> DEFINE n == TenTo[d - 1]
    <3>1. n \in Nat /\ n < TenTo[d] /\ n >= TenTo[d - 1]
      BY <2>1, TenToGrows
    <3> HIDE DEF n
    <3> QED
      BY <3>1, DigitsAreOf DEF n
  <2> QED
    BY <1>2, <1>3, <2>2
<1>4. CASE ~fixed
  <2>1. DigitsOf(0) = 0
    <3>1. 0 \in 0..MaxDigits /\ 0 < TenTo[0]
      BY <1>1
    <3> QED
      BY <3>1, DigitsAreOf
  <2>2. x = 0 \/ x = TenTo[d] - 1
    BY <1>4
  <2>3. DigitsOf(x) <= d
    BY <1>1, <1>2, <2>1, <2>2
  <2> QED
    BY <1>4, <2>3
<1> QED
  BY <1>3, <1>4

\* So the invariant is kept by a number.
LEMMA AskNumberKeeps ==
  ASSUME FillInv, NEW digits \in Int, NEW fixed \in BOOLEAN, AskNumber(digits, fixed)
  PROVE  FillInv'
<1>1. PICK d \in Int :
        LET refused == d < 0 \/ d > MaxDigits \/ (fixed /\ d = 0)
        IN /\ fillRequest' = [kind |-> "number", digits |-> d, fixed |-> fixed]
           /\ IF refused THEN filling' = "failed" /\ UNCHANGED filled
              ELSE /\ filling' = "done"
                   /\ filled' \in {<<IF fixed THEN TenTo[d - 1] ELSE 0>>, <<TenTo[d] - 1>>}
  <2>1. (IF digits = -2 THEN 1..9 ELSE {digits}) \subseteq Int
    OBVIOUS
  <2> QED
    BY <2>1, Zenon DEF AskNumber
<1>2. fillRequest'.kind = "number" /\ fillRequest'.digits = d
  BY <1>1
<1>3. fillRequest'.fixed = fixed
  BY <1>1, Zenon
<1>4. CASE d < 0 \/ d > MaxDigits \/ (fixed /\ d = 0)
  <2>1. filling' = "failed"
    BY <1>1, <1>4, Zenon
  <2> QED
    BY <1>2, <2>1 DEF FillInv, ReplacedOnce
<1>5. CASE ~(d < 0 \/ d > MaxDigits \/ (fixed /\ d = 0))
  <2>1. /\ filling' = "done"
        /\ filled' \in {<<IF fixed THEN TenTo[d - 1] ELSE 0>>, <<TenTo[d] - 1>>}
    BY <1>1, <1>5, Zenon
  <2>2. d \in 0..MaxDigits /\ (fixed => d # 0)
    BY <1>5, PlaceholderAssumption
  <2>3. filled'[1] \in {IF fixed THEN TenTo[d - 1] ELSE 0, TenTo[d] - 1}
    BY <2>1
  <2>4. IF fixed THEN DigitsOf(filled'[1]) = d ELSE DigitsOf(filled'[1]) <= d
    BY <2>2, <2>3, NumberDigits
  <2>5. IF fillRequest'.fixed THEN DigitsOf(filled'[1]) = d ELSE DigitsOf(filled'[1]) <= d
    BY <1>3, <2>4, Zenon
  <2>6. ReplacedOnce'
    BY <1>2, <2>1, <2>5 DEF ReplacedOnce
  <2> QED
    BY <2>1, <2>6 DEF FillInv
<1> QED
  BY <1>4, <1>5

\* ZIP codes have five digits at most.
LEMMA AskZipKeeps ==
  ASSUME FillInv, AskZip
  PROVE  FillInv'
<1>1. 5 \in 0..MaxDigits /\ TenTo[5] = 100000
  <2>1. {0, 1, 2, 3, 4, 5} \subseteq 0..MaxDigits
    BY PlaceholderAssumption
  <2>2. TenTo[1] = 10 /\ TenTo[2] = 100 /\ TenTo[3] = 1000
    BY <2>1, TenToIs
  <2> QED
    BY <2>1, <2>2, TenToIs
<1>2. TenTo[4] = 10000 /\ TenTo[3] = 1000 /\ TenTo[2] = 100 /\ {2, 3, 4, 5} \subseteq 0..MaxDigits
  <2>1. {1, 2, 3, 4, 5} \subseteq 0..MaxDigits
    BY PlaceholderAssumption
  <2> QED
    BY <2>1, TenToIs
<1>3. DigitsOf(501) = 3 /\ DigitsOf(99950) = 5
  BY <1>1, <1>2, DigitsAreOf
<1>4. /\ filling' = "done" /\ filled'[1] \in {501, 99950}
      /\ fillRequest'.kind = "number" /\ fillRequest'.digits = 5
  BY DEF AskZip
<1>5. ~fillRequest'.fixed
  <2>1. fillRequest' = [kind |-> "number", digits |-> 5, fixed |-> FALSE]
    BY DEF AskZip
  <2> QED
    BY <2>1
<1>6. DigitsOf(filled'[1]) <= fillRequest'.digits
  BY <1>3, <1>4
<1>7. ReplacedOnce'
  BY <1>4, <1>5, <1>6 DEF ReplacedOnce
<1> QED
  BY <1>4, <1>7 DEF FillInv

\* Every step of a substitution keeps the invariant.
LEMMA FillStep ==
  ASSUME FillInv, [FillNext]_fillVars
  PROVE  FillInv'
<1>1. ASSUME filling = "idle", NEW kind \in {"numerify", "lexify", "bothify", "hexify"},
             NEW s \in FillTexts, NEW letters \in LetterSets, Begin(kind, s, letters)
      PROVE  FillInv'
  <2>1. s \in Seq(Chars)
    BY SeqChars, PlaceholderAssumption
  <2>2. letters \in SUBSET Chars
    BY PlaceholderAssumption DEF Chars
  <2> QED
    BY <1>1, <2>1, <2>2, BeginKeeps
<1>2. ASSUME filling = "idle", NEW kind \in DOMAIN FormatTables, AskFormat(kind) PROVE FillInv'
  BY <1>2, AskFormatKeeps
<1>3. ASSUME filling = "idle", AskRipe \/ \E suffix \in HandleEnds : AskNic(suffix) PROVE FillInv'
  BY <1>3, AskHandleKeeps
<1>4. ASSUME NEW digits \in (-2)..(MaxDigits + 1), NEW fixed \in BOOLEAN, AskNumber(digits, fixed)
      PROVE  FillInv'
  BY <1>4, AskNumberKeeps
<1>5. ASSUME NEW r, Replace(r) PROVE FillInv'
  BY <1>5, ReplaceKeeps
<1>6. CASE EmptyPool
  BY <1>6, EmptyPoolKeeps
<1>7. CASE EndPass
  BY <1>7, EndPassKeeps
<1>8. CASE GotFilled
  BY <1>8 DEF GotFilled, FillInv, ReplacedOnce
<1>9. CASE UNCHANGED fillVars
  BY <1>9 DEF fillVars, FillInv, Passing, Reading, ReplacedOnce
<1>10. CASE AskZip
  BY <1>10, AskZipKeeps
<1> QED
  BY <1>1, <1>2, <1>3, <1>4, <1>5, <1>6, <1>7, <1>8, <1>9, <1>10 DEF FillNext, AskFill

\* numerify, lexify, bothify and hexify, and the providers that fill in a format
\* (base.rs:237-342), replace every placeholder of any text once, from its own
\* characters, and keep all else; random_number (base.rs:72-97) has the digits that
\* were asked for; and only letters, digits or a suffix that cannot do are refused.
THEOREM ReplacedOnceTheorem == DrawSpec => []ReplacedOnce
<1>1. DrawInit => FillInv
  BY FillInitially DEF DrawInit
<1>2. FillInv => ReplacedOnce
  BY DEF FillInv
<1> QED
  BY <1>1, <1>2, FillSteps, FillStep, PTL DEF DrawSpec
==============================================================================
