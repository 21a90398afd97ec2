---------------------------- MODULE Placeholders ----------------------------
(***************************************************************************)
(* Substitution in base.rs: numerify, lexify, bothify and hexify, the one-pass *)
(* bothify with the default letters behind postcodes and handles, and the      *)
(* providers that pick a format and fill it in (phone numbers, building        *)
(* numbers, military addresses, NIC handles); random_number and the ZIP codes  *)
(* of en_US.  A text is a sequence of characters; "2" stands for the digits 2  *)
(* to 9.                                                                        *)
(***************************************************************************)
EXTENDS Integers, Sequences

CONSTANTS
  FillTexts,       \* the texts of the four functions
  LetterSets,      \* the letters given to lexify and bothify
  DefaultLetters,  \* ASCII_LETTERS
  FormatTables,    \* a locale's formats, a set of texts for each provider
  HandleEnds,      \* the suffixes of nic_handle
  MaxDigits        \* 38: 10^38 still is a u128

ASSUME PlaceholderAssumption ==
  /\ MaxDigits \in Nat /\ MaxDigits >= 9
  /\ FillTexts \subseteq Seq(STRING) /\ HandleEnds \subseteq Seq(STRING)
  /\ LetterSets \subseteq SUBSET STRING /\ DefaultLetters \subseteq STRING
  /\ \A kind \in DOMAIN FormatTables :
       kind # "number" /\ FormatTables[kind] \subseteq Seq(STRING)
  /\ "basic_phone_number" \in DOMAIN FormatTables => "phone_number" \in DOMAIN FormatTables

VARIABLES
  filling,      \* "idle", "filling", "done" or "failed"
  fillRequest,  \* the call under way: [kind, text, letters]; a number's has [digits, fixed]
  passes,       \* the passes to come over the text
  left,         \* what the first of them has yet to read
  filled        \* what it wrote; the number

fillVars == <<filling, fillRequest, passes, left, filled>>

NoFill == [kind |-> "", text |-> <<>>, letters |-> {}]
FillInit ==
  filling = "idle" /\ fillRequest = NoFill /\ passes = <<>> /\ left = <<>> /\ filled = <<>>

\* digit(low): one of low to 9.
Digit(low) == CASE low = 0 -> {<<"0">>, <<"1">>, <<"2">>} [] low = 1 -> {<<"1">>, <<"2">>}
                [] low = 2 -> {<<"2">>}

\* What numerify writes for a character; "!" and "@" may leave none.
NumberFor(c) ==
  CASE c = "#" -> Digit(0)
    [] c = "%" -> Digit(1)
    [] c = "$" -> Digit(2)
    [] c = "!" -> {<<>>} \cup Digit(0)
    [] c = "@" -> {<<>>} \cup Digit(1)
    [] OTHER -> {<<c>>}

\* What write_replaced writes for a character.
LetterFor(c, letters) == IF c = "?" THEN {<<l>> : l \in letters} ELSE {<<c>>}
\* write_bothify_default reads each character once.
BothFor(c) == IF c = "?" THEN LetterFor(c, DefaultLetters) ELSE NumberFor(c)
HexFor(c) == IF c = "^" THEN {<<"0">>, <<"f">>} ELSE {<<c>>}

\* Mutant of BothPasses: bothify puts the letters in first.
LettersFirst == <<"letters", "digits">>
\* bothify: numerify, then lexify on what that wrote.
BothPasses == <<"digits", "letters">>
PassesOf(kind) ==
  CASE kind = "bothify" -> BothPasses
    [] kind = "lexify" -> <<"letters">>
    [] kind = "hexify" -> <<"hex">>
    [] kind \in {"postcode", "ripe_id", "nic_handle"} -> <<"both">>
    [] OTHER -> <<"digits">>

\* What a pass may write for a character.
WrittenFor(pass, c, letters) ==
  CASE pass = "digits" -> NumberFor(c)
    [] pass = "letters" -> LetterFor(c, letters)
    [] pass = "both" -> BothFor(c)
    [] pass = "hex" -> HexFor(c)

Begin(kind, s, letters) ==
  /\ filling' = "filling"
  /\ fillRequest' = [kind |-> kind, text |-> s, letters |-> letters]
  /\ passes' = PassesOf(kind) /\ left' = s
  /\ UNCHANGED filled

Refuse(kind) ==
  /\ filling' = "failed" /\ fillRequest' = [NoFill EXCEPT !.kind = kind]
  /\ UNCHANGED <<passes, left, filled>>

\* A provider fills in one of its formats.  A locale without basic formats has
\* phone numbers instead; one without another table writes nothing.  (Basic
\* formats are templates: what is filled in is what comes of rendering one.)
AskFormat(kind) ==
  LET table == IF kind = "basic_phone_number" /\ FormatTables[kind] = {}
                 THEN FormatTables["phone_number"] ELSE FormatTables[kind]
  IN \/ \E s \in table : Begin(kind, s, DefaultLetters)
     \/ table = {} /\ Begin(kind, <<>>, DefaultLetters)

Placeholder(c, n) == [i \in 1..n |-> c]
InHandle(before, letters, digits, after) ==
  before \o Placeholder("?", letters) \o Placeholder("%", digits) \o after

\* Two to four letters and one to five digits, within what else is in a handle.
Handle(before, after) == {InHandle(before, m, n, after) : m \in 2..4, n \in 1..5}
AskRipe == \E s \in Handle(<<"O", "-">>, <<"-", "R">>) : Begin("ripe_id", s, DefaultLetters)
AskNic(suffix) ==
  IF Len(suffix) < 2 THEN Refuse("nic_handle")
  ELSE \E s \in Handle(<<>>, <<"-">> \o suffix) : Begin("nic_handle", s, DefaultLetters)

-----------------------------------------------------------------------------
\* write_replaced refuses an empty set of letters only where it needs one.
LettersMissing ==
  passes[1] = "letters" /\ fillRequest.letters = {} /\ \E i \in 1..Len(left) : left[i] = "?"

\* One character is read, and r written for it.
Replace(r) ==
  /\ filling = "filling" /\ left # <<>> /\ ~LettersMissing
  /\ r \in WrittenFor(passes[1], left[1], fillRequest.letters)
  /\ filled' = filled \o r /\ left' = Tail(left)
  /\ UNCHANGED <<filling, fillRequest, passes>>

EmptyPool ==
  /\ filling = "filling" /\ left # <<>> /\ LettersMissing
  /\ filling' = "failed"
  /\ UNCHANGED <<fillRequest, passes, left, filled>>

\* Postcodes and handles are put in upper case in the end.
Upper(c) == IF c = "a" THEN "A" ELSE c
Uppercase(s) == [i \in 1..Len(s) |-> Upper(s[i])]
InUpper(kind) == kind \in {"postcode", "ripe_id", "nic_handle"}

\* A pass is over; the next one reads what it wrote.
EndPass ==
  /\ filling = "filling" /\ left = <<>>
  /\ passes' = Tail(passes)
  /\ IF Len(passes) > 1
       THEN left' = filled /\ filled' = <<>> /\ UNCHANGED filling
       ELSE /\ filling' = "done"
            /\ filled' = IF InUpper(fillRequest.kind) THEN Uppercase(filled) ELSE filled
            /\ UNCHANGED left
  /\ UNCHANGED fillRequest

\* 10u128.pow
TenTo[n \in 0..MaxDigits] == IF n = 0 THEN 1 ELSE 10 * TenTo[n - 1]

\* random_number: a number of at most, or exactly, so many digits; one to nine
\* when there is no number of digits (-2 here).  Only the ends of its range are
\* told apart.
AskNumber(digits, fixed) ==
  \E d \in IF digits = -2 THEN 1..9 ELSE {digits} :
    LET refused == d < 0 \/ d > MaxDigits \/ (fixed /\ d = 0)
    IN /\ fillRequest' = [kind |-> "number", digits |-> d, fixed |-> fixed]
       /\ IF refused THEN filling' = "failed" /\ UNCHANGED filled
          ELSE /\ filling' = "done"
               /\ filled' \in {<<IF fixed THEN TenTo[d - 1] ELSE 0>>, <<TenTo[d] - 1>>}
       /\ UNCHANGED <<passes, left>>

\* write_postcode of en_US fills in no format: a number of at most five digits,
\* padded to five.
AskZip ==
  /\ filling' = "done" /\ fillRequest' = [kind |-> "number", digits |-> 5, fixed |-> FALSE]
  /\ filled' \in {<<501>>, <<99950>>}
  /\ UNCHANGED <<passes, left>>

GotFilled ==
  /\ filling \in {"done", "failed"}
  /\ filling' = "idle" /\ fillRequest' = NoFill
  /\ passes' = <<>> /\ left' = <<>> /\ filled' = <<>>

AskFill ==
  \/ \E kind \in {"numerify", "lexify", "bothify", "hexify"}, s \in FillTexts,
        letters \in LetterSets : Begin(kind, s, letters)
  \/ \E kind \in DOMAIN FormatTables : AskFormat(kind)
  \/ AskZip
  \/ AskRipe
  \/ \E suffix \in HandleEnds : AskNic(suffix)
  \/ \E digits \in (-2)..(MaxDigits + 1), fixed \in BOOLEAN : AskNumber(digits, fixed)

FillNext ==
  \/ filling = "idle" /\ AskFill
  \/ /\ filling = "filling" /\ left # <<>>
     /\ \E r \in WrittenFor(passes[1], left[1], fillRequest.letters) : Replace(r)
  \/ EmptyPool \/ EndPass
  \/ GotFilled

FillSpec == FillInit /\ [][FillNext]_fillVars

-----------------------------------------------------------------------------
(* Properties                                                              *)

\* What may stand for a character in the end, seen once.
Substitutes(request, c) ==
  CASE request.kind = "hexify" -> HexFor(c)
    [] request.kind = "lexify" -> LetterFor(c, request.letters)
    [] request.kind \in {"bothify", "postcode", "ripe_id", "nic_handle"} ->
         IF c = "?" THEN LetterFor(c, request.letters) ELSE NumberFor(c)
    [] OTHER -> NumberFor(c)

StandsFor(request, c) ==
  IF InUpper(request.kind) THEN {Uppercase(d) : d \in Substitutes(request, c)}
  ELSE Substitutes(request, c)

\* r is the text s with a substitute in place of every character: upTo[n] has the
\* places of r where those of the first n characters may end.
FilledIn(request, s, r) ==
  LET upTo[n \in 0..Len(s)] ==
        IF n = 0 THEN {0}
        ELSE UNION {{j \in i..Len(r) : SubSeq(r, i + 1, j) \in StandsFor(request, s[n])} :
                      i \in upTo[n - 1]}
  IN Len(r) \in upTo[Len(s)]

\* A decimal number has so many digits, zero none.
DigitsOf(n) ==
  CHOOSE d \in 0..MaxDigits : n < TenTo[d] /\ \A e \in 0..(d - 1) : n >= TenTo[e]

\* "numerify followed by lexify": every placeholder of the text that was asked
\* for is replaced once, from its own characters, and nothing that was put in is
\* replaced again, be it a custom letter such as "#"; all the rest is kept.  The
\* one-pass bothify "cannot fail" and does the same; numbers have the digits they
\* should.  An error means letters, digits or a suffix that cannot do.
ReplacedOnce ==
  /\ filling = "done" =>
       IF fillRequest.kind # "number" THEN FilledIn(fillRequest, fillRequest.text, filled)
       ELSE IF fillRequest.fixed THEN DigitsOf(filled[1]) = fillRequest.digits
       ELSE DigitsOf(filled[1]) <= fillRequest.digits
  /\ filling = "failed" =>
       \/ fillRequest.kind \in {"lexify", "bothify"} /\ fillRequest.letters = {}
       \/ fillRequest.kind \in {"nic_handle", "number"}
=============================================================================
