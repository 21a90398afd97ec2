------------------------------- MODULE Tokens -------------------------------
(***************************************************************************)
(* The three readers of "{{ token }}" texts: Generator.parse of generator.py *)
(* substitutes what its regular expression finds; Generator::parse of        *)
(* template.rs and template_expr of build.rs scan by hand, and say that they  *)
(* read a text the way the first one does.  What a text holds is told apart   *)
(* into braces, "open" and "close", a "colon", a "blank" and a "word"         *)
(* character.                                                                  *)
(***************************************************************************)
EXTENDS Integers, Sequences

CONSTANTS
  TokenTexts,  \* texts, as sequences of the classes above
  KnownNames   \* the names Formatter::from_name knows

\* What the readers tell apart.
Characters == {"open", "close", "colon", "blank", "word"}
ASSUME TokenAssumption == TokenTexts \subseteq Seq(Characters)

VARIABLES
  reading,  \* "idle"; "parse" or "compile", who is reading; "done" or "failed"
  reader,   \* who started
  text,     \* the text
  at,       \* where rest starts
  output    \* the segments so far: <<"literal", <<c>>>> or <<"token", name>>

tokenVars == <<reading, reader, text, at, output>>

TokenInit == reading = "idle" /\ reader = "" /\ text = <<>> /\ at = 1 /\ output = <<>>

IsAt(s, i, c) == i <= Len(s) /\ s[i] = c
Pair(s, i, c) == IsAt(s, i, c) /\ IsAt(s, i + 1, c)

\* The first place from i on that does not hold c.
Past(s, i, c) ==
  CHOOSE j \in i..(Len(s) + 1) : ~IsAt(s, j, c) /\ \A k \in i..(j - 1) : s[k] = c

\* The token a text goes on with at i, after its braces, if any: match_token of
\* template.rs, which knows no groups.
MatchToken(s, i) ==
  LET name == Past(s, i, "blank")
      end == Past(s, name, "word")
      close == Past(s, end, "blank")
  IN {m \in {[name |-> SubSeq(s, name, end - 1), form |-> "plain", next |-> close + 2]} :
        end > name /\ Pair(s, close, "close")}

\* parse_token of build.rs, which does.
ParseToken(s, i) ==
  LET name == Past(s, i, "blank")
      end == Past(s, name, "word")
      grouped == IsAt(s, end, "colon")
      group == IF grouped THEN Past(s, end + 1, "blank") ELSE end
      word == Past(s, group, "word")
      close == Past(s, word, "blank")
  IN {m \in {[name |-> SubSeq(s, name, end - 1), form |-> IF grouped THEN "grouped" ELSE "plain",
       next |-> close + 2]} :
        end > name /\ (grouped => word > group) /\ Pair(s, close, "close")}

Matches(s, i) == IF reader = "parse" THEN MatchToken(s, i) ELSE ParseToken(s, i)

\* rest.find("{{")
Openings == {i \in at..Len(text) : Pair(text, i, "open")}
IsNext(i) == i \in Openings /\ \A j \in Openings : i <= j

Literal(i, j) == [k \in 1..(j - i) |-> <<"literal", <<text[i + k - 1]>>>>]

\* UnknownFormatter when parsing; an argument group when compiling.
Unwanted(m) == IF reader = "parse" THEN m.name \notin KnownNames ELSE m.form = "grouped"

Read(s, who) ==
  /\ reading' = who /\ reader' = who /\ text' = s
  /\ UNCHANGED <<at, output>>

\* One turn of the loop: a token,
TakeToken(i) ==
  /\ reading = reader /\ IsNext(i)
  /\ \E m \in Matches(text, i + 2) :
       /\ ~Unwanted(m)
       /\ output' = output \o Literal(at, i) \o <<<<"token", m.name>>>>
       /\ at' = m.next
  /\ UNCHANGED <<reading, reader, text>>

\* one that is refused,
RefuseToken(i) ==
  /\ reading = reader /\ IsNext(i)
  /\ \E m \in Matches(text, i + 2) : Unwanted(m)
  /\ reading' = "failed"
  /\ UNCHANGED <<reader, text, at, output>>

\* Mutant of SkipBrace: both braces are skipped.
SkipBraces(i) ==
  /\ reading = reader /\ IsNext(i)
  /\ Matches(text, i + 2) = {}
  /\ output' = output \o Literal(at, i + 2) /\ at' = i + 2
  /\ UNCHANGED <<reading, reader, text>>

\* or a brace that opens none, kept; the next one may.
SkipBrace(i) ==
  /\ reading = reader /\ IsNext(i)
  /\ Matches(text, i + 2) = {}
  /\ output' = output \o Literal(at, i + 1) /\ at' = i + 1
  /\ UNCHANGED <<reading, reader, text>>

\* No brace is left.
TakeRest ==
  /\ reading = reader /\ Openings = {}
  /\ output' = output \o Literal(at, Len(text) + 1)
  /\ reading' = "done"
  /\ UNCHANGED <<reader, text, at>>

ReadReturn ==
  /\ reading \in {"done", "failed"}
  /\ reading' = "idle" /\ reader' = "" /\ text' = <<>> /\ at' = 1 /\ output' = <<>>

TokenNext ==
  \/ /\ reading = "idle"
     /\ \E s \in TokenTexts, who \in {"parse", "compile"} : Read(s, who)
  \/ \E i \in 1..Len(text) : TakeToken(i) \/ RefuseToken(i) \/ SkipBrace(i)
  \/ TakeRest
  \/ ReadReturn

TokenSpec == TokenInit /\ [][TokenNext]_tokenVars

-----------------------------------------------------------------------------
(* Properties                                                              *)

All(s, i, j, c) == \A k \in i..(j - 1) : IsAt(s, k, c)

\* _re_token of generator.py, \{\{\s*(\w+)(:\s*\w+?)?\s*\}\}, from i up to j,
\* with its name from a up to b; "grouped" when its second group took part.
ReToken(s, i, j, a, b, form) ==
  /\ Pair(s, i, "open") /\ i + 2 <= a /\ a < b /\ Pair(s, j - 2, "close")
  /\ All(s, i + 2, a, "blank") /\ All(s, a, b, "word")
  /\ IF form = "grouped"
       THEN /\ IsAt(s, b, "colon")
            /\ \E g \in (b + 1)..(j - 3), h \in (b + 2)..(j - 2) :
                 g < h /\ All(s, b + 1, g, "blank") /\ All(s, g, h, "word") /\ All(s, h, j - 2, "blank")
       ELSE b <= j - 2 /\ All(s, b, j - 2, "blank")

\* All that it finds in s: no two overlap.
ReTokens(s, forms) ==
  {[from |-> m[1], to |-> m[2], name |-> SubSeq(s, m[3], m[4] - 1), form |-> m[5]] :
     m \in {t \in
              {i \in 1..Len(s) : Pair(s, i, "open")} \X {j \in 3..(Len(s) + 1) : Pair(s, j - 2, "close")}
                \X {a \in 2..Len(s) : s[a] = "word"} \X {b \in 2..Len(s) : s[b - 1] = "word"}
                \X forms :
            ReToken(s, t[1], t[2], t[3], t[4], t[5])}}

\* What stands for the k-th character when every one of ms is replaced by its
\* token.
InPlaceOf(s, ms, k) ==
  IF \E m \in ms : m.from = k THEN <<<<"token", (CHOOSE m \in ms : m.from = k).name>>>>
  ELSE IF \E m \in ms : m.from < k /\ k < m.to THEN <<>>
  ELSE <<<<"literal", <<s[k]>>>>>>

\* The first n characters of s after that.
Substituted(s, ms, n) ==
  LET upTo[k \in 0..Len(s)] == IF k = 0 THEN <<>> ELSE upTo[k - 1] \o InPlaceOf(s, ms, k)
  IN upTo[n]

\* What the reader promises to find: parse leaves argument groups alone.
Promised == ReTokens(text, IF reader = "parse" THEN {"plain"} ELSE {"plain", "grouped"})

\* "Like Faker's Generator.parse", "the way Generator.parse does": the two
\* scanners of the Rust side find the tokens the regular expression finds,
\* whatever braces come before, within or after them, and keep all else; they
\* refuse a text exactly when one of its tokens is not theirs to take.
ReadAlike ==
  reading \in {"done", "failed"} =>
    \E promised \in {Promised} :
      IF \E m \in promised : Unwanted(m)
        THEN reading = "failed"
        ELSE reading = "done" /\ output = Substituted(text, promised, Len(text))
=============================================================================
