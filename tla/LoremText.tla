------------------------------ MODULE LoremText ------------------------------
(***************************************************************************)
(* text of lorem.rs, with the words, sentences and paragraphs it is made of: *)
(* pieces are drawn until their length reaches the limit, the one that did   *)
(* is dropped, and when nothing is left that was an attempt.  A word is       *)
(* [len, grow]: its characters, and how many more it has once its first       *)
(* letter is upper case.  A text is its length.                               *)
(***************************************************************************)
EXTENDS Integers

CONSTANTS
  Limits,      \* the max_nb_chars asked for
  WordLists,   \* the word lists: ext_word_list, or the locale's
  MaxAttempts  \* MAX_TEXT_ATTEMPTS

ASSUME TextAssumption ==
  /\ Limits \subseteq Int
  /\ \A L \in WordLists : L \subseteq [len : Nat, grow : Nat]
  /\ MaxAttempts \in Nat \ {0}

VARIABLES
  writing,  \* "idle", "writing", "done" or "failed"
  asked,    \* the call under way: [limit, words]
  attempt,  \* how many attempts came to nothing
  parts,    \* how many parts there are; above 3 even counts are 2, odd ones 3
  size,     \* the characters in them
  first,    \* grow of the first part
  length    \* the length of the text

textVars == <<writing, asked, attempt, parts, size, first, length>>
NoText == [limit |-> 0, words |-> {}]

TextInit ==
  /\ writing = "idle" /\ asked = NoText
  /\ attempt = 0 /\ parts = 0 /\ size = 0 /\ first = 0 /\ length = 0

-----------------------------------------------------------------------------
(* Words, sentences, paragraphs                                            *)

Connector == 1    \* characters of word_connector, and of the line break
Punctuation == 1  \* characters of sentence_punctuation

\* randomize_nb_elements(n, min = 1): 60 to 140 percent of n, rounded down.
NbElements(n) ==
  LET scaled(p) == (n * p) \div 100
  IN {IF scaled(p) < 1 THEN 1 ELSE scaled(p) : p \in 60..140}

\* The lengths n words of L can have together.
Together(L, n) ==
  LET sums[k \in 0..n] == IF k = 0 THEN {0} ELSE {s + w.len : s \in sums[k - 1], w \in L}
  IN sums[n]

\* The lengths of sentence(6): the first word gets its capital before it is
\* counted.
Sentences(L) ==
  UNION {{n * Connector - Connector + w.len + w.grow + s + Punctuation :
          w \in L, s \in Together(L, n - 1)} : n \in NbElements(6)}

\* The lengths of paragraph(3): sentences, joined by the connector.
Paragraphs(L) ==
  LET S == Sentences(L)
      joined[n \in 1..4] ==
        IF n = 1 THEN S ELSE {s + Connector + t : s \in joined[n - 1], t \in S}
  IN UNION {joined[n] : n \in NbElements(3)}

\* The pieces text(limit) is made of; only a word has its capital to come.
Bodies == [limit \in Limits |-> [L \in WordLists |->
  IF limit < 25 THEN L
  ELSE {[len |-> l, grow |-> 0] : l \in IF limit < 100 THEN Sentences(L) ELSE Paragraphs(L)}]]

-----------------------------------------------------------------------------
\* A part is its body behind a separator, unless there is nothing before it.
Part(body) == (IF size = 0 THEN 0 ELSE Connector) + body.len

\* The text, once the last part is popped: words get a capital and a full stop.
\* Mutant Unpopped: the part that reached the limit stays.
Unpopped(part) == size + part + IF asked.limit < 25 THEN first + Punctuation ELSE 0
TextLength(part) == size + IF asked.limit < 25 THEN first + Punctuation ELSE 0

\* Mutant of Counted: the attempts are not counted.
Uncounted(n) == n
Counted(n) == n + 1

AskText(limit, L) ==
  /\ writing = "idle"
  /\ asked' = [limit |-> limit, words |-> L]
  /\ writing' = IF limit < 5 \/ L = {} THEN "failed" ELSE "writing"
  /\ UNCHANGED <<attempt, parts, size, first, length>>

\* A part after which there is room for more.
AddPart(body) ==
  /\ size + Part(body) < asked.limit
  /\ size' = size + Part(body)
  /\ parts' = IF parts < 3 THEN parts + 1 ELSE 2
  /\ first' = IF parts = 0 THEN body.grow ELSE first
  /\ UNCHANGED <<writing, asked, attempt, length>>

\* A part that ends the inner loop, with others before it.
Conclude(body) ==
  /\ size + Part(body) >= asked.limit /\ parts > 0
  /\ writing' = "done"
  /\ length' = TextLength(Part(body))
  /\ UNCHANGED <<asked, attempt, parts, size, first>>

\* A part that ends the inner loop, and is the only one.
Discard(body) ==
  /\ size + Part(body) >= asked.limit /\ parts = 0
  /\ attempt' = Counted(attempt)
  /\ writing' = IF attempt' >= MaxAttempts THEN "failed" ELSE "writing"
  /\ UNCHANGED <<asked, parts, size, first, length>>

WriteText ==
  /\ writing = "writing"
  /\ \E body \in Bodies[asked.limit][asked.words] :
       AddPart(body) \/ Conclude(body) \/ Discard(body)

GotText ==
  /\ writing \in {"done", "failed"}
  /\ writing' = "idle" /\ asked' = NoText
  /\ attempt' = 0 /\ parts' = 0 /\ size' = 0 /\ first' = 0 /\ length' = 0

TextNext ==
  \/ \E limit \in Limits, L \in WordLists : AskText(limit, L)
  \/ WriteText
  \/ GotText

\* A call that runs goes on running.
TextSpec == TextInit /\ [][TextNext]_textVars /\ WF_textVars(WriteText)

-----------------------------------------------------------------------------
(* Properties                                                              *)

\* "Text of at most max_nb_chars characters", and never an empty one, however
\* the pieces and their separators add up.
TextFits == writing = "done" => 0 < length /\ length <= asked.limit

\* "Faker would loop forever when no word fits; give up after this many
\* attempts instead": every call ends.
TextEnds == writing = "writing" ~> writing # "writing"
==============================================================================
