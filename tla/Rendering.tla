------------------------------ MODULE Rendering ------------------------------
(***************************************************************************)
(* How formatters render templates of one another: render and                *)
(* write_formatter of template.rs, with the composite formatters of          *)
(* person.rs, address.rs, company.rs and internet.rs and what these do to     *)
(* the text they get (slugify of text.rs, lower case).  A text is a sequence  *)
(* of characters: "A" and "a" stand for the letters, "1" for the digits, Blank *)
(* for white space; to_ascii leaves such a text as it is.  The frames are the  *)
(* Rust call stack.                                                          *)
(***************************************************************************)
EXTENDS Integers, Sequences, FiniteSets
Places == INSTANCE FiniteSetsExt

CONSTANTS
  TemplateTables,  \* templates by formatter, sequences of Say and Token
  LeafTexts,       \* what the formatters without templates write
  MaxLevels,       \* bound on the levels and depths asked for
  MaxDepth         \* bound on the frames

ASSUME RenderingAssumption == MaxLevels \in Nat /\ MaxDepth \in Nat \ {0}

VARIABLES
  rendering,      \* "idle", "rendering", "done" or "failed"
  renderRequest,  \* the call under way: [f, n], with the levels or the depth n
  frames,         \* the formatters under way, the innermost first: [f, todo, text]
  rendered        \* the result

renderVars == <<rendering, renderRequest, frames, rendered>>

NoRender == [f |-> "", n |-> 0]
RenderInit == rendering = "idle" /\ renderRequest = NoRender /\ frames = <<>> /\ rendered = <<>>

Blank == "blank"

\* The segments of a template, and what code does in the place of one.
Say(chars) == [op |-> "say", what |-> chars]
Token(f) == [op |-> "token", what |-> <<f>>]
Clear == [op |-> "clear", what |-> <<>>]

-----------------------------------------------------------------------------
(* What the formatters are made of                                         *)

Levels(n) == IF n < 1 THEN 1 ELSE n
DomainName(n) ==
  [i \in 1..(2 * Levels(n) + 1) |->
     CASE i = 2 * Levels(n) + 1 -> Token("tld")
       [] i % 2 = 0 -> Say(<<".">>)
       [] OTHER -> Token("domain_word")]
Hostname(n) ==
  <<Token("hostname_prefix"), Say(<<"-", "1", "1">>)>>
    \o IF n >= 1 THEN <<Say(<<".">>)>> \o DomainName(n) ELSE <<>>

\* uri_path(deep): one to three segments when deep is 0.
UriPaths(deep) ==
  {[i \in 1..(2 * d - 1) |-> IF i % 2 = 0 THEN Say(<<"/">>) ELSE Token("uri_path")] :
   d \in IF deep = 0 THEN 1..3 ELSE {IF deep > 0 THEN deep ELSE 0}}

\* The table of a formatter.  Mutant: write_street_name reads the next one.
NextTable(f) == TemplateTables[IF f = "street_name" THEN "street_address" ELSE f]
TableOf(f) == TemplateTables[f]

UrlBase == {<<Say(scheme \o <<":", "/", "/">>)>> \o t : scheme \in {<<"a">>, <<>>}, t \in TableOf("url")}

\* What a formatter may write, one of these; email(safe = false) draws a user
\* name that it throws away.
Contents(f, n) ==
  CASE f = "domain_word" -> {<<Token("company")>>}
    [] f = "domain_name" -> {DomainName(n)}
    [] f = "hostname" -> {Hostname(n)}
    [] f = "safe_email" -> {<<Token("user_name"), Say(<<"@">>), Token("safe_domain_name")>>}
    [] f = "free_email" -> {<<Token("user_name"), Say(<<"@">>), Token("free_email_domain")>>}
    [] f = "company_email" -> {<<Token("user_name"), Say(<<"@">>), Token("domain_name")>>}
    [] f = "email" -> {<<Token("user_name"), Say(<<"@">>), Clear>> \o t : t \in TableOf("email")}
    [] f = "url" -> UrlBase
    [] f = "uri" -> {b \o p \o <<Token("uri_page"), Token("uri_extension")>> :
                       b \in UrlBase, p \in UriPaths(n)}
    [] OTHER -> TableOf(f)

\* The members of s that are in S, in their order.
Chosen(s, S) ==
  LET upTo[i \in 0..Len(s)] ==
        IF i = 0 THEN <<>>
        ELSE IF s[i] \in S THEN Append(upTo[i - 1], s[i]) ELSE upTo[i - 1]
  IN upTo[Len(s)]

Lower(s) == [i \in 1..Len(s) |-> IF s[i] = "A" THEN "a" ELSE s[i]]
FirstWord(s) ==
  LET blanks == {i \in 1..Len(s) : s[i] = Blank}
  IN IF blanks = {} THEN s ELSE SubSeq(s, 1, Places!Min(blanks) - 1)
Unblanked(s) == Chosen(s, {s[i] : i \in 1..Len(s)} \ {Blank})
Bothified(s) ==
  [i \in 1..Len(s) |-> CASE s[i] = "#" -> "1" [] s[i] = "?" -> "A" [] OTHER -> s[i]]

\* What op makes of s: a function, which TLC applies to the value of s.
Through(s, op(_)) == [t \in {s} |-> op(t)][s]

\* slugify: word characters, blanks and hyphens are kept, blanks at the ends
\* are not; a run of blanks and hyphens becomes one hyphen.
Kept(s) == Chosen(s, {"A", "a", "1", Blank, "-"})
Trimmed(s) ==
  LET inner == {i \in 1..Len(s) : s[i] # Blank}
  IN IF inner = {} THEN <<>> ELSE SubSeq(s, Places!Min(inner), Places!Max(inner))
Separates(s, i) == s[i] \in {Blank, "-"}
Hyphenated(s) ==
  LET places == Chosen([i \in 1..Len(s) |-> i],
                       {i \in 1..Len(s) : i > 1 /\ Separates(s, i) => ~Separates(s, i - 1)})
  IN [k \in 1..Len(places) |-> IF Separates(s, places[k]) THEN "-" ELSE s[places[k]]]
Slug(s) == Through(Through(Through(Kept(s), Trimmed), Hyphenated), Lower)

\* domain_word, of a company's name.  Mutant: as it is.
RawWord(company) == Lower(FirstWord(company))
DomainWord(company) == Lower(Slug(FirstWord(company)))

\* What a formatter makes of the text it wrote.
Finished(f, s) ==
  CASE f = "user_name" -> Slug(Lower(Bothified(s)))
    [] f = "domain_word" -> DomainWord(s)
    [] f = "email" -> Lower(Unblanked(s))
    [] f \in {"safe_email", "free_email", "company_email", "hostname"} -> Lower(s)
    [] OTHER -> s

-----------------------------------------------------------------------------
(* The data that these formatters are made for                             *)

\* Labels of letters, digits and inner hyphens, joined by so many dots.
HostLike(s, dots) ==
  /\ s # <<>> /\ \A i \in 1..Len(s) : s[i] \in {"a", "1", "-", "."}
  /\ \A i \in 1..Len(s) : s[i] = "." \/ s[i] = "-" =>
       i \in 2..(Len(s) - 1) /\ s[i - 1] # "." /\ s[i + 1] # "."
  /\ Cardinality({i \in 1..Len(s) : s[i] = "."}) \in dots

LettersDigits == {"A", "a", "1"}

\* A text that begins with a letter or a digit and has one after every hyphen.
Worded(s) ==
  /\ s # <<>> /\ s[1] \in LettersDigits
  /\ \A i \in 1..Len(s) : s[i] = "-" => i < Len(s) /\ s[i + 1] \in LettersDigits

Coded ==
  {"domain_word", "domain_name", "hostname", "safe_email", "free_email", "company_email", "uri"}
Composites == DOMAIN TemplateTables \cup Coded
TemplatePieces ==
  [op : {"say"}, what : Seq(STRING)] \cup {Token(f) : f \in DOMAIN LeafTexts \cup Composites}

\* Company names begin with a name, and what follows a hyphen is one.
NameTemplate(t) ==
  /\ t # <<>> /\ t[1].op = "token"
  /\ \A k \in 1..Len(t) : t[k].op = "token" =>
       t[k].what[1] \in DOMAIN LeafTexts /\ \A s \in LeafTexts[t[k].what[1]] : Worded(s)
  /\ \A k \in 1..Len(t) : t[k].op = "say" =>
       \A i \in 1..Len(t[k].what) : t[k].what[i] = "-" =>
         IF i < Len(t[k].what) THEN t[k].what[i + 1] \in LettersDigits
         ELSE k < Len(t) /\ t[k + 1].op = "token"

\* A segment of a user name of which bothify and slugify leave something.
Lasts(s) == \E i \in 1..Len(s) : s[i] \in LettersDigits \cup {"#", "?"}
Lasting(seg) ==
  IF seg.op = "say" THEN Lasts(seg.what)
  ELSE seg.what[1] \in DOMAIN LeafTexts /\ \A s \in LeafTexts[seg.what[1]] : Lasts(s)

MailTemplate(t) ==
  \E host \in {"domain_name", "free_email_domain", "safe_domain_name"} :
    t = <<Token("user_name"), Say(<<"@">>), Token(host)>>

\* Before the domain of a URL there may be one label more.
UrlEnd == <<Token("domain_name"), Say(<<"/">>)>>
UrlTemplate(t) ==
  \/ t = UrlEnd
  \/ LET first == t[1].what
         last == Len(first)
     IN /\ t = <<Say(first)>> \o UrlEnd
        /\ last > 0 /\ first[last] = "." /\ HostLike(SubSeq(first, 1, last - 1), {0})

ASSUME NamesAssumption ==
  /\ \A f \in DOMAIN LeafTexts : LeafTexts[f] \subseteq Seq(STRING)
  /\ \A f \in DOMAIN TemplateTables : TemplateTables[f] \subseteq Seq(TemplatePieces)
  /\ DOMAIN LeafTexts \cap Composites = {}
  /\ {"company", "user_name", "email", "url"} \subseteq DOMAIN TemplateTables
  /\ {"tld", "hostname_prefix", "free_email_domain", "safe_domain_name", "uri_path", "uri_page",
       "uri_extension"} \subseteq DOMAIN LeafTexts
  /\ \A s \in LeafTexts["tld"] \cup LeafTexts["hostname_prefix"] : HostLike(s, {0})
  /\ \A s \in LeafTexts["free_email_domain"] \cup LeafTexts["safe_domain_name"] : HostLike(s, {1})
  /\ \A t \in TemplateTables["company"] : NameTemplate(t)
  /\ \A t \in TemplateTables["user_name"] : \E k \in 1..Len(t) : Lasting(t[k])
  /\ \A t \in TemplateTables["email"] : MailTemplate(t)
  /\ \A t \in TemplateTables["url"] : UrlTemplate(t)

-----------------------------------------------------------------------------
Frame(f, todo) == [f |-> f, todo |-> todo, text |-> <<>>]

AskRender(f, n) ==
  /\ renderRequest' = [f |-> f, n |-> n]
  /\ IF f = "domain_name" /\ n < 1
       THEN rendering' = "failed" /\ UNCHANGED frames
       ELSE /\ rendering' = "rendering"
            /\ \E t \in Contents(f, n) : frames' = <<Frame(f, t)>>
  /\ UNCHANGED rendered

UnderWay == rendering = "rendering"
NextIs(op) == UnderWay /\ frames[1].todo # <<>> /\ frames[1].todo[1].op = op
Segment == frames[1].todo[1].what
Callee == Segment[1]

\* The innermost formatter goes on to its next segment, with text s.
Written(s) == [frames EXCEPT ![1].todo = Tail(@), ![1].text = s]

WriteLiteral == NextIs("say") /\ frames' = Written(frames[1].text \o Segment)
ClearText == NextIs("clear") /\ frames' = Written(<<>>)
WriteLeaf ==
  /\ NextIs("token") /\ Callee \in DOMAIN LeafTexts
  /\ \E s \in LeafTexts[Callee] : frames' = Written(frames[1].text \o s)

\* write_formatter of one with templates; beyond MaxDepth no more is recorded.
CallFormatter ==
  /\ NextIs("token") /\ Callee \notin DOMAIN LeafTexts
  /\ \E t \in Contents(Callee, 1) :
       frames' = IF Len(frames) < MaxDepth THEN <<Frame(Callee, t)>> \o Written(frames[1].text)
                 ELSE frames

ReturnText ==
  /\ UnderWay /\ Len(frames) > 1 /\ frames[1].todo = <<>>
  /\ frames' = <<[frames[2] EXCEPT !.text = @ \o Finished(frames[1].f, frames[1].text)]>>
                 \o SubSeq(frames, 3, Len(frames))

RenderStep ==
  \/ /\ WriteLiteral \/ ClearText \/ WriteLeaf \/ CallFormatter \/ ReturnText
     /\ UNCHANGED <<rendering, renderRequest, rendered>>
  \/ /\ UnderWay /\ Len(frames) = 1 /\ frames[1].todo = <<>>
     /\ rendering' = "done" /\ frames' = <<>>
     /\ rendered' = Finished(frames[1].f, frames[1].text)
     /\ UNCHANGED renderRequest

GotRendered ==
  /\ rendering \in {"done", "failed"}
  /\ rendering' = "idle" /\ renderRequest' = NoRender /\ frames' = <<>> /\ rendered' = <<>>

Renderable ==
  DOMAIN TemplateTables \cup {"domain_word", "safe_email", "free_email", "company_email"}

RenderNext ==
  \/ /\ rendering = "idle"
     /\ \/ \E f \in Renderable : AskRender(f, 1)
        \/ \E f \in {"domain_name", "hostname", "uri"}, n \in (-1)..MaxLevels : AskRender(f, n)
  \/ RenderStep
  \/ GotRendered

RenderSpec == RenderInit /\ [][RenderNext]_renderVars

-----------------------------------------------------------------------------
(* Properties                                                              *)

MailLike(s) ==
  \E i \in 2..Len(s) :
    /\ s[i] = "@"
    /\ \A j \in 1..(i - 1) : s[j] \in {"a", "1", "-"}
    /\ HostLike(SubSeq(s, i + 1, Len(s)), {1})

UrlLike(s) ==
  \E i \in 1..Len(s), j \in 1..Len(s) :
    /\ i + 3 < j /\ SubSeq(s, i, i + 2) = <<":", "/", "/">> /\ s[j] = "/"
    /\ HostLike(SubSeq(s, i + 3, j - 1), {1, 2})

\* Whatever names, punctuation and case the nested templates bring in, an
\* e-mail address is one local part, one "@" and a host; a domain name has the
\* levels asked for and a host name its own label before them, all in lower
\* case; a URL has such a host between "://" and "/"; only a domain without a
\* level is refused.
NamesWellFormed ==
  LET n == renderRequest.n
  IN /\ rendering = "failed" => n < 1
     /\ rendering = "done" =>
          CASE renderRequest.f \in {"email", "safe_email", "free_email", "company_email"} ->
                 MailLike(rendered)
            [] renderRequest.f = "domain_word" -> HostLike(rendered, {0})
            [] renderRequest.f = "domain_name" -> HostLike(rendered, {n})
            [] renderRequest.f = "hostname" -> HostLike(rendered, {IF n < 1 THEN 0 ELSE n + 1})
            [] renderRequest.f \in {"url", "uri"} -> UrlLike(rendered)
            [] OTHER -> TRUE

\* No formatter is called while it is under way itself, which nothing but the
\* data rules out (template.rs:98-130): the call stack is no deeper than there are
\* formatters.
NoReentry == \A i, j \in 1..Len(frames) : frames[i].f = frames[j].f => i = j

\* The formatters with templates that f calls: its code does, or a template.
CodeCalls ==
  [domain_word |-> {"company"}, domain_name |-> {"domain_word"}, hostname |-> {"domain_word"},
   safe_email |-> {"user_name"}, free_email |-> {"user_name"}, email |-> {"user_name"},
   company_email |-> {"user_name", "domain_name"}, url |-> {"domain_name"},
   uri |-> {"domain_name"}]
TemplateCalls(f) ==
  {g \in Composites : \E t \in TemplateTables[f] : \E k \in 1..Len(t) : t[k] = Token(g)}
Calls(f) ==
  (IF f \in DOMAIN CodeCalls THEN CodeCalls[f] ELSE {})
    \cup (IF f \in DOMAIN TemplateTables THEN TemplateCalls(f) ELSE {})

\* Formatters lead from a higher rank to lower ones.
Ordered(rank) ==
  \A f \in Composites : rank[f] \in Nat /\ \A g \in Calls(f) : rank[g] < rank[f]

\* Formatters may render templates that name other formatters, and nothing but
\* the data keeps these from going round in circles: every call returns.
RenderingEnds == rendering = "rendering" ~> rendering # "rendering"
=============================================================================
