------------------------------- MODULE MCDraws -------------------------------
(***************************************************************************)
(* Draws on small collections, 3-bit integers, word lists of one or two       *)
(* lengths, 7-bit addresses, days of three seconds, templates of the en_US     *)
(* data and attributes of every shape that build.rs tells apart.               *)
(***************************************************************************)
EXTENDS Draws

LOCAL INSTANCE SequencesExt

Plain(lengths) == [len : lengths, grow : {0}]

\* No word; short words; words that fit no short text.
MCWordLists == {{}, Plain({1, 4}), Plain({30})}

\* A word whose first letter has a longer upper case; the empty word.
MCGrowing == {[len : {4}, grow : {1}]}
MCEmpty == {Plain({0})}

\* The classes halve what is left, as a, b and c do; each has its private
\* network.  Reserved networks lie at the edges and in the middle of classes,
\* at the end of everything, and one within another, as 255.255.255.255 does.
Network(addr, prefix) == [addr |-> addr, prefix |-> prefix]
MCClasses == <<Network(0, 1), Network(64, 2), Network(96, 3)>>
MCPrivate == <<Network(8, 4), Network(72, 5), Network(104, 6)>>
MCReserved ==
  <<Network(0, 4), Network(50, 6), Network(56, 4), Network(84, 6), Network(96, 7),
    Network(97, 7), Network(100, 6), Network(112, 4), Network(120, 4), Network(127, 7)>>

\* The ends of February with a leap day and without, the ends of a year, of a
\* century, and of the calendar.
MCToday ==
  {Ymd(2023, 2, 28), Ymd(2023, 3, 1), Ymd(2024, 2, 28), Ymd(2024, 2, 29), Ymd(2024, 3, 1),
   Ymd(2023, 12, 31), Ymd(2000, 1, 1), Ymd(1, 3, 1), Ymd(9999, 6, 15), Ymd(9999, 12, 31)}
MCNoDay == {}

\* UTC; a zone whose clock goes back between two ends of a month; clocks set on
\* and back at midnight, and one set on across it.
Zone(turn, old, new) == [turn |-> turn, old |-> old, new |-> new]
MCZones ==
  {Zone(2, 0, 0), Zone(Midnight(Ymd(2024, 2, 15)), 2, -2), Zone(Midnight(Ymd(2024, 3, 1)) + 2, -2, 0),
   Zone(Midnight(Ymd(2024, 3, 1)), 2, 0), Zone(Midnight(Ymd(2024, 3, 1)), -2, 2)}
\* The local clock is east of Greenwich or west of it.
MCLocals == {-4, 4}
\* The epoch, and the first day of date_time_ad.
MCStarts == {Ymd(1970, 1, 1), Ymd(1, 1, 1)}

\* What may follow a brace, three or four pieces long: tokens, two tokens, tokens
\* with a group and all but tokens, behind one brace, two or three.
MCPieces ==
  {<<"open">>, <<"open", "open">>, <<"open", "open", "word">>, <<"close", "close">>,
   <<"word">>, <<"blank">>, <<"colon">>}
MCTexts ==
  {<<"open">> \o FlattenSeq(p) : p \in UNION {[1..n -> MCPieces] : n \in 0..4}} \cup
  {<<"open", "open", "word", "colon">> \o FlattenSeq(p) : p \in [1..3 -> MCPieces]}
MCKnown == {<<"word">>}
MCNoText == {}

\* Texts of up to two placeholders, and some of three; letters that are themselves
\* placeholders, none, and the ones that lexify has.
MCFills ==
  UNION {[1..n -> {"#", "%", "$", "!", "@", "?", "^", "-"}] : n \in 0..2}
    \cup {<<"#", "?", "!">>, <<"?", "@", "?">>}
MCFewFills == {}
MCLetters == {{"a"}, {}, {"#"}, {"?", "!"}}
MCDefault == {"a"}
MCFormats ==
  [phone_number |-> {<<"%", "#", "-", "!">>, <<"$", "#">>}, msisdn |-> {<<"%", "#", "#">>},
   basic_phone_number |-> {}, building_number |-> {<<"%">>, <<"%", "#">>},
   military_apo |-> {<<"-", "#", "#">>}, military_dpo |-> {}, secondary_address |-> {},
   postcode |-> {<<"?", "#", "?">>, <<"%", "@">>}]
MCSuffixes == {<<"F">>, <<"F", "K">>, <<"?", "#">>}

\* Templates of locales/en_US, their names cut to one letter of each case.
T(f) == <<Token(f)>>
S(c) == <<Say(<<c>>)>>
MCTemplates ==
  [company |->
     {T("last_name") \o S(Blank) \o T("company_suffix"), T("last_name") \o S("-") \o T("last_name"),
      T("last_name") \o <<Say(<<",", Blank>>)>> \o T("last_name") \o <<Say(<<Blank, "a", Blank>>)>>
        \o T("last_name")},
   user_name |->
     {T("last_name") \o S(".") \o T("first_name"), T("first_name") \o <<Say(<<"#", "#">>)>>,
      S("?") \o T("last_name")},
   email |->
     {T("user_name") \o S("@") \o T("domain_name"),
      T("user_name") \o S("@") \o T("free_email_domain")},
   url |->
     {<<Say(<<"a", ".">>)>> \o T("domain_name") \o S("/"), T("domain_name") \o S("/")},
   address |->
     {T("street_address") \o S("\n") \o T("city") \o <<Say(<<",", Blank>>)>> \o T("state_abbr")
        \o S(Blank) \o T("postcode"),
      T("military_apo") \o S("\n") \o T("military_state") \o S(Blank) \o T("postcode")},
   city |->
     {T("city_prefix") \o S(Blank) \o T("first_name") \o T("city_suffix"),
      T("last_name") \o T("city_suffix")},
   street_address |->
     {T("building_number") \o S(Blank) \o T("street_name"),
      T("building_number") \o S(Blank) \o T("street_name") \o S(Blank) \o T("secondary_address")},
   street_name |->
     {T("first_name") \o S(Blank) \o T("street_suffix"), T("last_name") \o S(Blank) \o T("street_suffix")},
   name |->
     {T("first_name") \o S(Blank) \o T("last_name"),
      T("prefix") \o S(Blank) \o T("first_name") \o S(Blank) \o T("last_name")}]
Word == {<<"A", "a">>}
MCLeaves ==
  [first_name |-> Word, last_name |-> Word, prefix |-> {<<"A", ".">>}, city_prefix |-> Word,
   city_suffix |-> {<<"a">>}, street_suffix |-> Word, company_suffix |-> {<<"A", "a">>, <<"a", Blank, "A">>},
   building_number |-> {<<"1">>}, secondary_address |-> {<<"A", ".", Blank, "1">>},
   state_abbr |-> {<<"A">>}, military_state |-> {<<"A">>}, military_apo |-> {<<"A", Blank, "1">>},
   postcode |-> {<<"1">>}, free_email_domain |-> {<<"a", ".", "a">>},
   safe_domain_name |-> {<<"a", ".", "a">>}, tld |-> {<<"a">>}, hostname_prefix |-> {<<"a">>},
   uri_path |-> {<<"a", "-", "a">>}, uri_page |-> {<<"a">>}, uri_extension |-> {<<".", "a">>}]

\* The templates of en_US lead from formatters of a higher rank to lower ones.
MCRank ==
  [f \in Composites |->
     CASE f \in {"company", "user_name", "city", "street_name", "name"} -> 0
       [] f \in {"domain_word", "safe_email", "free_email", "street_address"} -> 1
       [] f \in {"domain_name", "address"} -> 2
       [] OTHER -> 3]
ASSUME TemplatesOrdered == Ordered(MCRank)

\* Lists, weights that fit and that do not, and what is no table or no groups.
List(n) == [type |-> "str_list", sizes |-> <<n>>, weights |-> <<>>]
WeightedList(n, w) == [type |-> "weighted", sizes |-> <<n>>, weights |-> w]
MCRawTables ==
  {List(0), List(2), [type |-> "str", sizes |-> <<1>>, weights |-> <<>>],
   WeightedList(0, <<>>), WeightedList(1, <<1>>), WeightedList(2, <<1>>), WeightedList(1, <<1, 1>>),
   WeightedList(2, <<0, 1>>), WeightedList(2, <<0, 0>>), WeightedList(2, <<-1, 2>>)}
MCRawGroups ==
  {[type |-> "str_list_list", sizes |-> s, weights |-> <<>>] :
     s \in {<<>>, <<1>>, <<2, 1>>, <<1, 0>>}} \cup {List(2)}
\* Lists, whole and in part empty or not.
Listed(type, sizes) == [type |-> type, sizes |-> sizes, weights |-> <<>>]
MCRawLists ==
  {Listed("int_list", <<n>>) : n \in {0, 2}}
    \cup {Listed(type, s) : type \in {"str_list_map", "countries"}, s \in {<<>>, <<0>>, <<0, 2>>}}
    \cup {Listed("int_range_map", s) : s \in {<<>>, <<1, 1>>}} \cup {List(2)}
MCNoRaw == {}

\* Parts in the order of the units, in another, twice, without a sign or a unit,
\* and what is no part.
MCParts ==
  {<<"+", "1", "y">>, <<"-", "1", "0", "M">>, <<"+", "1", "d">>, <<"1", "d">>, <<"x">>, <<"+">>,
   <<"-", "0", "y">>}
MCSpans == {FlattenSeq(p) : p \in UNION {[1..n -> MCParts] : n \in 0..3}}
MCNoSpan == {}
MCUnits == <<"y", "M", "d">>
==============================================================================
