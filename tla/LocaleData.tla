----------------------------- MODULE LocaleData -----------------------------
(***************************************************************************)
(* A provider's data: build.rs reads the attributes of its JSON file in the   *)
(* order of the schema and refuses what does not fit, and the formatters of   *)
(* the providers pick from what comes out, whichever of the optional tables   *)
(* a locale has.  An attribute is its type, the sizes of its list (or of each *)
(* of its groups or entries) and its weights; a table is as in Tables, and    *)
(* what is no table is compiled into tables without weights.  Templates are    *)
(* tables of items that are parsed (see Tokens); a single string is never      *)
(* picked from.  An item is <<field, index>>.                                 *)
(***************************************************************************)
EXTENDS Tables

CONSTANTS
  RawTables,  \* what a table's attribute may hold: [type, sizes, weights]
  RawGroups,  \* what the attribute of groups may hold
  RawLists    \* what an attribute of any other type may hold

\* A list has one size; only a weighted list has weights.
ASSUME RawAssumption ==
  /\ RawTables \cup RawGroups \cup RawLists
       \subseteq [type : STRING, sizes : Seq(Nat), weights : Seq(Int)]
  /\ \A a \in RawTables : Len(a.sizes) = 1
  /\ \A a \in RawLists : a.type = "int_list" => Len(a.sizes) = 1
  /\ \A a \in RawTables \cup RawGroups \cup RawLists : a.type # "weighted" => a.weights = <<>>

VARIABLES
  compiling,  \* "idle", "building", "refused", "built", "picked", "error" or "panicked"
  provider,   \* which fields are built: one of the schemas below
  built,      \* the tables of each field so far, <<>> for None
  role,       \* the formatter that was called: the field it is named for
  item        \* what it picked, <<>> for what it says without a pick

dataVars == <<compiling, provider, built, role, item>>

DataInit == compiling = "idle" /\ provider = "none" /\ built = <<>> /\ role = 0 /\ item = <<>>

\* opt and req of the schema, in its order: the combined table, those of the
\* female, male and nonbinary names; the groups of catch_phrase and bs; language
\* codes with their regions; the ranges of postcodes of each state; assigned
\* HTTP codes; words by part of speech; countries with their time zones.
Combined == 1
Female == 2
Male == 3
Nonbinary == 4
Field(kind, required) == [kind |-> kind, required |-> required]
Optional(n) == [i \in 1..n |-> Field("Table", FALSE)]
Schema ==
  [names |-> <<Field("Table", TRUE)>> \o Optional(3),
   affixes |-> Optional(4),
   company |-> <<Field("Groups", TRUE), Field("Groups", TRUE)>>,
   base |-> <<Field("ListMap", TRUE)>>,
   address |-> <<Field("RangeMap", FALSE)>>,
   internet |-> <<Field("IntList", TRUE)>>,
   lorem |-> <<Field("ListMap", FALSE)>>,
   date_time |-> <<Field("Countries", TRUE)>>]
TypeOf ==
  [IntList |-> "int_list", RangeMap |-> "int_range_map", ListMap |-> "str_list_map",
   Countries |-> "countries"]

MissingAttribute == [type |-> "none", sizes |-> <<>>, weights |-> <<>>]

\* Mutant of WeightsFit: any number of weights will do.
WeightsSound(a) == ~BadWeights(a.weights)
WeightsFit(a) == Len(a.weights) = a.sizes[1] /\ ~BadWeights(a.weights)

\* What emit_value compiles: no table and no group may be empty, but all else
\* may, whole or in part.
Fits(kind, a) ==
  CASE kind = "Table" ->
         a.sizes[1] > 0 /\ (a.type = "str_list" \/ (a.type = "weighted" /\ WeightsFit(a)))
    [] kind = "Groups" ->
         a.type = "str_list_list" /\ \A i \in 1..Len(a.sizes) : a.sizes[i] > 0
    [] OTHER -> a.type = TypeOf[kind]
Emitted(a) == [i \in 1..Len(a.sizes) |-> [n |-> a.sizes[i], weights |-> a.weights]]

Build(p) ==
  /\ compiling' = "building" /\ provider' = p
  /\ UNCHANGED <<built, role, item>>

\* emit_locale, one field: an attribute that is missing is None, which is told
\* apart from an empty list by its field only.
EmitField(a) ==
  LET field == Schema[provider][Len(built) + 1]
  IN /\ compiling = "building" /\ Len(built) < Len(Schema[provider])
     /\ IF IF a = MissingAttribute THEN field.required ELSE ~Fits(field.kind, a)
          THEN compiling' = "refused" /\ UNCHANGED built
          ELSE built' = Append(built, Emitted(a)) /\ UNCHANGED compiling
     /\ UNCHANGED <<provider, role, item>>

Compile ==
  /\ compiling = "building" /\ Len(built) = Len(Schema[provider])
  /\ compiling' = "built"
  /\ UNCHANGED <<provider, built, role, item>>

-----------------------------------------------------------------------------
Has(f) == built[f] # <<>>

Picked(i) == compiling' = "picked" /\ item' = i
Nothing == Picked(<<>>)
NotFound == compiling' = "error" /\ UNCHANGED item
Panicked == compiling' = "panicked" /\ UNCHANGED item

\* Table::pick, one item of t: an index that is none panics.
Items(t, use) ==
  IF use /\ HasWeights(t)
    THEN {Bisect(Cumulative(t.weights), Len(t.weights), x) : x \in DrawsUpTo(TotalWeight(t.weights))}
    ELSE 1..t.n
PickIn(f, t, use) ==
  IF Items(t, use) = {} \/ Items(t, use) \ (1..t.n) # {}
    THEN Panicked
    ELSE \E i \in Items(t, use) : Picked(<<f, i>>)
PickField(f, use) == PickIn(f, built[f][1], use)

\* pick_concat over the three gendered tables; nothing of nothing is "".
PickAny(use) ==
  LET owner == <<Male, Female, Nonbinary>>
      ts == [k \in 1..3 |-> built[owner[k]][1]]
  IN IF \A k \in 1..3 : ts[k].n = 0
       THEN Nothing
       ELSE \E x \in DrawsFor(ts, use) :
              LET c == Choice(ts, use, x)
              IN IF c[2] \in 1..ts[c[1]].n THEN Picked(<<owner[c[1]], c[2]>>) ELSE Panicked

\* The last resort of pick_gendered.  Mutant: any table there is.
AnyTable(use) ==
  \/ \E f \in {Male, Female, Nonbinary} : Has(f) /\ PickField(f, use)
  \/ (\A f \in {Male, Female, Nonbinary} : ~Has(f)) /\ Nothing
LastResort(use) == Nothing

\* prefix and suffix, by pick_gendered.
PickGendered(use) ==
  CASE Has(Combined) -> PickField(Combined, use)
    [] ~Has(Combined) /\ Has(Male) /\ Has(Female) /\ Has(Nonbinary) -> PickAny(use)
    [] ~Has(Combined) /\ Has(Male) /\ Has(Female) /\ ~Has(Nonbinary) ->
         PickField(Male, use) \/ PickField(Female, use)
    [] OTHER -> LastResort(use)

\* prefix_female and its like, suffixes included.
PickAffix(f, use) == IF f # Combined /\ Has(f) THEN PickField(f, use) ELSE PickGendered(use)

\* first_name_female and its like, last names included.
PickName(f, use) == PickField(IF Has(f) THEN f ELSE Combined, use)

\* join_groups picks one of each group; one that has none panics.
PickGroups(f) ==
  \/ built[f] = <<>> /\ Nothing
  \/ \E g \in 1..Len(built[f]) : PickIn(f, built[f][g], FALSE)

\* locale and timezone: an entry, then one of its list when it has any; the
\* language alone is language_code's.  Without entries the index panics.
PickEntry(f) ==
  \/ built[f] = <<>> /\ Panicked
  \/ \E e \in 1..Len(built[f]) :
       IF built[f][e].n = 0 THEN Nothing ELSE PickIn(f, built[f][e], FALSE)
  \/ built[f] # <<>> /\ provider = "base" /\ Nothing

\* word, of a part of speech: one that is unknown or has no words is an error.
PickWord(f) ==
  \/ NotFound
  \/ \E e \in 1..Len(built[f]) :
       IF built[f][e].n = 0 THEN NotFound ELSE PickIn(f, built[f][e], FALSE)

\* postcode_in_state: a state without a range is an error.
PickRange(f) ==
  \/ NotFound
  \/ \E e \in 1..Len(built[f]) : Picked(<<f, e>>)

Format(f, use) ==
  /\ compiling = "built" /\ f <= Len(built)
  /\ role' = f
  /\ CASE provider = "affixes" -> PickAffix(f, use)
       [] provider = "names" -> PickName(f, use)
       [] provider = "company" -> PickGroups(f)
       [] provider = "internet" -> PickField(f, FALSE)
       [] provider \in {"base", "date_time"} -> PickEntry(f)
       [] provider = "lorem" -> PickWord(f)
       [] provider = "address" -> PickRange(f)
  /\ UNCHANGED <<provider, built>>

GotItem ==
  /\ compiling \in {"refused", "picked", "error", "panicked"}
  /\ compiling' = "idle" /\ provider' = "none" /\ built' = <<>> /\ role' = 0 /\ item' = <<>>

RawAttributes(p) ==
  CASE p \in {"names", "affixes"} -> RawTables
    [] p = "company" -> RawGroups
    [] OTHER -> RawLists

DataNext ==
  \/ compiling = "idle" /\ \E p \in DOMAIN Schema : Build(p)
  \/ \E a \in {MissingAttribute} \cup RawAttributes(provider) : EmitField(a)
  \/ Compile
  \/ \E f \in 1..4, use \in BOOLEAN : Format(f, use)
  \/ GotItem

DataSpec == DataInit /\ [][DataNext]_dataVars

-----------------------------------------------------------------------------
(* Properties                                                              *)

\* build.rs refuses the tables and groups that the picks could not take: no
\* formatter that picks from them ever indexes outside, weighted or not.  Nor do
\* those of other lists, save that a locale may be built without a language, an
\* assigned HTTP code or a country, and what asks for one then panics: an empty
\* list within (no regions, no time zones, no words) is looked for in time.
PanicsOnlyOnEmpty ==
  compiling = "panicked" =>
    \/ provider \in {"base", "date_time"} /\ built[role] = <<>>
    \/ provider = "internet" /\ built[role][1].n = 0

\* A gendered prefix, suffix or name never comes from the table of another
\* gender while there is one of its own, nor, whatever tables a locale lacks,
\* a female or male one from any table but its own and the combined; nonbinary
\* ones may come from the other two when these are all there is.
OwnGender ==
  compiling = "picked" /\ item # <<>> /\ provider \in {"names", "affixes"} /\ role # Combined =>
    /\ Has(role) => item[1] = role
    /\ ~Has(role) => item[1] = Combined \/ (role = Nonbinary /\ Has(Male) /\ Has(Female))
=============================================================================
