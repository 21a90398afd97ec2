----------------------------- MODULE MultiLocale -----------------------------
(***************************************************************************)
(* The multi-locale half of proxy.py: a Faker over a list of locales has a  *)
(* child Faker per locale.  A formatter call picks one of the children that *)
(* have the formatter, with the random.Random of the first child, and that  *)
(* child's Rust core draws the value.  Which children have the formatter is *)
(* found out on the first call and kept.                                    *)
(*                                                                          *)
(* What a child does with a call, and its caches, are FormatterCache's; here *)
(* a child is the core and the random.Random its Generator holds, and the   *)
(* formatters added to it.  A stream is [seed, pos].                        *)
(***************************************************************************)
EXTENDS Naturals, FiniteSets

CONSTANTS
  Multis,    \* multi-locale Faker objects
  Locales,   \* the locales of each
  First,     \* the first of them
  KeyOf,     \* KeyOf[l]: what resolve_locale makes of l, with use_weighting
  Keys,      \* the keys of Generator._shared_cores
  Weight,    \* Weight[l]: the weight of l in a weighted Faker
  Names,     \* formatter names (outside Faker.generator_attrs)
  CoreNames, \* those the Rust core has
  Module,    \* the random.Random of generator.py
  Seeds,     \* seed values; Entropy stands for seed = None
  Entropy, None,
  MaxDraws   \* bound on the draws from one stream since it was seeded

ASSUME LocaleAssumption ==
  /\ First \in Locales /\ KeyOf \in [Locales -> Keys] /\ Weight \in [Locales -> Nat]
  /\ CoreNames \subseteq Names

\* Objects are named for what they are made for: the core of a key, or the core
\* and the random.Random of a child of their own.
Cores == Keys \cup (Multis \X Locales)
Randoms == {Module} \cup (Multis \X Locales)

ASSUME StreamAssumption ==
  /\ Entropy \in Seeds /\ MaxDraws \in Nat
  /\ \A m \in Multis, l \in Locales : <<m, l>> \notin Keys \cup {Module}
  /\ None \notin Cores \cup Randoms \cup Seeds
  /\ None \notin [seed : Seeds, pos : 0..MaxDraws]
  /\ \A S \in SUBSET Locales : S # None

VARIABLES
  core,         \* core[m][l]: _core of the Generator of child l; None: no object
  random,       \* random[m][l]: its __random
  weighted,     \* the Fakers that have _weights
  added,        \* added[m][l]: the formatters of custom providers of child l
  mapping,      \* mapping[m][n]: the factories in _cached_<n>_mapping; None: no such attribute
  sharedCores,  \* Generator._shared_cores; None: no entry
  globalSeed,   \* Generator._global_seed; None: Sentinel
  coreStream,   \* coreStream[c]: the state of core c
  randomStream, \* randomStream[r]: the state of the random.Random r
  due,          \* history: due[m][l]: where l's core should be, after a seed; None: unseeded
  dueChoice     \* history: dueChoice[m]: where the choice of locales should be

children == <<core, random, weighted, added>>
streams == <<coreStream, randomStream>>
globals == <<sharedCores, globalSeed>>
history == <<due, dueChoice>>
vars == <<children, mapping, globals, streams, history>>

-----------------------------------------------------------------------------
Stream == [seed : Seeds, pos : 0..MaxDraws]
Fresh(s) == [seed |-> s, pos |-> 0]
Advanced(t) == [t EXCEPT !.pos = @ + 1]
CanDraw(t) == t.pos < MaxDraws

Live(m) == core[m][First] # None
OnShared(m, l) == core[m][l] = sharedCores[KeyOf[l]]

\* hasattr(child, n)
Has(m, l, n) == n \in CoreNames \cup added[m][l]

Init ==
  /\ core = [m \in Multis |-> [l \in Locales |-> None]]
  /\ random = [m \in Multis |-> [l \in Locales |-> None]]
  /\ weighted = {}
  /\ added = [m \in Multis |-> [l \in Locales |-> {}]]
  /\ mapping = [m \in Multis |-> [n \in Names |-> None]]
  /\ sharedCores = [k \in Keys |-> None]
  /\ globalSeed = None
  /\ coreStream = [c \in Cores |-> Fresh(Entropy)]
  /\ randomStream = [r \in Randoms |-> Fresh(Entropy)]
  /\ due = [m \in Multis |-> [l \in Locales |-> None]]
  /\ dueChoice = [m \in Multis |-> None]

-----------------------------------------------------------------------------
(* Construction                                                            *)

\* Mutant of StartSeed: the Sentinel is taken for a seed.
StartUnchecked == globalSeed
\* The seed _shared_core starts a new core with.
StartSeed == IF globalSeed = None THEN Entropy ELSE globalSeed

\* Faker([...]) or, weighted, Faker(OrderedDict(...)): a child per locale, on
\* the shared core of its key, created if need be, and on the module's Random.
NewMulti(m, w) ==
  LET missing == {k \in {KeyOf[l] : l \in Locales} : sharedCores[k] = None}
  IN
    /\ ~Live(m)
    /\ sharedCores' = [k \in Keys |-> IF k \in missing THEN k ELSE sharedCores[k]]
    /\ coreStream' = [c \in Cores |-> IF c \in missing THEN Fresh(StartSeed) ELSE coreStream[c]]
    /\ core' = [core EXCEPT ![m] = [l \in Locales |-> sharedCores'[KeyOf[l]]]]
    /\ random' = [random EXCEPT ![m] = [l \in Locales |-> Module]]
    /\ weighted' = IF w THEN weighted \cup {m} ELSE weighted
    /\ UNCHANGED <<added, mapping, globalSeed, randomStream, history>>

\* fake[l].add_provider(...): the parent's mappings are not told.
AddProvider(m, l, n) ==
  /\ Live(m)
  /\ added' = [added EXCEPT ![m][l] = @ \cup {n}]
  /\ UNCHANGED <<core, random, weighted, mapping, globals, streams, history>>

-----------------------------------------------------------------------------
(* Calls                                                                   *)

\* Mutant of Compatible: every child is taken for one that has n.
Everyone(m, n) == Locales
\* The factories that have n.
Compatible(m, n) == {l \in Locales : Has(m, l, n)}

\* _map_provider_method: the mapping kept from the first call, or a new one.
Mapped(m, n) == IF mapping[m][n] # None THEN mapping[m][n] ELSE Compatible(m, n)

\* Those of several factories that random.choice, or random.choices with the
\* weights, may select.
Eligible(m, n) ==
  {l \in Mapped(m, n) : m \in weighted => Weight[l] > 0}

Draw(m, l) ==
  /\ CanDraw(coreStream[core[m][l]])
  /\ coreStream' = [coreStream EXCEPT ![core[m][l]] = Advanced(@)]
  /\ due' = [due EXCEPT ![m][l] = IF @ = None THEN None ELSE Advanced(@)]

\* fake[l].n(): no selection.
ChildCall(m, l, n) ==
  /\ Live(m) /\ Has(m, l, n)
  /\ Draw(m, l)
  /\ UNCHANGED <<children, mapping, globals, randomStream, dueChoice>>

\* _select_factory selects l: by a draw from the first child's random, unless
\* l is the only factory mapped.
Select(m, n, l) ==
  \/ /\ Mapped(m, n) = {l}
     /\ UNCHANGED <<randomStream, dueChoice>>
  \/ /\ Cardinality(Mapped(m, n)) > 1 /\ l \in Eligible(m, n)
     /\ CanDraw(randomStream[random[m][First]])
     /\ randomStream' = [randomStream EXCEPT ![random[m][First]] = Advanced(@)]
     /\ dueChoice' = [dueChoice EXCEPT ![m] = IF @ = None THEN None ELSE Advanced(@)]

\* fake.n(): the mapping is kept, a child selected, and it draws.
Call(m, n, l) ==
  /\ Live(m)
  /\ mapping' = [mapping EXCEPT ![m][n] = Mapped(m, n)]
  /\ Select(m, n, l) /\ Draw(m, l)
  /\ UNCHANGED <<children, globals>>

\* fake.n() that raises: AttributeError when no factory is mapped, ValueError
\* from random.choices when all weights are zero.  The mapping is kept.
FailedCall(m, n) ==
  /\ Live(m)
  /\ Cardinality(Mapped(m, n)) # 1 /\ Eligible(m, n) = {}
  /\ mapping' = [mapping EXCEPT ![m][n] = Mapped(m, n)]
  /\ UNCHANGED <<children, globals, streams, history>>

\* fake.optional.n(): the wrapper has the formatter already, so a child l was
\* selected; then _chance draws from the first child's core.  That is all when
\* it gives None; else the call of the formatter follows, ChildCall(m, l, n).
OptionalCall(m, n, l) ==
  /\ Live(m)
  /\ mapping' = [mapping EXCEPT ![m][n] = Mapped(m, n)]
  /\ Select(m, n, l) /\ Draw(m, First)
  /\ UNCHANGED <<children, globals>>

-----------------------------------------------------------------------------
(* Seeding                                                                 *)

\* Mutant of OffModule: the children seeded go on with the Random they have.
NoneOff(m, L) == {}
\* The children in L that still hold the module's Random.
OffModule(m, L) == {l \in L : random[m][l] = Module}

\* Generator.seed_instance(s) for each child in L: it gets a Random of its own
\* if it held the module's, and a core of its own if it was on its shared core;
\* what it holds else is seeded in place.
SeedChildren(m, L, s) ==
  LET leaving == {l \in L : OnShared(m, l)}
      off == OffModule(m, L)
  IN
    /\ Live(m)
    /\ core' = [core EXCEPT ![m] =
                 [l \in Locales |-> IF l \in leaving THEN <<m, l>> ELSE core[m][l]]]
    /\ random' = [random EXCEPT ![m] =
                   [l \in Locales |-> IF l \in off THEN <<m, l>> ELSE random[m][l]]]
    /\ coreStream' = [c \in Cores |-> IF \E l \in L : core'[m][l] = c
                                        THEN Fresh(s) ELSE coreStream[c]]
    /\ randomStream' = [r \in Randoms |-> IF \E l \in L : random'[m][l] = r
                                            THEN Fresh(s) ELSE randomStream[r]]
    /\ due' = [due EXCEPT ![m] = [l \in Locales |-> IF l \in L THEN Fresh(s) ELSE due[m][l]]]
    /\ dueChoice' = [dueChoice EXCEPT ![m] = IF First \in L THEN Fresh(s) ELSE @]
    /\ UNCHANGED <<weighted, added, mapping, globals>>

\* fake.seed_instance(s)
SeedInstance(m, s) == SeedChildren(m, Locales, s)

\* fake.seed_locale(l, s)
SeedLocale(m, l, s) == SeedChildren(m, {l}, s)

\* Faker.seed(s)
GlobalSeed(s) ==
  /\ globalSeed' = s
  /\ randomStream' = [randomStream EXCEPT ![Module] = Fresh(s)]
  /\ coreStream' = [c \in Cores |-> IF \E k \in Keys : sharedCores[k] = c
                                      THEN Fresh(s) ELSE coreStream[c]]
  /\ UNCHANGED <<children, mapping, sharedCores, history>>

\* fake.seed_locale(l, x), or fake.seed_instance(x) of which l is the first
\* child, raises: x is refused.  By then the child has a Random of its own, and
\* that of Python 3.10 has made some seed s of x; later ones refuse x, so that
\* a new one has entropy, and one that the child had is left alone.
RefusedSeed(m, l, s) ==
  LET r == IF random[m][l] = Module THEN <<m, l>> ELSE random[m][l]
  IN
    /\ Live(m)
    /\ random' = [random EXCEPT ![m][l] = r]
    /\ randomStream' = [randomStream EXCEPT ![r] = Fresh(s)]
    /\ dueChoice' = [dueChoice EXCEPT ![m] = IF l = First THEN Fresh(s) ELSE @]
    /\ UNCHANGED <<core, weighted, added, mapping, globals, coreStream, due>>

-----------------------------------------------------------------------------
(* Copies                                                                  *)

\* Clones for w of the objects that held gives the children of m: one for each
\* object, whichever children hold it, and in the state it is in.
Clone(held, w) ==
  [l \in Locales |-> <<w, CHOOSE k \in Locales : held[k] = held[l]>>]
Cloned(stream, held, w) ==
  [x \in DOMAIN stream |->
     IF \E l \in Locales : Clone(held, w)[l] = x
       THEN stream[held[CHOOSE l \in Locales : Clone(held, w)[l] = x]]
       ELSE stream[x]]

\* The Randoms of m, cloned for w, the module's too.
CloneRandoms(m, w) ==
  /\ random' = [random EXCEPT ![w] = Clone(random[m], w)]
  /\ randomStream' = Cloned(randomStream, random[m], w)

CopyRest(m, w) ==
  /\ Live(m) /\ ~Live(w)
  /\ weighted' = IF m \in weighted THEN weighted \cup {w} ELSE weighted
  /\ added' = [added EXCEPT ![w] = added[m]]
  /\ dueChoice' = [dueChoice EXCEPT ![w] = dueChoice[m]]

\* copy.deepcopy(fake): cores are cloned as Randoms are; the mappings are
\* left behind.
DeepCopy(m, w) ==
  /\ CopyRest(m, w) /\ CloneRandoms(m, w)
  /\ core' = [core EXCEPT ![w] = Clone(core[m], w)]
  /\ coreStream' = Cloned(coreStream, core[m], w)
  /\ due' = [due EXCEPT ![w] = due[m]]
  /\ UNCHANGED <<mapping, globals>>

\* pickle.loads(pickle.dumps(fake)): Randoms keep their state and mappings
\* survive; a child on its shared core finds it again, another gets a new core.
PickleRoundTrip(m, w) ==
  LET own == {l \in Locales : ~OnShared(m, l)}
  IN
    /\ CopyRest(m, w) /\ CloneRandoms(m, w)
    /\ core' = [core EXCEPT ![w] =
                 [l \in Locales |-> IF l \in own THEN <<w, l>> ELSE core[m][l]]]
    /\ coreStream' = [c \in Cores |-> IF c \in {<<w, l>> : l \in own}
                                        THEN Fresh(Entropy) ELSE coreStream[c]]
    /\ mapping' = [mapping EXCEPT ![w] = mapping[m]]
    /\ due' = [due EXCEPT ![w] = [l \in Locales |-> None]]
    /\ UNCHANGED globals

-----------------------------------------------------------------------------
Use(m) ==
  \/ \E w \in BOOLEAN : NewMulti(m, w)
  \/ \E l \in Locales, n \in Names : AddProvider(m, l, n) \/ ChildCall(m, l, n)
  \/ \E n \in Names, l \in Locales : Call(m, n, l) \/ OptionalCall(m, n, l)
  \/ \E n \in Names : FailedCall(m, n)
  \/ \E s \in Seeds : SeedInstance(m, s)
  \/ \E s \in Seeds, l \in Locales : SeedLocale(m, l, s) \/ RefusedSeed(m, l, s)

\* The children of m hold a core and a Random each.
Apart(m) == \A l, k \in Locales : l # k =>
  core[m][l] # core[m][k] /\ random[m][l] # random[m][k]

\* Clients that copy a Faker only once its children are apart, which
\* seed_instance sees to.
Next ==
  \/ \E m \in Multis : Use(m)
  \/ \E s \in Seeds : GlobalSeed(s)
  \/ \E m, w \in Multis : Apart(m) /\ (DeepCopy(m, w) \/ PickleRoundTrip(m, w))

Spec == Init /\ [][Next]_vars

\* Clients that copy a Faker whenever they like.
NextCopies ==
  \/ \E m \in Multis : Use(m)
  \/ \E s \in Seeds : GlobalSeed(s)
  \/ \E m, w \in Multis : DeepCopy(m, w) \/ PickleRoundTrip(m, w)

SpecCopies == Init /\ [][NextCopies]_vars

-----------------------------------------------------------------------------
(* Properties                                                              *)

\* Type correctness of the children, the mappings and the streams.
MultiTypeOK ==
  /\ core \in [Multis -> [Locales -> Cores \cup {None}]]
  /\ random \in [Multis -> [Locales -> Randoms \cup {None}]]
  /\ weighted \in SUBSET Multis
  /\ added \in [Multis -> [Locales -> SUBSET Names]]
  /\ mapping \in [Multis -> [Names -> {None} \cup SUBSET Locales]]
  /\ sharedCores \in [Keys -> Cores \cup {None}]
  /\ globalSeed \in Seeds \cup {None}
  /\ coreStream \in [Cores -> Stream]
  /\ randomStream \in [Randoms -> Stream]
  /\ due \in [Multis -> [Locales -> Stream \cup {None}]]
  /\ dueChoice \in [Multis -> Stream \cup {None}]

\* What a seeded Faker gives is a function of its seeds and of its own calls:
\* each child's stream, and the stream that selects children, are where these
\* calls have brought them, whatever other Fakers, other children, Faker.seed,
\* seeds that were refused and copies did meanwhile.  A seed of its own that was
\* refused restarts the choice of children, but moves none of them.
PromisedStreams == \A m \in Multis : Live(m) =>
  /\ dueChoice[m] # None => randomStream[random[m][First]] = dueChoice[m]
  /\ \A l \in Locales : due[m][l] # None => coreStream[core[m][l]] = due[m][l]

\* A mapping that is kept lists only children that still have the formatter,
\* across provider additions, copies and pickle round trips.
MappingSupported == \A m \in Multis, n \in Names : mapping[m][n] # None =>
  \A l \in mapping[m][n] : Has(m, l, n)
==============================================================================
