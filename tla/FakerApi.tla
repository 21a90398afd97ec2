------------------------------ MODULE FakerApi ------------------------------
(***************************************************************************)
(* What single-locale Faker objects promise their users, with no formatter *)
(* cache, no bound methods and no shared or private core objects.          *)
(*                                                                         *)
(* A generator answers a formatter name with the method last installed     *)
(* for it, or with the compiled-in one; it draws from ONE random stream,   *)
(* its own or the one its (locale, use_weighting) key shares with every    *)
(* generator that was never seeded by itself.  FormatterCache implements   *)
(* this with caches at two levels and Rust generator objects.              *)
(***************************************************************************)
EXTENDS Naturals, FiniteSets

CONSTANTS
  Gens,        \* identities of generators
  Proxies,     \* identities of Faker proxies
  Keys,        \* (locale, use_weighting) pairs
  Names,       \* formatter names
  CoreNames,   \* the names compiled into the Rust core
  Providers,   \* custom providers
  Methods,     \* Methods[v]: the public callables of provider v
  Seeds,       \* seed values; Entropy stands for seed = None
  Entropy,
  None,        \* no object / nothing set
  Absent,      \* the name is in no dict
  Rust,        \* the "function" of a compiled-in formatter
  Shared,      \* the generator draws from the stream of its key
  MaxDraws     \* bound on the draws from one stream

VARIABLES
  key,         \* key[g]: the key of a live generator, None otherwise
  stream,      \* stream[g]: Shared, or the state of g's own stream
  latest,      \* latest[g][n]: the method n names now
  older,       \* older[g][n]: superseded methods a proxy may still answer with
  proxyGen,    \* proxyGen[p]: the generator a live proxy fronts
  sharedRng,   \* sharedRng[k]: the stream of key k, None before its first use
  globalSeed,  \* the seed of the last Faker.seed, None before it
  last         \* whose method the last call ran

vars == <<key, stream, latest, older, proxyGen, sharedRng, globalSeed, last>>

Fresh(s) == [seed |-> s, pos |-> 0]
Method(f, g) == [fn |-> f, at |-> g]

\* The methods of a generator nobody added a provider to.
BuiltIn(g) == [n \in Names |-> IF n \in CoreNames THEN Method(Rust, g) ELSE Absent]
NoOlder == [n \in Names |-> {}]

RngOf(g) == IF stream[g] = Shared THEN sharedRng[key[g]] ELSE stream[g]

Init ==
  /\ key = [g \in Gens |-> None]
  /\ stream = [g \in Gens |-> None]
  /\ latest = [g \in Gens |-> BuiltIn(g)]
  /\ older = [g \in Gens |-> NoOlder]
  /\ proxyGen = [p \in Proxies |-> None]
  /\ sharedRng = [k \in Keys |-> None]
  /\ globalSeed = None
  /\ last = None

\* Faker(locale): a generator of key k on the shared stream of k, which
\* starts at the global seed when nobody has used it yet.
NewFaker(p, g, k) ==
  /\ proxyGen[p] = None /\ key[g] = None
  /\ key' = [key EXCEPT ![g] = k]
  /\ stream' = [stream EXCEPT ![g] = Shared]
  /\ proxyGen' = [proxyGen EXCEPT ![p] = g]
  /\ sharedRng' = IF sharedRng[k] # None THEN sharedRng
                  ELSE [sharedRng EXCEPT ![k] =
                          Fresh(IF globalSeed = None THEN Entropy ELSE globalSeed)]
  /\ UNCHANGED <<latest, older, globalSeed, last>>

\* Another proxy in front of a live generator.
NewProxy(p, g) ==
  /\ proxyGen[p] = None /\ key[g] # None
  /\ proxyGen' = [proxyGen EXCEPT ![p] = g]
  /\ UNCHANGED <<key, stream, latest, older, sharedRng, globalSeed, last>>

\* A proxy is garbage collected.
DropProxy(p) ==
  /\ proxyGen[p] # None
  /\ proxyGen' = [proxyGen EXCEPT ![p] = None]
  /\ UNCHANGED <<key, stream, latest, older, sharedRng, globalSeed, last>>

\* fake.n(): runs the method n names and draws once from the stream of the
\* generator that method belongs to.
Call(p, n) ==
  LET g == proxyGen[p] IN
  /\ g # None
  /\ \E b \in {latest[g][n]} \cup older[g][n] :
       /\ b # Absent
       /\ LET at == b.at IN
          /\ RngOf(at).pos < MaxDraws
          /\ last' = b.fn
          /\ IF stream[at] = Shared
               THEN /\ sharedRng' = [sharedRng EXCEPT ![key[at]].pos = @ + 1]
                    /\ UNCHANGED stream
               ELSE /\ stream' = [stream EXCEPT ![at].pos = @ + 1]
                    /\ UNCHANGED sharedRng
  /\ UNCHANGED <<key, latest, older, proxyGen, globalSeed>>

\* The methods of g once the names in ms are those of provider v.
Installed(g, v, ms) ==
  [n \in Names |-> IF n \in ms THEN Method(v, g) ELSE latest[g][n]]

\* fake.add_provider(v): the methods of v take over at once, everywhere.
AddProvider(g, v) ==
  /\ key[g] # None
  /\ latest' = [latest EXCEPT ![g] = Installed(g, v, Methods[v])]
  /\ older' = [older EXCEPT ![g] = NoOlder]
  /\ UNCHANGED <<key, stream, proxyGen, sharedRng, globalSeed, last>>

\* Methods installed one by one (set_formatter, or an add_provider that
\* raised half way) take over for the generator; a proxy that used the
\* superseded method may keep it until the next add_provider or reseeding.
SetFormatters(g, v, ms) ==
  /\ key[g] # None
  /\ latest' = [latest EXCEPT ![g] = Installed(g, v, ms)]
  /\ older' = [older EXCEPT ![g] =
       [n \in Names |-> IF n \in ms THEN older[g][n] \cup ({latest[g][n]} \ {Absent})
                                    ELSE older[g][n]]]
  /\ UNCHANGED <<key, stream, proxyGen, sharedRng, globalSeed, last>>

\* fake.seed_instance(s): from now on g draws from a stream of its own.
SeedInstance(g, s) ==
  /\ key[g] # None
  /\ stream' = [stream EXCEPT ![g] = Fresh(s)]
  /\ older' = IF stream[g] = Shared THEN [older EXCEPT ![g] = NoOlder] ELSE older
  /\ UNCHANGED <<key, latest, proxyGen, sharedRng, globalSeed, last>>

\* Faker.seed(s): restarts the shared streams, those of later keys too, and
\* leaves every generator with a stream of its own alone.
GlobalSeed(s) ==
  /\ globalSeed' = s
  /\ sharedRng' = [k \in Keys |-> IF sharedRng[k] = None THEN None ELSE Fresh(s)]
  /\ UNCHANGED <<key, stream, latest, older, proxyGen, last>>

\* The methods of g, installed in its copy g2.
Moved(g, g2) == [n \in Names |-> IF latest[g][n] = Absent THEN Absent
                                 ELSE Method(latest[g][n].fn, g2)]

\* copy.deepcopy(fake): the copy continues the original's stream on its own.
DeepCopy(p, p2, g2) ==
  LET g == proxyGen[p] IN
  /\ g # None /\ proxyGen[p2] = None /\ key[g2] = None
  /\ key' = [key EXCEPT ![g2] = key[g]]
  /\ stream' = [stream EXCEPT ![g2] = RngOf(g)]
  /\ latest' = [latest EXCEPT ![g2] = Moved(g, g2)]
  /\ proxyGen' = [proxyGen EXCEPT ![p2] = g2]
  /\ UNCHANGED <<older, sharedRng, globalSeed, last>>

\* pickle.loads(pickle.dumps(fake)): methods survive, an own stream does not.
PickleRoundTrip(p, p2, g2) ==
  LET g == proxyGen[p] IN
  /\ g # None /\ proxyGen[p2] = None /\ key[g2] = None
  /\ key' = [key EXCEPT ![g2] = key[g]]
  /\ stream' = [stream EXCEPT ![g2] = IF stream[g] = Shared THEN Shared ELSE Fresh(Entropy)]
  /\ latest' = [latest EXCEPT ![g2] = Moved(g, g2)]
  /\ proxyGen' = [proxyGen EXCEPT ![p2] = g2]
  /\ UNCHANGED <<older, sharedRng, globalSeed, last>>

Next ==
  \/ \E p \in Proxies, g \in Gens, k \in Keys : NewFaker(p, g, k)
  \/ \E p \in Proxies, g \in Gens : NewProxy(p, g)
  \/ \E p \in Proxies : DropProxy(p)
  \/ \E p \in Proxies, n \in Names : Call(p, n)
  \/ \E g \in Gens, v \in Providers : AddProvider(g, v)
  \/ \E g \in Gens, v \in Providers, ms \in SUBSET Names : SetFormatters(g, v, ms)
  \/ \E g \in Gens, s \in Seeds : SeedInstance(g, s)
  \/ \E s \in Seeds : GlobalSeed(s)
  \/ \E p, p2 \in Proxies, g2 \in Gens : DeepCopy(p, p2, g2) \/ PickleRoundTrip(p, p2, g2)

Spec == Init /\ [][Next]_vars
=============================================================================
