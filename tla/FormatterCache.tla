--------------------------- MODULE FormatterCache ---------------------------
(***************************************************************************)
(* generator.py and the single-locale half of proxy.py: Generators,        *)
(* the Faker proxies in front of them, the Rust core generators behind     *)
(* them, and the bound methods cached at both levels so that fake.name()   *)
(* is a dict lookup.                                                       *)
(*                                                                         *)
(* A bound method is [fn, at]: fn = Rust and at = the core it is bound to, *)
(* or fn = the custom provider and at = the generator that provider draws  *)
(* from.  A dict maps every name to a bound method or to Absent.           *)
(***************************************************************************)
EXTENDS Naturals, FiniteSets

CONSTANTS
  Gens,        \* Generator objects
  Proxies,     \* single-locale Faker objects
  Cores,       \* Rust _core.Generator objects
  Keys,        \* (locale, use_weighting) pairs, the keys of _shared_cores
  Names,       \* formatter names (outside Faker.generator_attrs)
  CoreNames,   \* those the Rust core has
  Providers,   \* custom providers
  Methods,     \* Methods[v]: the public callables of provider v
  Seeds,       \* seed values; Entropy stands for seed = None
  Entropy,
  None, Absent, Rust, Shared,
  MaxDraws     \* bound on the draws from one core since it was seeded

ASSUME NamesAssumption ==
  /\ CoreNames \subseteq Names
  /\ Methods \in [Providers -> SUBSET Names]
  /\ Rust \notin Providers
  /\ Entropy \in Seeds
  /\ MaxDraws \in Nat

ASSUME DistinctAssumption ==
  /\ None \notin Gens \cup Cores \cup Keys \cup Seeds
  /\ None \notin [seed : Seeds, pos : 0..MaxDraws]
  /\ Shared \notin [seed : Seeds, pos : 0..MaxDraws] \cup {None}
  /\ Absent \notin [fn : {Rust}, at : Cores \cup Gens \cup {None}] \cup [fn : Providers, at : Gens]

VARIABLES
  key,          \* key[g]: _data_locale and _use_weighting of g; None: no object
  core,         \* core[g]: g._core
  genDict,      \* genDict[g][n]: the bound method in g.__dict__
  genCached,    \* genCached[g]: g._cached
  provMethods,  \* provMethods[g]: g._provider_methods
  registered,   \* registered[g]: g._proxies
  proxyGen,     \* proxyGen[p]: p._factories[0]; None: no object
  proxyDict,    \* proxyDict[p][n]: the bound method in p.__dict__
  cachedNames,  \* cachedNames[p]: p._cached_names
  sharedCores,  \* sharedCores[k]: Generator._shared_cores.get(k)
  globalSeed,   \* Generator._global_seed; None: Sentinel
  rng,          \* rng[c]: the RNG state of core c; None: no object
  last,         \* history: whose method the last call ran
  superseded    \* history: methods replaced without an _invalidate since

genVars == <<key, core, genDict, genCached, provMethods, registered>>
proxyVars == <<proxyGen, proxyDict, cachedNames>>
coreVars == <<sharedCores, globalSeed, rng>>
vars == <<genVars, proxyVars, coreVars, last, superseded>>

-----------------------------------------------------------------------------
RNG == [seed : Seeds, pos : 0..MaxDraws]
CoreMethod == [fn : {Rust}, at : Cores]
ProviderMethod == [fn : Providers, at : Gens]
Bound == CoreMethod \cup ProviderMethod

Fresh(s) == [seed |-> s, pos |-> 0]
Method(f, x) == [fn |-> f, at |-> x]
Empty == [n \in Names |-> Absent]

Live(g) == key[g] # None
FreeCores == {c \in Cores : rng[c] = None}
IsShared(g) == core[g] = sharedCores[key[g]]

Init ==
  /\ key = [g \in Gens |-> None]
  /\ core = [g \in Gens |-> None]
  /\ genDict = [g \in Gens |-> Empty]
  /\ genCached = [g \in Gens |-> {}]
  /\ provMethods = [g \in Gens |-> {}]
  /\ registered = [g \in Gens |-> {}]
  /\ proxyGen = [p \in Proxies |-> None]
  /\ proxyDict = [p \in Proxies |-> Empty]
  /\ cachedNames = [p \in Proxies |-> {}]
  /\ sharedCores = [k \in Keys |-> None]
  /\ globalSeed = None
  /\ rng = [c \in Cores |-> None]
  /\ last = None
  /\ superseded = [g \in Gens |-> [n \in Names |-> {}]]

-----------------------------------------------------------------------------
(* Construction and garbage collection                                     *)

\* The seed _shared_core starts a new core with.
\* Mutant StartUnseeded: later cores are not told.  StartUnchecked: Sentinel is.
StartUnseeded == Entropy
StartUnchecked == globalSeed
StartSeed == IF globalSeed = None THEN Entropy ELSE globalSeed

\* Faker(locale, use_weighting=...): a Generator on the shared core of its
\* key, which _shared_core creates on first use and seeds with the global
\* seed, and the proxy that registers with it.
NewFaker(p, g, k) ==
  /\ proxyGen[p] = None /\ ~Live(g)
  /\ \/ /\ sharedCores[k] # None
        /\ core' = [core EXCEPT ![g] = sharedCores[k]]
        /\ UNCHANGED <<sharedCores, rng>>
     \/ /\ sharedCores[k] = None
        /\ \E c \in FreeCores :
             /\ core' = [core EXCEPT ![g] = c]
             /\ sharedCores' = [sharedCores EXCEPT ![k] = c]
             /\ rng' = [rng EXCEPT ![c] = Fresh(StartSeed)]
  /\ key' = [key EXCEPT ![g] = k]
  /\ registered' = [registered EXCEPT ![g] = {p}]
  /\ proxyGen' = [proxyGen EXCEPT ![p] = g]
  /\ UNCHANGED <<genDict, genCached, provMethods, proxyDict, cachedNames,
                 globalSeed, last, superseded>>

\* Mutant of NewProxy: a copied proxy does not register itself.
NewProxyUnregistered(p, g) ==
  /\ proxyGen[p] = None /\ Live(g)
  /\ proxyGen' = [proxyGen EXCEPT ![p] = g]
  /\ UNCHANGED <<genVars, proxyDict, cachedNames, coreVars, last, superseded>>

\* Faker(generator=g), and copy.copy(fake): a proxy with nothing cached on a
\* generator that already exists.
NewProxy(p, g) ==
  /\ proxyGen[p] = None /\ Live(g)
  /\ proxyGen' = [proxyGen EXCEPT ![p] = g]
  /\ registered' = [registered EXCEPT ![g] = @ \cup {p}]
  /\ UNCHANGED <<key, core, genDict, genCached, provMethods, proxyDict,
                 cachedNames, coreVars, last, superseded>>

\* A proxy is collected; the weak set of its generator forgets it.
DropProxy(p) ==
  /\ proxyGen[p] # None
  /\ registered' = [registered EXCEPT ![proxyGen[p]] = @ \ {p}]
  /\ proxyGen' = [proxyGen EXCEPT ![p] = None]
  /\ proxyDict' = [proxyDict EXCEPT ![p] = Empty]
  /\ cachedNames' = [cachedNames EXCEPT ![p] = {}]
  /\ UNCHANGED <<key, core, genDict, genCached, provMethods, coreVars, last, superseded>>

-----------------------------------------------------------------------------
(* Name resolution and calls                                               *)

\* getattr(g, n) as Python does it: g.__dict__ first, then __getattr__, which
\* asks the core.
Resolved(g, n) == IF genDict[g][n] # Absent THEN genDict[g][n]
                  ELSE IF n \in CoreNames THEN Method(Rust, core[g]) ELSE Absent

\* What p.n evaluates to: p's own dict, then getattr on its generator.
Lookup(p, n) == IF proxyDict[p][n] # Absent THEN proxyDict[p][n]
                ELSE Resolved(proxyGen[p], n)

\* The core the bound method b draws from when it is called.
\* Mutant DrawsFromShared: the helpers of providers never leave the shared core.
DrawsFromShared(b) == IF b.fn = Rust THEN b.at ELSE sharedCores[key[b.at]]
DrawsFrom(b) == IF b.fn = Rust THEN b.at ELSE core[b.at]

\* fake.n(): look the name up, filling both caches on the way, and call it.
Call(p, n) ==
  LET g == proxyGen[p]
      b == Lookup(p, n)
      miss == proxyDict[p][n] = Absent
      genMiss == miss /\ genDict[g][n] = Absent
      c == DrawsFrom(b)
  IN /\ g # None
     /\ b # Absent
     /\ rng[c].pos < MaxDraws
     /\ genDict' = IF genMiss THEN [genDict EXCEPT ![g][n] = b] ELSE genDict
     /\ genCached' = IF genMiss THEN [genCached EXCEPT ![g] = @ \cup {n}] ELSE genCached
     /\ proxyDict' = [proxyDict EXCEPT ![p][n] = b]
     /\ cachedNames' = IF miss THEN [cachedNames EXCEPT ![p] = @ \cup {n}] ELSE cachedNames
     /\ rng' = [rng EXCEPT ![c].pos = @ + 1]
     /\ last' = b.fn
     /\ UNCHANGED <<key, core, provMethods, registered, proxyGen,
                    sharedCores, globalSeed, superseded>>

-----------------------------------------------------------------------------
(* Custom providers                                                        *)

\* The dict of g once set_formatter has stored the methods ms of provider v,
\* whose generator is o.
Stored(g, v, o, ms) ==
  [n \in Names |-> IF n \in ms THEN Method(v, o) ELSE genDict[g][n]]

\* What a bound method of g is to a caller, who cannot tell cores apart.
AsSeen(b, g) == IF b.fn = Rust THEN Method(Rust, g) ELSE b

\* Mutant of SetFormatters: an overridden name stays in _cached.
SetFormattersKeepingCached(g, v, o, ms) ==
  /\ Live(g)
  /\ genDict' = [genDict EXCEPT ![g] = Stored(g, v, o, ms)]
  /\ provMethods' = [provMethods EXCEPT ![g] = @ \cup ms]
  /\ UNCHANGED <<key, core, genCached, registered, proxyVars, coreVars, last, superseded>>

\* set_formatter for every name in ms, with the methods of provider v whose
\* generator is o: setattr, note the name as a provider's, forget that it was
\* a cached core method.  Proxies are not told.  With one name this is a
\* direct set_formatter; with a part of Methods[v] it is an add_provider in
\* which reading a later attribute of v raised.
SetFormatters(g, v, o, ms) ==
  /\ Live(g)
  /\ genDict' = [genDict EXCEPT ![g] = Stored(g, v, o, ms)]
  /\ provMethods' = [provMethods EXCEPT ![g] = @ \cup ms]
  /\ genCached' = [genCached EXCEPT ![g] = @ \ ms]
  /\ superseded' = [superseded EXCEPT ![g] =
       [n \in Names |-> IF n \in ms /\ Resolved(g, n) # Absent
                          THEN superseded[g][n] \cup {AsSeen(Resolved(g, n), g)}
                          ELSE superseded[g][n]]]
  /\ UNCHANGED <<key, core, registered, proxyVars, coreVars, last>>

\* Mutant of Invalidate: the proxies are not told.
InvalidateUntold(g, d, cs, ms) ==
  /\ genDict' = [genDict EXCEPT ![g] =
                   [n \in Names |-> IF n \in cs \ ms THEN Absent ELSE d[n]]]
  /\ genCached' = [genCached EXCEPT ![g] = {}]
  /\ superseded' = [superseded EXCEPT ![g] = [n \in Names |-> {}]]
  /\ UNCHANGED <<proxyDict, cachedNames>>

\* _invalidate, run on the dict d, the _cached set cs and the
\* _provider_methods set ms of g: drop what came from the core, and have every
\* registered proxy clear its own cache.
Invalidate(g, d, cs, ms) ==
  /\ genDict' = [genDict EXCEPT ![g] =
                   [n \in Names |-> IF n \in cs \ ms THEN Absent ELSE d[n]]]
  /\ genCached' = [genCached EXCEPT ![g] = {}]
  /\ proxyDict' = [p \in Proxies |-> IF p \notin registered[g] THEN proxyDict[p]
                     ELSE [n \in Names |-> IF n \in cachedNames[p] THEN Absent
                                           ELSE proxyDict[p][n]]]
  /\ cachedNames' = [p \in Proxies |-> IF p \in registered[g] THEN {} ELSE cachedNames[p]]
  /\ superseded' = [superseded EXCEPT ![g] = [n \in Names |-> {}]]

\* fake.add_provider(v): set_formatter for every public callable of v, then
\* _invalidate.  v's generator o is g when a class is passed.
AddProvider(g, v, o) ==
  LET ms == Methods[v] IN
  /\ Live(g)
  /\ provMethods' = [provMethods EXCEPT ![g] = @ \cup ms]
  /\ Invalidate(g, Stored(g, v, o, ms), genCached[g] \ ms, provMethods[g] \cup ms)
  /\ UNCHANGED <<key, core, registered, proxyGen, coreVars, last>>

-----------------------------------------------------------------------------
(* Seeding                                                                 *)

\* Mutant of SeedInstance: the shared core is reseeded in place.
ReseedInPlace(g, s) ==
  /\ Live(g)
  /\ rng' = [rng EXCEPT ![core[g]] = Fresh(s)]
  /\ UNCHANGED <<genVars, proxyVars, sharedCores, globalSeed, last, superseded>>

\* fake.seed_instance(s): the first time, leave the shared core for a new one
\* and drop every method bound to the old one; later, reseed in place.
SeedInstance(g, s) ==
  /\ Live(g)
  /\ \/ /\ IsShared(g)
        /\ \E c \in FreeCores : /\ core' = [core EXCEPT ![g] = c]
                                /\ rng' = [rng EXCEPT ![c] = Fresh(s)]
        /\ Invalidate(g, genDict[g], genCached[g], provMethods[g])
     \/ /\ ~IsShared(g)
        /\ rng' = [rng EXCEPT ![core[g]] = Fresh(s)]
        /\ UNCHANGED <<core, genDict, genCached, proxyDict, cachedNames, superseded>>
  /\ UNCHANGED <<key, provMethods, registered, proxyGen, sharedCores, globalSeed, last>>

\* Faker.seed(s): remember the seed for shared cores to come, reseed those
\* there are.
GlobalSeed(s) ==
  /\ globalSeed' = s
  /\ rng' = [c \in Cores |-> IF \E k \in Keys : sharedCores[k] = c THEN Fresh(s) ELSE rng[c]]
  /\ UNCHANGED <<genVars, proxyVars, sharedCores, last, superseded>>

-----------------------------------------------------------------------------
(* Copies.  One memo covers everything reachable from what is copied: the    *)
(* generators of the proxies and, through their providers, other generators. *)

Owners(g) == {genDict[g][n].at : n \in {m \in provMethods[g] : genDict[g][m] # Absent}}

Reach(P) ==
  {g \in Gens : \A R \in SUBSET Gens :
     ({proxyGen[p] : p \in P} \subseteq R /\ \A r \in R : Owners(r) \subseteq R) => g \in R}

Injections(S, T) == {f \in [S -> T] : \A x, y \in S : f[x] = f[y] => x = y}

\* The entry b of a generator's dict, in the copy that f describes.
\* Mutant NotRebound: the copy runs the original's provider objects.
NotRebound(b, f) == b
Rebound(b, f) == IF b = Absent THEN Absent ELSE Method(b.fn, f[b.at])

\* What copying the proxies P does apart from the cores: q and f name the new
\* proxies and generators.  Copies keep provider methods, rebound to the
\* copied providers, and nothing that was cached.
CopyObjects(P, q, f) ==
  LET R == Reach(P)
      NewGen(x) == \E g \in R : f[g] = x
      Orig(x) == CHOOSE g \in R : f[g] = x
  IN /\ key' = [x \in Gens |-> IF NewGen(x) THEN key[Orig(x)] ELSE key[x]]
     /\ genDict' = [x \in Gens |-> IF ~NewGen(x) THEN genDict[x]
                      ELSE [n \in Names |-> IF n \in genCached[Orig(x)] THEN Absent
                                            ELSE Rebound(genDict[Orig(x)][n], f)]]
     /\ provMethods' = [x \in Gens |-> IF NewGen(x) THEN provMethods[Orig(x)]
                                       ELSE provMethods[x]]
     /\ registered' = [x \in Gens |-> IF NewGen(x)
                         THEN {q[p] : p \in {r \in P : proxyGen[r] = Orig(x)}}
                         ELSE registered[x]]
     /\ proxyGen' = [y \in Proxies |-> IF \E p \in P : q[p] = y
                       THEN f[proxyGen[CHOOSE p \in P : q[p] = y]] ELSE proxyGen[y]]
     /\ UNCHANGED <<genCached, proxyDict, cachedNames, sharedCores, globalSeed, last, superseded>>

Copyable(P) == P # {} /\ \A p \in P : proxyGen[p] # None
FreshProxies(P) == Injections(P, {p \in Proxies : proxyGen[p] = None})
FreshGens(P) == Injections(Reach(P), {g \in Gens : ~Live(g)})

\* pickle.loads(pickle.dumps(...)): a generator that used the shared core uses
\* it again, one with a core of its own gets a new one seeded from entropy.
PickleRoundTrip(P) ==
  /\ Copyable(P)
  /\ \E q \in FreshProxies(P), f \in FreshGens(P),
        h \in Injections({g \in Reach(P) : ~IsShared(g)}, FreeCores) :
       /\ CopyObjects(P, q, f)
       /\ core' = [x \in Gens |-> IF \E g \in Reach(P) : f[g] = x
                     THEN LET g == CHOOSE r \in Reach(P) : f[r] = x
                          IN IF IsShared(g) THEN sharedCores[key[g]] ELSE h[g]
                     ELSE core[x]]
       /\ rng' = [c \in Cores |-> IF \E g \in DOMAIN h : h[g] = c
                    THEN Fresh(Entropy) ELSE rng[c]]

\* Mutant of DeepCopy: the copy gets the core object itself.
DeepCopySharingCore(P) ==
  /\ Copyable(P)
  /\ \E q \in FreshProxies(P), f \in FreshGens(P) :
       /\ CopyObjects(P, q, f)
       /\ core' = [x \in Gens |-> IF \E g \in Reach(P) : f[g] = x
                     THEN core[CHOOSE g \in Reach(P) : f[g] = x] ELSE core[x]]
       /\ UNCHANGED rng

\* copy.deepcopy of the proxies P: every core reached is cloned once, RNG
\* state included, shared or not.
DeepCopy(P) ==
  /\ Copyable(P)
  /\ \E q \in FreshProxies(P), f \in FreshGens(P),
        h \in Injections({core[g] : g \in Reach(P)}, FreeCores) :
       /\ CopyObjects(P, q, f)
       /\ core' = [x \in Gens |-> IF \E g \in Reach(P) : f[g] = x
                     THEN h[core[CHOOSE g \in Reach(P) : f[g] = x]] ELSE core[x]]
       /\ rng' = [c \in Cores |-> IF \E d \in DOMAIN h : h[d] = c
                    THEN rng[CHOOSE d \in DOMAIN h : h[d] = c] ELSE rng[c]]

-----------------------------------------------------------------------------
(* Clients.  Next: every provider draws from the generator it is added to,   *)
(* and Fakers are copied one at a time.  NextEntangled adds providers of     *)
(* another generator (DynamicProvider without a generator makes its own) and *)
(* Fakers copied together.                                                   *)

Next ==
  \/ \E p \in Proxies, g \in Gens, k \in Keys : NewFaker(p, g, k)
  \/ \E p \in Proxies, g \in Gens : NewProxy(p, g)
  \/ \E p \in Proxies : DropProxy(p)
  \/ \E p \in Proxies, n \in Names : Call(p, n)
  \/ \E g \in Gens, v \in Providers : AddProvider(g, v, g)
  \/ \E g \in Gens, v \in Providers, n \in Names : SetFormatters(g, v, g, {n})
  \/ \E g \in Gens, v \in Providers : \E ms \in SUBSET Methods[v] : SetFormatters(g, v, g, ms)
  \/ \E g \in Gens, s \in Seeds : SeedInstance(g, s)
  \/ \E s \in Seeds : GlobalSeed(s)
  \/ \E p \in Proxies : DeepCopy({p}) \/ PickleRoundTrip({p})

NextEntangled ==
  \/ Next
  \/ \E g, o \in Gens, v \in Providers : Live(o) /\ AddProvider(g, v, o)
  \/ \E P \in SUBSET Proxies : DeepCopy(P) \/ PickleRoundTrip(P)

Spec == Init /\ [][Next]_vars
SpecEntangled == Init /\ [][NextEntangled]_vars

-----------------------------------------------------------------------------
(* Properties                                                              *)

\* Type correctness of the object graph.
TypeOK ==
  /\ key \in [Gens -> Keys \cup {None}]
  /\ core \in [Gens -> Cores \cup {None}]
  /\ genDict \in [Gens -> [Names -> Bound \cup {Absent}]]
  /\ genCached \in [Gens -> SUBSET Names]
  /\ provMethods \in [Gens -> SUBSET Names]
  /\ registered \in [Gens -> SUBSET Proxies]
  /\ proxyGen \in [Proxies -> Gens \cup {None}]
  /\ proxyDict \in [Proxies -> [Names -> Bound \cup {Absent}]]
  /\ cachedNames \in [Proxies -> SUBSET Names]
  /\ sharedCores \in [Keys -> Cores \cup {None}]
  /\ globalSeed \in Seeds \cup {None}
  /\ rng \in [Cores -> RNG \cup {None}]
  /\ last \in Providers \cup {Rust, None}
  /\ superseded \in [Gens -> [Names -> SUBSET [fn : Providers \cup {Rust}, at : Gens]]]

\* Whatever order seedings, copies, pickles and providers came in, a Rust
\* method cached in a generator or in one of its proxies is bound to the core
\* the generator has NOW: none outlives seed_instance swapping the core.
NoStaleCore ==
  /\ \A g \in Gens, n \in Names :
       genDict[g][n] # Absent /\ genDict[g][n].fn = Rust => genDict[g][n].at = core[g]
  /\ \A p \in Proxies, n \in Names :
       proxyDict[p][n] # Absent /\ proxyDict[p][n].fn = Rust
         => proxyDict[p][n].at = core[proxyGen[p]]

\* What a proxy has cached is what resolving the name on its generator gives,
\* unless the method was replaced behind the proxies' back (set_formatter
\* called directly, or an add_provider that raised) since the last _invalidate.
ProxyCoherent ==
  \A p \in Proxies, n \in Names :
    LET g == proxyGen[p] IN
    proxyDict[p][n] # Absent =>
      \/ proxyDict[p][n] = Resolved(g, n)
      \/ AsSeen(proxyDict[p][n], g) \in superseded[g][n]

\* A core that is not the shared one of its key belongs to one generator:
\* seeding or using another Faker cannot move its random stream.
OwnCore ==
  \A g1, g2 \in Gens :
    g1 # g2 /\ Live(g1) /\ Live(g2) /\ core[g1] = core[g2]
      => IsShared(g1) /\ IsShared(g2)

\* After seed_instance every formatter of the generator, overrides and the
\* random helpers of custom providers included, draws from its own core.
FormattersFollowSeed ==
  \A g \in Gens, n \in Names :
    Live(g) /\ ~IsShared(g) /\ Resolved(g, n) # Absent
      => DrawsFrom(Resolved(g, n)) = core[g]

\* Once Faker.seed was called every shared core, those created later and those
\* that instance seedings left behind too, is on the stream of that seed.
GlobalSeedReachesSharedCores ==
  \A k \in Keys : globalSeed # None /\ sharedCores[k] # None
    => rng[sharedCores[k]].seed = globalSeed

\* README, "Custom providers": "Custom Python providers resolve ahead of the
\* Rust core, so overriding a built-in formatter works": a proxy never answers
\* a name with another method than its generator does.
OverrideWins ==
  \A p \in Proxies, n \in Names :
    proxyDict[p][n] # Absent => proxyDict[p][n] = Resolved(proxyGen[p], n)

-----------------------------------------------------------------------------
(* The inductive invariant behind NoStaleCore, ProxyCoherent and             *)
(* GlobalSeedReachesSharedCores, for every client (NextEntangled).           *)

\* Live objects refer to live objects; dead ones hold nothing.
GenObject(g) ==
  IF Live(g) THEN core[g] \in Cores /\ rng[core[g]] # None
  ELSE /\ genDict[g] = Empty /\ genCached[g] = {} /\ provMethods[g] = {}
       /\ superseded[g] = [n \in Names |-> {}]

ProxyObject(p) ==
  IF proxyGen[p] = None THEN proxyDict[p] = Empty /\ cachedNames[p] = {}
  ELSE Live(proxyGen[p])

SharedObject(k) == sharedCores[k] # None => rng[sharedCores[k]] # None

\* A generator knows every proxy in front of it, so that _invalidate misses none.
RegisteredExactly(g) == registered[g] = {p \in Proxies : proxyGen[p] = g}

\* _cached and _provider_methods split the names a generator holds by where
\* the method came from.
GenEntry(g, n) ==
  /\ n \in genCached[g] => /\ n \notin provMethods[g] /\ n \in CoreNames
                           /\ genDict[g][n] = Method(Rust, core[g])
  /\ n \in provMethods[g] => genDict[g][n] \in ProviderMethod /\ Live(genDict[g][n].at)
  /\ n \notin genCached[g] \cup provMethods[g] => genDict[g][n] = Absent

\* A name is in a proxy's dict iff it is in _cached_names; what it holds is
\* current or superseded.
ProxyEntry(p, n) ==
  LET b == proxyDict[p][n]
      g == proxyGen[p]
  IN /\ n \in cachedNames[p] <=> b # Absent
     /\ b # Absent =>
          /\ b.fn = Rust => b.at = core[g]
          /\ b.fn # Rust => Live(b.at)
          /\ b = Resolved(g, n) \/ AsSeen(b, g) \in superseded[g][n]

ObjectsInv == /\ \A g \in Gens : GenObject(g) /\ RegisteredExactly(g)
              /\ \A p \in Proxies : ProxyObject(p)
              /\ \A k \in Keys : SharedObject(k)
GenDictInv == \A g \in Gens, n \in Names : GenEntry(g, n)
ProxyDictInv == \A p \in Proxies, n \in Names : ProxyEntry(p, n)

\* A core is shared under one key only, and by generators of that key only.
SharedKeys ==
  /\ \A k, l \in Keys : sharedCores[k] # None /\ sharedCores[k] = sharedCores[l] => k = l
  /\ \A g \in Gens, k \in Keys : Live(g) /\ core[g] = sharedCores[k] => key[g] = k

CacheInv == /\ TypeOK /\ ObjectsInv /\ GenDictInv /\ ProxyDictInv /\ SharedKeys
            /\ GlobalSeedReachesSharedCores

\* What FormattersFollowSeed needs on top, for clients that do not entangle
\* generators: every provider draws from the generator that holds its methods.
OwnProviders == \A g \in Gens, n \in Names : n \in provMethods[g] => genDict[g][n].at = g
IsolationInv == OwnCore /\ OwnProviders

\* The caches and core objects implement FakerApi: every call runs a method,
\* and draws from a stream, that resolution without any cache allows.
Api == INSTANCE FakerApi WITH
  stream <- [g \in Gens |-> IF ~Live(g) THEN None
                            ELSE IF IsShared(g) THEN Shared ELSE rng[core[g]]],
  latest <- [g \in Gens |-> [n \in Names |->
               IF Resolved(g, n) = Absent THEN Absent ELSE AsSeen(Resolved(g, n), g)]],
  older <- superseded,
  sharedRng <- [k \in Keys |-> IF sharedCores[k] = None THEN None ELSE rng[sharedCores[k]]]

ApiSpec == Api!Spec
=============================================================================
