------------------------------ MODULE ApiProofs ------------------------------
(***************************************************************************)
(* FormatterCache implements FakerApi, for every number of objects, names and *)
(* providers: a lemma for each action says that it is the action of the same  *)
(* name without caches, seen through the refinement mapping of Api.            *)
(***************************************************************************)
EXTENDS FormatterCacheProofs

\* The refinement mapping, variable by variable.
StreamOf(g) == IF ~Live(g) THEN None ELSE IF IsShared(g) THEN Shared ELSE rng[core[g]]
LatestOf(g, n) == IF Resolved(g, n) = Absent THEN Absent ELSE AsSeen(Resolved(g, n), g)
SharedRngOf(k) == IF sharedCores[k] = None THEN None ELSE rng[sharedCores[k]]

streamMap == [g \in Gens |-> StreamOf(g)]
latestMap == [g \in Gens |-> [n \in Names |-> LatestOf(g, n)]]
sharedRngMap == [k \in Keys |-> SharedRngOf(k)]

Inv == CacheInv /\ IsolationInv

-----------------------------------------------------------------------------
(* What the mapping gives                                                  *)

LEMMA SharedIsNoRNG == Shared \notin RNG /\ Shared # None /\ None \notin RNG
  BY DistinctAssumption DEF RNG

\* A live generator is on a core that has a state; so is a shared core.
LEMMA LiveCore ==
  ASSUME CacheInv, NEW g \in Gens, Live(g)
  PROVE  /\ core[g] \in Cores /\ core[g] # None /\ rng[core[g]] \in RNG
         /\ key[g] \in Keys /\ key[g] # None
         /\ IsShared(g) => sharedCores[key[g]] = core[g]
<1>1. core[g] \in Cores /\ rng[core[g]] # None
  BY DEF CacheInv, ObjectsInv, GenObject
<1>2. rng[core[g]] \in RNG
  BY <1>1 DEF CacheInv, TypeOK
<1>3. key[g] \in Keys /\ key[g] # None
  BY DEF CacheInv, TypeOK, Live
<1> QED
  BY <1>1, <1>2, <1>3, Constants DEF IsShared

LEMMA SharedCoreLive ==
  ASSUME CacheInv, NEW k \in Keys, sharedCores[k] # None
  PROVE  sharedCores[k] \in Cores /\ rng[sharedCores[k]] \in RNG
<1>1. sharedCores[k] \in Cores /\ rng[sharedCores[k]] # None
  BY DEF CacheInv, ObjectsInv, SharedObject, TypeOK
<1> QED
  BY <1>1 DEF CacheInv, TypeOK

\* A generator is on the shared stream exactly if it is on its shared core, and
\* the stream it draws from is that of its core.
LEMMA StreamShared ==
  ASSUME CacheInv, NEW g \in Gens, Live(g)
  PROVE  /\ StreamOf(g) = Shared <=> IsShared(g)
         /\ IsShared(g) => SharedRngOf(key[g]) = rng[core[g]]
         /\ ~IsShared(g) => StreamOf(g) = rng[core[g]]
BY LiveCore, SharedIsNoRNG DEF StreamOf, SharedRngOf

\* What FakerApi sees of a method is one exactly when there is a method.
LEMMA SeenMethod ==
  ASSUME NEW g \in Gens, NEW b, b \in Bound \/ b = Method(Rust, None)
  PROVE  b # Absent /\ AsSeen(b, g) # Absent
BY Constants DEF AsSeen, Method, Bound, CoreMethod, ProviderMethod

LEMMA ResolvedType ==
  ASSUME CacheInv, NEW g \in Gens, NEW n \in Names
  PROVE  Resolved(g, n) \in Bound \cup {Method(Rust, None), Absent}
<1>1. genDict[g][n] \in Bound \cup {Absent} /\ core[g] \in Cores \cup {None}
  BY DEF CacheInv, TypeOK
<1> QED
  BY <1>1 DEF Resolved, Method, Bound, CoreMethod

\* A method comes from a provider, or is the compiled-in one: which of them was
\* cached, and to which core it is bound, cannot be told.
Origins == \A g \in Gens, n \in Names :
  LatestOf(g, n) = IF n \in provMethods[g] THEN genDict[g][n]
                   ELSE IF n \in CoreNames THEN Method(Rust, g) ELSE Absent

LEMMA LatestByOrigin == CacheInv => Origins
<1> SUFFICES ASSUME CacheInv, NEW g \in Gens, NEW n \in Names
             PROVE  LatestOf(g, n) = IF n \in provMethods[g] THEN genDict[g][n]
                                     ELSE IF n \in CoreNames THEN Method(Rust, g) ELSE Absent
  BY DEF Origins
<1>1. GenEntry(g, n) /\ core[g] \in Cores \cup {None}
  BY DEF CacheInv, GenDictInv, TypeOK
<1>2. CASE n \in provMethods[g]
  <2>1. genDict[g][n] \in ProviderMethod /\ genDict[g][n] # Absent
    BY <1>1, <1>2, Constants DEF GenEntry, Bound
  <2>2. genDict[g][n].fn # Rust
    BY <2>1, Constants DEF ProviderMethod
  <2> QED
    BY <1>2, <2>1, <2>2 DEF Resolved, LatestOf, AsSeen
<1>3. CASE n \notin provMethods[g]
  <2>1. Resolved(g, n) = IF n \in CoreNames THEN Method(Rust, core[g]) ELSE Absent
    BY <1>1, <1>3, Constants DEF GenEntry, Resolved
  <2>2. Method(Rust, core[g]) # Absent /\ Method(Rust, core[g]).fn = Rust
    BY <1>1, Constants DEF Method
  <2> QED
    BY <1>3, <2>1, <2>2 DEF LatestOf, AsSeen
<1> QED
  BY <1>2, <1>3

LEMMA LatestByOriginNext == CacheInv' => Origins'
  BY LatestByOrigin, PTL

\* Methods stay what they are while the dicts keep those of providers.
LEMMA LatestKept ==
  ASSUME CacheInv, CacheInv', NEW g \in Gens, provMethods'[g] = provMethods[g],
         \A n \in Names : n \in provMethods[g] => genDict'[g][n] = genDict[g][n]
  PROVE  \A n \in Names : LatestOf(g, n)' = LatestOf(g, n)
BY LatestByOrigin, LatestByOriginNext DEF Origins

\* A stream stays what it is while its generator stays on its core, and this is
\* shared as before and, if not shared, in the state it was.
LEMMA StreamKept ==
  ASSUME NEW g \in Gens, key'[g] = key[g],
         Live(g) => /\ core'[g] = core[g] /\ (IsShared(g)' <=> IsShared(g))
                    /\ ~IsShared(g) => rng'[core[g]] = rng[core[g]]
  PROVE  StreamOf(g)' = StreamOf(g)
BY DEF StreamOf, Live

-----------------------------------------------------------------------------
(* Initial states                                                          *)

LEMMA InitMaps == Init => Api!Init
<1> SUFFICES ASSUME Init PROVE Api!Init
  OBVIOUS
<1>1. \A g \in Gens : StreamOf(g) = None
  BY DEF Init, StreamOf, Live
<1>2. \A g \in Gens, n \in Names :
        LatestOf(g, n) = IF n \in CoreNames THEN Method(Rust, g) ELSE Absent
  <2>1. CacheInv
    BY InitCacheInv
  <2> QED
    BY <2>1, LatestByOrigin DEF Origins, Init
<1>3. \A k \in Keys : SharedRngOf(k) = None
  BY DEF Init, SharedRngOf
<1> QED
  BY <1>1, <1>2, <1>3 DEF Init, Api!Init, Api!BuiltIn, Api!NoOlder, Api!Method, Method,
                          StreamOf, LatestOf, SharedRngOf

-----------------------------------------------------------------------------
(* Construction and garbage collection                                     *)

LEMMA NewFakerMaps ==
  ASSUME CacheInv, CacheInv', NEW p \in Proxies, NEW g \in Gens, NEW k \in Keys,
         NewFaker(p, g, k)
  PROVE  Api!NewFaker(p, g, k)
<1>1. PICK c \in Cores :
        /\ core' = [core EXCEPT ![g] = c]
        /\ \/ sharedCores[k] = c /\ UNCHANGED <<sharedCores, rng>>
           \/ /\ sharedCores[k] = None /\ rng[c] = None
              /\ sharedCores' = [sharedCores EXCEPT ![k] = c]
              /\ rng' = [rng EXCEPT ![c] = Fresh(StartSeed)]
  BY Constants DEF NewFaker, FreeCores, CacheInv, TypeOK
<1>2. /\ proxyGen[p] = None /\ key[g] = None /\ key' = [key EXCEPT ![g] = k]
      /\ proxyGen' = [proxyGen EXCEPT ![p] = g]
      /\ UNCHANGED <<genDict, provMethods, superseded, globalSeed, last>>
  BY DEF NewFaker, Live
<1>3. /\ key \in [Gens -> Keys \cup {None}] /\ core \in [Gens -> Cores \cup {None}]
      /\ sharedCores \in [Keys -> Cores \cup {None}] /\ rng \in [Cores -> RNG \cup {None}]
  BY DEF CacheInv, TypeOK
<1>4. sharedCores' = [sharedCores EXCEPT ![k] = c]
  BY <1>1, <1>3
<1>5. \A x \in Gens : x # g => StreamOf(x)' = StreamOf(x)
  <2> SUFFICES ASSUME NEW x \in Gens, x # g PROVE StreamOf(x)' = StreamOf(x)
    OBVIOUS
  <2>1. key'[x] = key[x] /\ core'[x] = core[x]
    BY <1>1, <1>2, <1>3
  <2>2. ASSUME Live(x)
        PROVE  (IsShared(x)' <=> IsShared(x)) /\ rng'[core[x]] = rng[core[x]]
    <3>1. core[x] \in Cores /\ rng[core[x]] # None /\ core[x] # None /\ key[x] \in Keys
      BY <2>2, LiveCore, SharedIsNoRNG
    <3>2. rng'[core[x]] = rng[core[x]]
      BY <3>1, <1>1, <1>3
    <3>3. core[x] = sharedCores'[key[x]] <=> core[x] = sharedCores[key[x]]
      BY <3>1, <1>1, <1>3
    <3> QED
      BY <3>2, <3>3, <2>1 DEF IsShared
  <2> QED
    BY <2>1, <2>2, StreamKept
<1>6. StreamOf(g)' = Shared
  <2>1. key'[g] = k /\ core'[g] = c /\ sharedCores'[k] = c
    BY <1>1, <1>2, <1>3, <1>4
  <2> QED
    BY <2>1, Constants DEF StreamOf, Live, IsShared
<1>7. \A x \in Gens, n \in Names : LatestOf(x, n)' = LatestOf(x, n)
  BY <1>2, LatestKept
<1>8. \A l \in Keys : l # k => SharedRngOf(l)' = SharedRngOf(l)
  <2> SUFFICES ASSUME NEW l \in Keys, l # k PROVE SharedRngOf(l)' = SharedRngOf(l)
    OBVIOUS
  <2>1. sharedCores'[l] = sharedCores[l]
    BY <1>3, <1>4
  <2>2. sharedCores[l] # None => rng'[sharedCores[l]] = rng[sharedCores[l]]
    BY <1>1, <1>3, SharedCoreLive, SharedIsNoRNG
  <2> QED
    BY <2>1, <2>2 DEF SharedRngOf
<1>9. SharedRngOf(k)' = IF SharedRngOf(k) # None THEN SharedRngOf(k) ELSE Fresh(StartSeed)
  <2>1. CASE sharedCores[k] = c
    BY <2>1, <1>1, <1>4, SharedCoreLive, SharedIsNoRNG, Constants DEF SharedRngOf
  <2>2. CASE sharedCores[k] # c
    <3>1. sharedCores[k] = None /\ rng' = [rng EXCEPT ![c] = Fresh(StartSeed)] /\ sharedCores'[k] = c
      BY <2>2, <1>1, <1>3
    <3> QED
      BY <3>1, <1>3, Constants DEF SharedRngOf
  <2> QED
    BY <2>1, <2>2
<1>10. sharedRngMap' = IF SharedRngOf(k) # None THEN sharedRngMap
                       ELSE [sharedRngMap EXCEPT ![k] = Fresh(StartSeed)]
  BY <1>8, <1>9 DEF sharedRngMap
<1>11. streamMap' = [streamMap EXCEPT ![g] = Shared]
  BY <1>5, <1>6 DEF streamMap
<1>12. latestMap' = latestMap
  BY <1>7 DEF latestMap
<1> QED
  BY <1>2, <1>10, <1>11, <1>12
     DEF Api!NewFaker, Api!Fresh, Fresh, StartSeed, streamMap, latestMap, sharedRngMap,
         StreamOf, LatestOf, SharedRngOf

\* Proxies come and go without a change to what any generator is.
LEMMA ProxyMaps ==
  ASSUME NEW p \in Proxies,
         \/ \E g \in Gens : NewProxy(p, g)
         \/ DropProxy(p)
  PROVE  \/ \E g \in Gens : Api!NewProxy(p, g)
         \/ Api!DropProxy(p)
<1>1. UNCHANGED <<key, core, genDict, sharedCores, rng>>
  BY DEF NewProxy, DropProxy, coreVars
<1>2. /\ \A g \in Gens : StreamOf(g)' = StreamOf(g)
      /\ \A g \in Gens, n \in Names : LatestOf(g, n)' = LatestOf(g, n)
      /\ \A k \in Keys : SharedRngOf(k)' = SharedRngOf(k)
  BY <1>1 DEF StreamOf, LatestOf, SharedRngOf, Live, IsShared, Resolved, AsSeen
<1>3. streamMap' = streamMap /\ latestMap' = latestMap /\ sharedRngMap' = sharedRngMap
  BY <1>2 DEF streamMap, latestMap, sharedRngMap
<1>4. CASE \E g \in Gens : NewProxy(p, g)
  BY <1>3, <1>4 DEF NewProxy, coreVars, Live, Api!NewProxy, streamMap, latestMap, sharedRngMap,
                    StreamOf, LatestOf, SharedRngOf
<1>5. CASE DropProxy(p)
  BY <1>3, <1>5 DEF DropProxy, coreVars, Api!DropProxy, streamMap, latestMap, sharedRngMap,
                    StreamOf, LatestOf, SharedRngOf
<1> QED
  BY <1>4, <1>5

-----------------------------------------------------------------------------
(* Calls                                                                   *)

LEMMA CallMaps ==
  ASSUME CacheInv, IsolationInv, NEW p \in Proxies, NEW n \in Names, Call(p, n)
  PROVE  Api!Call(p, n)
<1> DEFINE g == proxyGen[p]
           b == Lookup(p, n)
           c == DrawsFrom(b)
           seen == AsSeen(b, g)
           drawn == [rng[c] EXCEPT !.pos = rng[c].pos + 1]
<1>1. /\ g \in Gens /\ Live(g)
      /\ b \in Bound /\ b # Absent /\ (b.fn = Rust => b.at = core[g])
      /\ b.fn # Rust => b.at \in Gens /\ Live(b.at)
      /\ b = Resolved(g, n) \/ AsSeen(b, g) \in superseded[g][n]
      /\ c \in Cores /\ rng[c].pos < MaxDraws
      /\ rng' = [rng EXCEPT ![c] = drawn]
      /\ \A x \in Gens, m \in Names : Resolved(x, m)' = Resolved(x, m)
  BY CallEffect
<1>2. UNCHANGED <<key, core, proxyGen, sharedCores, globalSeed, superseded>> /\ last' = b.fn
  BY DEF Call
<1>3. /\ seen # Absent /\ seen.fn = b.fn
      /\ seen \in {LatestOf(g, n)} \cup superseded[g][n]
  <2>1. seen # Absent /\ seen.fn = b.fn
    BY <1>1, SeenMethod DEF AsSeen, Method
  <2> QED
    BY <2>1, <1>1 DEF LatestOf
<1>4. PICK at \in Gens : at = seen.at /\ Live(at) /\ c = core[at]
  BY <1>1 DEF AsSeen, Method, DrawsFrom
<1> HIDE DEF b, c, seen
<1>5. /\ rng \in [Cores -> RNG \cup {None}] /\ rng[c] \in RNG
      /\ core \in [Gens -> Cores \cup {None}] /\ key[at] \in Keys /\ key[at] # None
  BY <1>4, LiveCore DEF CacheInv, TypeOK
<1>6. \A d \in Cores : rng'[d] = IF d = c THEN drawn ELSE rng[d]
  BY <1>1, <1>5
<1>7. \A x \in Gens : (Live(x)' <=> Live(x)) /\ (IsShared(x)' <=> IsShared(x))
  BY <1>2 DEF Live, IsShared
<1>8. latestMap' = latestMap
  <2>1. \A x \in Gens, m \in Names : LatestOf(x, m)' = LatestOf(x, m)
    BY <1>1 DEF LatestOf, AsSeen
  <2> QED
    BY <2>1 DEF latestMap
<1>9. CASE IsShared(at)
  <2>1. StreamOf(at) = Shared /\ SharedRngOf(key[at]) = rng[c] /\ sharedCores[key[at]] = c
    BY <1>4, <1>9, StreamShared, LiveCore
  <2>2. ASSUME NEW x \in Gens PROVE StreamOf(x)' = StreamOf(x)
    <3>1. ASSUME Live(x), ~IsShared(x) PROVE core[x] # c
      BY <2>1, <3>1, <1>5 DEF IsShared, CacheInv, SharedKeys
    <3>2. ASSUME Live(x), ~IsShared(x) PROVE rng'[core[x]] = rng[core[x]]
      BY <3>1, <3>2, <1>6, LiveCore
    <3>3. key'[x] = key[x] /\ core'[x] = core[x]
      BY <1>2
    <3> QED
      BY <3>2, <3>3, <1>7, StreamKept
  <2>3. ASSUME NEW k \in Keys
        PROVE  SharedRngOf(k)' = IF k = key[at] THEN drawn ELSE SharedRngOf(k)
    <3>1. CASE k = key[at]
      <4>1. sharedCores'[k] = c /\ c # None /\ rng'[c] = drawn
        BY <1>1, <1>2, <1>6, <2>1, <3>1, Constants
      <4> QED
        BY <3>1, <4>1 DEF SharedRngOf
    <3>2. CASE k # key[at]
      <4>1. sharedCores[k] # None => sharedCores[k] # c
        BY <2>1, <3>2, <1>5 DEF CacheInv, SharedKeys
      <4>2. sharedCores[k] # None => rng'[sharedCores[k]] = rng[sharedCores[k]]
        BY <4>1, <1>6, SharedCoreLive
      <4> QED
        BY <3>2, <4>2, <1>2 DEF SharedRngOf
    <3> QED
      BY <3>1, <3>2
  <2>4. streamMap' = streamMap
    BY <2>2 DEF streamMap
  <2>5. sharedRngMap' = [sharedRngMap EXCEPT ![key[at]] = drawn]
    BY <2>3 DEF sharedRngMap
  <2>6. sharedRngMap' = [sharedRngMap EXCEPT ![key[at]].pos = @ + 1]
    BY <2>1, <2>5, <1>5 DEF sharedRngMap
  <2>7. streamMap[at] = Shared /\ sharedRngMap[key[at]].pos < MaxDraws
    BY <2>1, <1>1, <1>4, <1>5 DEF streamMap, sharedRngMap
  <2> QED
    BY <1>1, <1>2, <1>3, <1>4, <1>8, <2>4, <2>6, <2>7, Constants
       DEF Api!Call, Api!RngOf, streamMap, latestMap, sharedRngMap, StreamOf, LatestOf, SharedRngOf, g
<1>10. CASE ~IsShared(at)
  <2>1. StreamOf(at) = rng[c] /\ StreamOf(at) # Shared
    BY <1>4, <1>10, StreamShared, LiveCore
  <2>2. ASSUME NEW x \in Gens, x # at PROVE StreamOf(x)' = StreamOf(x)
    <3>1. ASSUME Live(x), ~IsShared(x) PROVE core[x] # c
      BY <2>2, <3>1, <1>4 DEF IsolationInv, OwnCore
    <3>2. ASSUME Live(x), ~IsShared(x) PROVE rng'[core[x]] = rng[core[x]]
      BY <3>1, <3>2, <1>6, LiveCore
    <3>3. key'[x] = key[x] /\ core'[x] = core[x]
      BY <1>2
    <3> QED
      BY <3>2, <3>3, <1>7, StreamKept
  <2>3. StreamOf(at)' = drawn
    <3>1. Live(at)' /\ ~IsShared(at)' /\ core'[at] = c /\ rng'[c] = drawn
      BY <1>1, <1>2, <1>4, <1>6, <1>7, <1>10
    <3> QED
      BY <3>1 DEF StreamOf
  <2>4. ASSUME NEW k \in Keys PROVE SharedRngOf(k)' = SharedRngOf(k)
    <3>1. sharedCores[k] # None => sharedCores[k] # c
      BY <1>4, <1>10 DEF CacheInv, SharedKeys, IsShared
    <3>2. sharedCores[k] # None => rng'[sharedCores[k]] = rng[sharedCores[k]]
      BY <3>1, <1>6, SharedCoreLive
    <3> QED
      BY <3>2, <1>2 DEF SharedRngOf
  <2>5. sharedRngMap' = sharedRngMap
    BY <2>4 DEF sharedRngMap
  <2>6. streamMap' = [streamMap EXCEPT ![at] = drawn]
    BY <2>2, <2>3 DEF streamMap
  <2>7. streamMap' = [streamMap EXCEPT ![at].pos = @ + 1]
    BY <2>1, <2>6, <1>4 DEF streamMap
  <2>8. streamMap[at] # Shared /\ streamMap[at].pos < MaxDraws
    BY <2>1, <1>1, <1>4 DEF streamMap
  <2> QED
    BY <1>1, <1>2, <1>3, <1>4, <1>8, <2>5, <2>7, <2>8, Constants
       DEF Api!Call, Api!RngOf, streamMap, latestMap, sharedRngMap, StreamOf, LatestOf, SharedRngOf, g
<1> QED
  BY <1>9, <1>10

-----------------------------------------------------------------------------
(* Custom providers                                                        *)

LEMMA StreamsKept ==
  ASSUME UNCHANGED <<key, core, sharedCores, rng>>
  PROVE  streamMap' = streamMap /\ sharedRngMap' = sharedRngMap
<1>1. \A g \in Gens : StreamOf(g)' = StreamOf(g)
  BY DEF StreamOf, Live, IsShared
<1>2. \A k \in Keys : SharedRngOf(k)' = SharedRngOf(k)
  BY DEF SharedRngOf
<1> QED
  BY <1>1, <1>2 DEF streamMap, sharedRngMap

\* Whichever way the methods ms of a provider of g get there, they are the
\* latest of g, and no other method is another than before.
LEMMA LatestInstalled ==
  ASSUME CacheInv, CacheInv', NEW g \in Gens, NEW v \in Providers, NEW ms \in SUBSET Names,
         SetFormatters(g, v, g, ms) \/ (AddProvider(g, v, g) /\ ms = Methods[v])
  PROVE  latestMap' = [latestMap EXCEPT ![g] =
           [n \in Names |-> IF n \in ms THEN Method(v, g) ELSE LatestOf(g, n)]]
<1>1. \A x \in Gens :
        provMethods'[x] = (IF x = g THEN provMethods[x] \cup ms ELSE provMethods[x])
  BY DEF SetFormatters, AddProvider, CacheInv, TypeOK
<1>2. \A x \in Gens, n \in Names : n \in provMethods'[x] =>
        (genDict'[x][n] = IF x = g /\ n \in ms THEN Method(v, g) ELSE genDict[x][n])
  BY InstallEffect
<1>3. ASSUME NEW x \in Gens, NEW n \in Names
      PROVE  LatestOf(x, n)' = IF x = g /\ n \in ms THEN Method(v, g) ELSE LatestOf(x, n)
  <2>1. /\ LatestOf(x, n) = IF n \in provMethods[x] THEN genDict[x][n]
                            ELSE IF n \in CoreNames THEN Method(Rust, x) ELSE Absent
        /\ LatestOf(x, n)' = IF n \in provMethods'[x] THEN genDict'[x][n]
                             ELSE IF n \in CoreNames THEN Method(Rust, x) ELSE Absent
    BY LatestByOrigin, LatestByOriginNext DEF Origins
  <2>2. CASE x = g /\ n \in ms
    <3>1. n \in provMethods'[x]
      BY <2>2, <1>1
    <3>2. genDict'[x][n] = Method(v, g)
      BY <3>1, <2>2, <1>2
    <3> QED
      BY <2>1, <2>2, <3>1, <3>2
  <2>3. CASE ~(x = g /\ n \in ms)
    <3>1. n \in provMethods'[x] <=> n \in provMethods[x]
      BY <2>3, <1>1
    <3>2. n \in provMethods'[x] => genDict'[x][n] = genDict[x][n]
      BY <2>3, <1>2
    <3> QED
      BY <2>1, <2>3, <3>1, <3>2
  <2> QED
    BY <2>2, <2>3
<1> QED
  BY <1>3 DEF latestMap

LEMMA AddProviderMaps ==
  ASSUME CacheInv, CacheInv', NEW g \in Gens, NEW v \in Providers, AddProvider(g, v, g)
  PROVE  Api!AddProvider(g, v)
<1>1. /\ Live(g) /\ UNCHANGED <<key, core, proxyGen, sharedCores, rng, globalSeed, last>>
      /\ superseded' = [superseded EXCEPT ![g] = [n \in Names |-> {}]]
  BY DEF AddProvider, Invalidate, coreVars
<1>2. streamMap' = streamMap /\ sharedRngMap' = sharedRngMap
  BY <1>1, StreamsKept
<1>3. latestMap' = [latestMap EXCEPT ![g] =
        [n \in Names |-> IF n \in Methods[v] THEN Method(v, g) ELSE LatestOf(g, n)]]
  BY LatestInstalled, Constants
<1> QED
  BY <1>1, <1>2, <1>3
     DEF Live, Method, Api!AddProvider, Api!Installed, Api!NoOlder, Api!Method,
         streamMap, latestMap, sharedRngMap, StreamOf, LatestOf, SharedRngOf

LEMMA SetFormattersMaps ==
  ASSUME CacheInv, CacheInv', NEW g \in Gens, NEW v \in Providers, NEW ms \in SUBSET Names,
         SetFormatters(g, v, g, ms)
  PROVE  Api!SetFormatters(g, v, ms)
<1>1. /\ Live(g) /\ UNCHANGED <<key, core, proxyGen, sharedCores, rng, globalSeed, last>>
      /\ superseded' = [superseded EXCEPT ![g] =
           [n \in Names |-> IF n \in ms /\ Resolved(g, n) # Absent
                              THEN superseded[g][n] \cup {AsSeen(Resolved(g, n), g)}
                              ELSE superseded[g][n]]]
  BY DEF SetFormatters, proxyVars, coreVars
<1>2. streamMap' = streamMap /\ sharedRngMap' = sharedRngMap
  BY <1>1, StreamsKept
<1>3. latestMap' = [latestMap EXCEPT ![g] =
        [n \in Names |-> IF n \in ms THEN Method(v, g) ELSE LatestOf(g, n)]]
  BY LatestInstalled
<1>4. \A n \in Names :
        (IF n \in ms /\ Resolved(g, n) # Absent
           THEN superseded[g][n] \cup {AsSeen(Resolved(g, n), g)} ELSE superseded[g][n])
        = IF n \in ms THEN superseded[g][n] \cup ({LatestOf(g, n)} \ {Absent})
          ELSE superseded[g][n]
  <2> SUFFICES ASSUME NEW n \in Names
               PROVE  IF Resolved(g, n) # Absent
                        THEN {LatestOf(g, n)} \ {Absent} = {AsSeen(Resolved(g, n), g)}
                        ELSE {LatestOf(g, n)} \ {Absent} = {}
    OBVIOUS
  <2>1. Resolved(g, n) # Absent => AsSeen(Resolved(g, n), g) # Absent
    BY ResolvedType, SeenMethod
  <2> QED
    BY <2>1 DEF LatestOf
<1>5. superseded' = [superseded EXCEPT ![g] =
        [n \in Names |-> IF n \in ms THEN superseded[g][n] \cup ({LatestOf(g, n)} \ {Absent})
                         ELSE superseded[g][n]]]
  BY <1>1, <1>4
<1>6. \A n \in Names : latestMap[g][n] = LatestOf(g, n)
  BY DEF latestMap
<1> QED
  BY <1>1, <1>2, <1>3, <1>5, <1>6
     DEF Live, Method, Api!SetFormatters, Api!Installed, Api!Method,
         streamMap, latestMap, sharedRngMap, StreamOf, LatestOf, SharedRngOf

-----------------------------------------------------------------------------
(* Seeding                                                                 *)

LEMMA GlobalSeedMaps ==
  ASSUME CacheInv, NEW s \in Seeds, GlobalSeed(s)
  PROVE  Api!GlobalSeed(s)
<1>1. /\ UNCHANGED <<key, core, genDict, proxyGen, sharedCores, last, superseded>>
      /\ globalSeed' = s
      /\ rng' = [c \in Cores |-> IF \E k \in Keys : sharedCores[k] = c THEN Fresh(s) ELSE rng[c]]
  BY DEF GlobalSeed, genVars, proxyVars
<1>2. ASSUME NEW g \in Gens PROVE StreamOf(g)' = StreamOf(g)
  <2>1. ASSUME Live(g), ~IsShared(g) PROVE rng'[core[g]] = rng[core[g]]
    BY <2>1, <1>1, LiveCore DEF CacheInv, SharedKeys, IsShared
  <2>2. key'[g] = key[g] /\ core'[g] = core[g] /\ (IsShared(g)' <=> IsShared(g))
    BY <1>1 DEF IsShared
  <2> QED
    BY <2>1, <2>2, StreamKept
<1>3. \A g \in Gens, n \in Names : LatestOf(g, n)' = LatestOf(g, n)
  BY <1>1 DEF LatestOf, Resolved, AsSeen
<1>4. ASSUME NEW k \in Keys
      PROVE  SharedRngOf(k)' = IF SharedRngOf(k) = None THEN None ELSE Fresh(s)
  <2>1. CASE sharedCores[k] = None
    BY <2>1, <1>1 DEF SharedRngOf
  <2>2. CASE sharedCores[k] # None
    <3>1. sharedCores[k] \in Cores /\ SharedRngOf(k) # None
      BY <2>2, SharedCoreLive, SharedIsNoRNG DEF SharedRngOf
    <3>2. rng'[sharedCores[k]] = Fresh(s)
      BY <3>1, <1>1
    <3> QED
      BY <2>2, <3>1, <3>2, <1>1 DEF SharedRngOf
  <2> QED
    BY <2>1, <2>2
<1>5. streamMap' = streamMap /\ latestMap' = latestMap
  BY <1>2, <1>3 DEF streamMap, latestMap
<1>6. sharedRngMap' = [k \in Keys |-> IF sharedRngMap[k] = None THEN None ELSE Fresh(s)]
  BY <1>4 DEF sharedRngMap
<1> QED
  BY <1>1, <1>5, <1>6
     DEF Api!GlobalSeed, Api!Fresh, Fresh, streamMap, latestMap, sharedRngMap,
         StreamOf, LatestOf, SharedRngOf

\* Seeding an instance gives it a core that no other generator and no key is
\* on: the first time a new one, later its own by OwnCore and SharedKeys.
LEMMA SeedInstanceMaps ==
  ASSUME CacheInv, CacheInv', IsolationInv, NEW g \in Gens, NEW s \in Seeds, SeedInstance(g, s)
  PROVE  Api!SeedInstance(g, s)
<1>1. /\ Live(g)
      /\ UNCHANGED <<key, provMethods, registered, proxyGen, sharedCores, globalSeed, last>>
  BY DEF SeedInstance
<1>2. /\ key \in [Gens -> Keys \cup {None}] /\ core \in [Gens -> Cores \cup {None}]
      /\ rng \in [Cores -> RNG \cup {None}]
      /\ genDict \in [Gens -> [Names -> Bound \cup {Absent}]]
  BY DEF CacheInv, TypeOK
<1>3. PICK c \in Cores :
        /\ core' = [core EXCEPT ![g] = c] /\ rng' = [rng EXCEPT ![c] = Fresh(s)]
        /\ \A x \in Gens : x # g /\ Live(x) => core[x] # c
        /\ \A k \in Keys : sharedCores[k] # c
  <2>1. CASE IsShared(g)
    <3>1. PICK c \in FreeCores : core' = [core EXCEPT ![g] = c] /\ rng' = [rng EXCEPT ![c] = Fresh(s)]
      BY <2>1 DEF SeedInstance
    <3>2. c \in Cores /\ rng[c] = None
      BY DEF FreeCores
    <3>3. \A x \in Gens : Live(x) => core[x] # c
      BY <3>2, LiveCore, SharedIsNoRNG
    <3>4. \A k \in Keys : sharedCores[k] # c
      BY <3>2, SharedCoreLive, SharedIsNoRNG, Constants
    <3> QED
      BY <3>1, <3>2, <3>3, <3>4
  <2>2. CASE ~IsShared(g)
    <3>1. core' = core /\ rng' = [rng EXCEPT ![core[g]] = Fresh(s)]
      BY <2>2 DEF SeedInstance
    <3>2. core[g] \in Cores
      BY <1>1, LiveCore
    <3>3. core' = [core EXCEPT ![g] = core[g]]
      BY <3>1, <1>2
    <3>4. \A x \in Gens : x # g /\ Live(x) => core[x] # core[g]
      BY <1>1, <2>2 DEF IsolationInv, OwnCore
    <3>5. \A k \in Keys : sharedCores[k] # core[g]
      BY <1>1, <2>2, <3>2 DEF CacheInv, SharedKeys, IsShared
    <3> QED
      BY <3>1, <3>2, <3>3, <3>4, <3>5
  <2> QED
    BY <2>1, <2>2
<1>4. ASSUME NEW x \in Gens, x # g PROVE StreamOf(x)' = StreamOf(x)
  <2>1. key'[x] = key[x] /\ core'[x] = core[x] /\ (IsShared(x)' <=> IsShared(x))
    BY <1>1, <1>2, <1>3, <1>4 DEF IsShared
  <2>2. Live(x) => rng'[core[x]] = rng[core[x]]
    BY <1>2, <1>3, <1>4, LiveCore
  <2> QED
    BY <2>1, <2>2, StreamKept
<1>5. StreamOf(g)' = Fresh(s)
  <2>1. core'[g] = c /\ rng'[c] = Fresh(s) /\ key'[g] = key[g] /\ key[g] \in Keys /\ key[g] # None
    BY <1>1, <1>2, <1>3, LiveCore
  <2>2. sharedCores'[key[g]] # c
    BY <2>1, <1>1, <1>3
  <2> QED
    BY <2>1, <2>2 DEF StreamOf, Live, IsShared
<1>6. ASSUME NEW k \in Keys PROVE SharedRngOf(k)' = SharedRngOf(k)
  BY <1>1, <1>2, <1>3, SharedCoreLive DEF SharedRngOf
<1>7. ASSUME NEW x \in Gens, NEW n \in Names PROVE LatestOf(x, n)' = LatestOf(x, n)
  <2>1. provMethods'[x] = provMethods[x]
    BY <1>1
  <2>2. \A m \in Names : m \in provMethods[x] => genDict'[x][m] = genDict[x][m]
    <3>1. CASE genDict' = genDict
      BY <3>1
    <3>2. CASE genDict' = [genDict EXCEPT ![g] =
                 [m \in Names |-> IF m \in genCached[g] \ provMethods[g] THEN Absent
                                  ELSE genDict[g][m]]]
      BY <3>2, <1>2
    <3> QED
      BY <3>1, <3>2 DEF SeedInstance, Invalidate
  <2> QED
    BY <2>1, <2>2, LatestKept
<1>8. superseded' = IF StreamOf(g) = Shared
                      THEN [superseded EXCEPT ![g] = [n \in Names |-> {}]] ELSE superseded
  BY <1>1, StreamShared DEF SeedInstance, Invalidate
<1>9. /\ streamMap' = [streamMap EXCEPT ![g] = Fresh(s)]
      /\ latestMap' = latestMap /\ sharedRngMap' = sharedRngMap
  BY <1>4, <1>5, <1>6, <1>7 DEF streamMap, latestMap, sharedRngMap
<1>10. streamMap[g] = StreamOf(g)
  BY DEF streamMap
<1> QED
  BY <1>1, <1>8, <1>9, <1>10
     DEF Live, Fresh, Api!SeedInstance, Api!Fresh, Api!NoOlder, streamMap, latestMap, sharedRngMap,
         StreamOf, LatestOf, SharedRngOf

-----------------------------------------------------------------------------
(* Copies of one Faker, which reach one generator                          *)

\* What both copies have in common: the generator g2 behind the new proxy p2
\* gets the key and the methods of g, and nothing that was there before changes.
CopyStep(g, g2, p2) ==
  /\ Live(g) /\ g2 \in Gens /\ key[g2] = None /\ p2 \in Proxies /\ proxyGen[p2] = None
  /\ key' = [key EXCEPT ![g2] = key[g]]
  /\ proxyGen' = [proxyGen EXCEPT ![p2] = g2]
  /\ UNCHANGED <<superseded, sharedCores, globalSeed, last>>
  /\ latestMap' = [latestMap EXCEPT ![g2] =
       [n \in Names |-> IF LatestOf(g, n) = Absent THEN Absent
                        ELSE Method(LatestOf(g, n).fn, g2)]]
  /\ \A x \in Gens : x # g2 => StreamOf(x)' = StreamOf(x)
  /\ sharedRngMap' = sharedRngMap

LEMMA CopyMaps ==
  ASSUME CacheInv, CacheInv', IsolationInv, NEW p \in Proxies, NEW P \in SUBSET Proxies, P = {p},
         Copyable(P), NEW q \in FreshProxies(P), NEW f \in FreshGens(P), CopyObjects(P, q, f),
         NEW g \in Gens, g = proxyGen[p], NEW g2, g2 = f[g], NEW p2, p2 = q[p],
         \A x \in Gens : (~\E r \in Reach(P) : f[r] = x) => core'[x] = core[x],
         \A c \in Cores : rng[c] # None => rng'[c] = rng[c]
  PROVE  CopyStep(g, g2, p2)
<1>1. Live(g) /\ Reach(P) = {g}
  BY ReachAlone DEF IsolationInv
<1>2. /\ g2 \in Gens /\ ~Live(g2) /\ key'[g2] = key[g] /\ provMethods'[g2] = provMethods[g]
      /\ genDict'[g2] = [n \in Names |->
           IF n \in genCached[g] \/ genDict[g][n] = Absent THEN Absent
           ELSE Method(genDict[g][n].fn, f[genDict[g][n].at])]
  <2>1. g \in Reach(P)
    BY <1>1
  <2> QED
    BY <2>1, CopiedGen, SMTT(30)
<1>3. /\ UNCHANGED <<sharedCores, globalSeed, last, superseded>>
      /\ \A x \in Gens : (~\E r \in Reach(P) : f[r] = x) =>
           key'[x] = key[x] /\ genDict'[x] = genDict[x] /\ provMethods'[x] = provMethods[x]
      /\ \A r \in P : /\ q[r] \in Proxies /\ proxyGen[q[r]] = None
                      /\ proxyGen'[q[r]] = f[proxyGen[r]]
      /\ \A y \in Proxies : (~\E r \in P : q[r] = y) => proxyGen'[y] = proxyGen[y]
      /\ key' = [x \in Gens |-> key'[x]] /\ proxyGen' = [y \in Proxies |-> proxyGen'[y]]
  BY CopyFrame
<1>4. ASSUME NEW x \in Gens, x # g2
      PROVE  /\ core'[x] = core[x] /\ key'[x] = key[x]
             /\ genDict'[x] = genDict[x] /\ provMethods'[x] = provMethods[x]
  <2>1. ~\E r \in Reach(P) : f[r] = x
    BY <1>1, <1>4
  <2> QED
    BY <2>1, <1>3
<1>5. key' = [key EXCEPT ![g2] = key[g]]
  <2>1. key = [x \in Gens |-> key[x]]
    BY DEF CacheInv, TypeOK
  <2> QED
    BY <2>1, <1>2, <1>3, <1>4
<1>6. p2 \in Proxies /\ proxyGen[p2] = None /\ proxyGen' = [proxyGen EXCEPT ![p2] = g2]
  <2>1. p2 \in Proxies /\ proxyGen[p2] = None /\ proxyGen'[p2] = g2
    BY <1>3
  <2>2. ASSUME NEW y \in Proxies, y # p2 PROVE proxyGen'[y] = proxyGen[y]
    BY <1>3, <2>2
  <2>3. proxyGen = [y \in Proxies |-> proxyGen[y]]
    BY DEF CacheInv, TypeOK
  <2> QED
    BY <2>1, <2>2, <2>3, <1>3
<1>7. ASSUME NEW x \in Gens, x # g2 PROVE StreamOf(x)' = StreamOf(x)
  <2>1. core'[x] = core[x] /\ key'[x] = key[x] /\ (IsShared(x)' <=> IsShared(x))
    BY <1>3, <1>4, <1>7 DEF IsShared
  <2>2. Live(x) => rng'[core[x]] = rng[core[x]]
    BY LiveCore, SharedIsNoRNG
  <2> QED
    BY <2>1, <2>2, StreamKept
<1>8. ASSUME NEW k \in Keys PROVE SharedRngOf(k)' = SharedRngOf(k)
  BY <1>3, SharedCoreLive, SharedIsNoRNG DEF SharedRngOf
<1>9. ASSUME NEW x \in Gens, NEW n \in Names
      PROVE  LatestOf(x, n)' = IF x # g2 THEN LatestOf(x, n)
                               ELSE IF LatestOf(g, n) = Absent THEN Absent
                                    ELSE Method(LatestOf(g, n).fn, g2)
  <2>1. CASE x # g2
    BY <2>1, <1>4, LatestKept
  <2>2. CASE x = g2
    <3>1. /\ LatestOf(g, n) = IF n \in provMethods[g] THEN genDict[g][n]
                              ELSE IF n \in CoreNames THEN Method(Rust, g) ELSE Absent
          /\ LatestOf(g2, n)' = IF n \in provMethods[g] THEN genDict'[g2][n]
                                ELSE IF n \in CoreNames THEN Method(Rust, g2) ELSE Absent
      BY <1>2, LatestByOrigin, LatestByOriginNext DEF Origins
    <3>2. CASE n \in provMethods[g]
      <4>1. GenEntry(g, n)
        BY DEF CacheInv, GenDictInv
      <4>2. genDict[g][n] # Absent /\ n \notin genCached[g]
        BY <4>1, <3>2, Constants DEF GenEntry, Bound
      <4>3. genDict[g][n].at = g
        BY <3>2 DEF IsolationInv, OwnProviders
      <4>4. genDict'[g2][n] = Method(genDict[g][n].fn, g2)
        BY <4>2, <4>3, <1>2
      <4> QED
        BY <2>2, <3>1, <3>2, <4>2, <4>4
    <3>3. CASE n \notin provMethods[g]
      <4>1. Method(Rust, g) # Absent /\ Method(Rust, g).fn = Rust
        BY Constants DEF Method
      <4> QED
        BY <2>2, <3>1, <3>3, <4>1
    <3> QED
      BY <3>2, <3>3
  <2> QED
    BY <2>1, <2>2
<1>10. latestMap' = [latestMap EXCEPT ![g2] =
         [n \in Names |-> IF LatestOf(g, n) = Absent THEN Absent
                          ELSE Method(LatestOf(g, n).fn, g2)]]
  <2> DEFINE moved == [n \in Names |-> IF LatestOf(g, n) = Absent THEN Absent
                                      ELSE Method(LatestOf(g, n).fn, g2)]
  <2>1. ASSUME NEW x \in Gens
        PROVE  [n \in Names |-> LatestOf(x, n)'] =
                 IF x = g2 THEN moved ELSE [n \in Names |-> LatestOf(x, n)]
    <3>1. CASE x = g2
      BY <3>1, <1>9
    <3>2. CASE x # g2
      BY <3>2, <1>9
    <3> QED
      BY <3>1, <3>2
  <2>2. latestMap' = [x \in Gens |-> [n \in Names |-> LatestOf(x, n)']]
    BY DEF latestMap
  <2> HIDE DEF moved
  <2>3. latestMap' = [latestMap EXCEPT ![g2] = moved]
    BY <2>1, <2>2 DEF latestMap
  <2> QED
    BY <2>3 DEF moved
<1>11. sharedRngMap' = sharedRngMap
  BY <1>8 DEF sharedRngMap
<1>12. Live(g) /\ g2 \in Gens /\ key[g2] = None
  BY <1>1, <1>2 DEF Live
<1>13. UNCHANGED <<superseded, sharedCores, globalSeed, last>>
  BY <1>3
<1>14. \A x \in Gens : x # g2 => StreamOf(x)' = StreamOf(x)
  BY <1>7
<1> QED
  BY <1>5, <1>6, <1>10, <1>11, <1>12, <1>13, <1>14 DEF CopyStep

LEMMA DeepCopyMaps ==
  ASSUME CacheInv, CacheInv', IsolationInv, NEW p \in Proxies, NEW P \in SUBSET Proxies, P = {p},
         DeepCopy(P)
  PROVE  \E p2 \in Proxies, g2 \in Gens : Api!DeepCopy(p, p2, g2)
<1>1. Copyable(P) /\ p \in P
  BY DEF DeepCopy
<1>2. proxyGen[p] \in Gens /\ Live(proxyGen[p]) /\ Reach(P) = {proxyGen[p]}
  BY <1>1, ReachAlone DEF IsolationInv
<1>3. PICK q \in FreshProxies(P), f \in FreshGens(P),
           h \in Injections({core[g] : g \in Reach(P)}, FreeCores) :
        /\ CopyObjects(P, q, f)
        /\ core' = [x \in Gens |-> IF \E g \in Reach(P) : f[g] = x
                      THEN h[core[CHOOSE g \in Reach(P) : f[g] = x]] ELSE core[x]]
        /\ rng' = [c \in Cores |-> IF \E d \in DOMAIN h : h[d] = c
                     THEN rng[CHOOSE d \in DOMAIN h : h[d] = c] ELSE rng[c]]
  BY DEF DeepCopy
<1>4. /\ \A g \in Reach(P) : /\ core'[f[g]] = h[core[g]] /\ core'[f[g]] \in Cores
                             /\ rng[core'[f[g]]] = None
                             /\ rng'[core'[f[g]]] = rng[core[g]]
                             /\ rng'[core'[f[g]]] # None
      /\ \A x \in Gens : (~\E g \in Reach(P) : f[g] = x) => core'[x] = core[x]
      /\ rng' \in [Cores -> RNG \cup {None}]
      /\ \A c \in Cores : rng[c] # None => rng'[c] = rng[c]
  BY <1>1, <1>3, DeepCopiedCores
<1>5. PICK g \in Gens : g = proxyGen[p]
  BY <1>2
<1>6. PICK g2 : g2 = f[g]
  OBVIOUS
<1>7. PICK p2 : p2 = q[p]
  OBVIOUS
<1>8. CopyObjects(P, q, f)
  BY <1>3
<1>9. /\ \A x \in Gens : (~\E r \in Reach(P) : f[r] = x) => core'[x] = core[x]
      /\ \A c \in Cores : rng[c] # None => rng'[c] = rng[c]
  BY <1>4
<1>a. CopyStep(g, g2, p2)
  BY <1>1, <1>5, <1>6, <1>7, <1>8, <1>9, CopyMaps, SMTT(30)
<1>10. /\ Live(g) /\ g2 \in Gens /\ key[g2] = None /\ p2 \in Proxies /\ proxyGen[p2] = None
       /\ key' = [key EXCEPT ![g2] = key[g]]
       /\ proxyGen' = [proxyGen EXCEPT ![p2] = g2]
       /\ UNCHANGED <<superseded, sharedCores, globalSeed, last>>
       /\ latestMap' = [latestMap EXCEPT ![g2] =
            [n \in Names |-> IF LatestOf(g, n) = Absent THEN Absent
                             ELSE Method(LatestOf(g, n).fn, g2)]]
       /\ \A x \in Gens : x # g2 => StreamOf(x)' = StreamOf(x)
       /\ sharedRngMap' = sharedRngMap
  BY <1>a DEF CopyStep
<1>11. StreamOf(g2)' = rng[core[g]]
  <2>1. rng[core'[g2]] = None /\ rng'[core'[g2]] = rng[core[g]] /\ core'[g2] \in Cores
    BY <1>2, <1>4, <1>5, <1>6
  <2>2. key'[g2] = key[g] /\ key[g] \in Keys /\ key[g] # None
    BY <1>10, LiveCore DEF CacheInv, TypeOK
  <2>3. sharedCores'[key[g]] # core'[g2]
    BY <2>1, <2>2, <1>10, SharedCoreLive, SharedIsNoRNG, Constants
  <2> QED
    BY <2>1, <2>2, <2>3 DEF StreamOf, Live, IsShared
<1>12. rng[core[g]] = IF StreamOf(g) = Shared THEN SharedRngOf(key[g]) ELSE StreamOf(g)
  BY <1>10, StreamShared
<1>13. streamMap' = [streamMap EXCEPT ![g2] =
         IF StreamOf(g) = Shared THEN SharedRngOf(key[g]) ELSE StreamOf(g)]
  BY <1>10, <1>11, <1>12 DEF streamMap
<1>14. /\ streamMap[g] = StreamOf(g) /\ sharedRngMap[key[g]] = SharedRngOf(key[g])
       /\ \A n \in Names : latestMap[g][n] = LatestOf(g, n)
  BY <1>10, LiveCore DEF streamMap, sharedRngMap, latestMap
<1>15. streamMap' = [streamMap EXCEPT ![g2] =
         IF streamMap[g] = Shared THEN sharedRngMap[key[g]] ELSE streamMap[g]]
  BY <1>13, <1>14
<1>16. latestMap' = [latestMap EXCEPT ![g2] =
         [n \in Names |-> IF latestMap[g][n] = Absent THEN Absent
                          ELSE Method(latestMap[g][n].fn, g2)]]
  BY <1>10, <1>14
<1>17. Api!DeepCopy(p, p2, g2)
  BY <1>5, <1>10, <1>15, <1>16, Constants
     DEF Method, Api!DeepCopy, Api!RngOf, Api!Moved, Api!Method, streamMap, latestMap, sharedRngMap,
         StreamOf, LatestOf, SharedRngOf
<1> QED
  BY <1>10, <1>17

LEMMA PickleMaps ==
  ASSUME CacheInv, CacheInv', IsolationInv, NEW p \in Proxies, NEW P \in SUBSET Proxies, P = {p},
         PickleRoundTrip(P)
  PROVE  \E p2 \in Proxies, g2 \in Gens : Api!PickleRoundTrip(p, p2, g2)
<1>1. Copyable(P) /\ p \in P
  BY DEF PickleRoundTrip
<1>2. proxyGen[p] \in Gens /\ Live(proxyGen[p]) /\ Reach(P) = {proxyGen[p]}
  BY <1>1, ReachAlone DEF IsolationInv
<1>3. PICK q \in FreshProxies(P), f \in FreshGens(P),
           h \in Injections({g \in Reach(P) : ~IsShared(g)}, FreeCores) :
        /\ CopyObjects(P, q, f)
        /\ core' = [x \in Gens |-> IF \E g \in Reach(P) : f[g] = x
                      THEN LET g == CHOOSE r \in Reach(P) : f[r] = x
                           IN IF IsShared(g) THEN sharedCores[key[g]] ELSE h[g]
                      ELSE core[x]]
        /\ rng' = [c \in Cores |-> IF \E g \in DOMAIN h : h[g] = c
                     THEN Fresh(Entropy) ELSE rng[c]]
  BY DEF PickleRoundTrip
<1>4. /\ \A g \in Reach(P) : /\ core'[f[g]] = IF IsShared(g) THEN core[g] ELSE h[g]
                             /\ ~IsShared(g) => /\ rng[core'[f[g]]] = None
                                                /\ rng'[core'[f[g]]] = Fresh(Entropy)
                             /\ core'[f[g]] \in Cores
                             /\ rng'[core'[f[g]]] # None
      /\ \A x \in Gens : (~\E g \in Reach(P) : f[g] = x) => core'[x] = core[x]
      /\ rng' \in [Cores -> RNG \cup {None}]
      /\ \A c \in Cores : rng[c] # None => rng'[c] = rng[c]
  BY <1>1, <1>3, PickledCores
<1>5. PICK g \in Gens : g = proxyGen[p]
  BY <1>2
<1>6. PICK g2 : g2 = f[g]
  OBVIOUS
<1>7. PICK p2 : p2 = q[p]
  OBVIOUS
<1>8. CopyObjects(P, q, f)
  BY <1>3
<1>9. /\ \A x \in Gens : (~\E r \in Reach(P) : f[r] = x) => core'[x] = core[x]
      /\ \A c \in Cores : rng[c] # None => rng'[c] = rng[c]
  BY <1>4
<1>a. CopyStep(g, g2, p2)
  BY <1>1, <1>5, <1>6, <1>7, <1>8, <1>9, CopyMaps, SMTT(30)
<1>10. /\ Live(g) /\ g2 \in Gens /\ key[g2] = None /\ p2 \in Proxies /\ proxyGen[p2] = None
       /\ key' = [key EXCEPT ![g2] = key[g]]
       /\ proxyGen' = [proxyGen EXCEPT ![p2] = g2]
       /\ UNCHANGED <<superseded, sharedCores, globalSeed, last>>
       /\ latestMap' = [latestMap EXCEPT ![g2] =
            [n \in Names |-> IF LatestOf(g, n) = Absent THEN Absent
                             ELSE Method(LatestOf(g, n).fn, g2)]]
       /\ \A x \in Gens : x # g2 => StreamOf(x)' = StreamOf(x)
       /\ sharedRngMap' = sharedRngMap
  BY <1>a DEF CopyStep
<1>11. StreamOf(g2)' = IF StreamOf(g) = Shared THEN Shared ELSE Fresh(Entropy)
  <2>1. key'[g2] = key[g] /\ key[g] \in Keys /\ key[g] # None /\ sharedCores' = sharedCores
    BY <1>10, LiveCore DEF CacheInv, TypeOK
  <2>2. CASE IsShared(g)
    <3>1. core'[g2] = core[g]
      BY <2>2, <1>2, <1>4, <1>5, <1>6
    <3>2. StreamOf(g) = Shared
      BY <2>2, <1>10, StreamShared
    <3> QED
      BY <2>1, <2>2, <3>1, <3>2 DEF StreamOf, Live, IsShared
  <2>3. CASE ~IsShared(g)
    <3>1. rng[core'[g2]] = None /\ rng'[core'[g2]] = Fresh(Entropy) /\ core'[g2] \in Cores
      BY <2>3, <1>2, <1>4, <1>5, <1>6
    <3>2. StreamOf(g) # Shared
      BY <2>3, <1>10, StreamShared
    <3>3. sharedCores'[key[g]] # core'[g2]
      BY <2>1, <3>1, SharedCoreLive, SharedIsNoRNG, Constants
    <3> QED
      BY <2>1, <3>1, <3>2, <3>3 DEF StreamOf, Live, IsShared
  <2> QED
    BY <2>2, <2>3
<1>12. streamMap' = [streamMap EXCEPT ![g2] =
         IF StreamOf(g) = Shared THEN Shared ELSE Fresh(Entropy)]
  BY <1>10, <1>11 DEF streamMap
<1>13. streamMap[g] = StreamOf(g) /\ \A n \in Names : latestMap[g][n] = LatestOf(g, n)
  BY DEF streamMap, latestMap
<1>14. streamMap' = [streamMap EXCEPT ![g2] =
         IF streamMap[g] = Shared THEN Shared ELSE Fresh(Entropy)]
  BY <1>12, <1>13
<1>15. latestMap' = [latestMap EXCEPT ![g2] =
         [n \in Names |-> IF latestMap[g][n] = Absent THEN Absent
                          ELSE Method(latestMap[g][n].fn, g2)]]
  BY <1>10, <1>13
<1>16. Api!PickleRoundTrip(p, p2, g2)
  BY <1>5, <1>10, <1>14, <1>15, Constants
     DEF Method, Fresh, Api!PickleRoundTrip, Api!Fresh, Api!Moved, Api!Method,
         streamMap, latestMap, sharedRngMap, StreamOf, LatestOf, SharedRngOf
<1> QED
  BY <1>10, <1>16

-----------------------------------------------------------------------------
(* The refinement                                                          *)

LEMMA NextMaps == Inv /\ [Next]_vars => [Api!Next]_Api!vars
<1> SUFFICES ASSUME CacheInv, IsolationInv, [Next]_vars PROVE [Api!Next]_Api!vars
  BY DEF Inv
<1>0. CacheInv'
  BY NextCacheInv DEF NextEntangled
<1>1. ASSUME NEW p \in Proxies, NEW g \in Gens, NEW k \in Keys, NewFaker(p, g, k) PROVE Api!Next
  BY <1>0, <1>1, NewFakerMaps DEF Api!Next
<1>2. ASSUME NEW p \in Proxies, (\E g \in Gens : NewProxy(p, g)) \/ DropProxy(p) PROVE Api!Next
  BY <1>2, ProxyMaps DEF Api!Next
<1>3. ASSUME NEW p \in Proxies, NEW n \in Names, Call(p, n) PROVE Api!Next
  BY <1>3, CallMaps DEF Api!Next
<1>4. ASSUME NEW g \in Gens, NEW v \in Providers, AddProvider(g, v, g) PROVE Api!Next
  BY <1>0, <1>4, AddProviderMaps DEF Api!Next
<1>5. ASSUME NEW g \in Gens, NEW v \in Providers, NEW ms \in SUBSET Names,
             SetFormatters(g, v, g, ms)
      PROVE  Api!Next
  BY <1>0, <1>5, SetFormattersMaps DEF Api!Next
<1>6. ASSUME NEW g \in Gens, NEW s \in Seeds, SeedInstance(g, s) PROVE Api!Next
  BY <1>0, <1>6, SeedInstanceMaps DEF Api!Next
<1>7. ASSUME NEW s \in Seeds, GlobalSeed(s) PROVE Api!Next
  BY <1>7, GlobalSeedMaps DEF Api!Next
<1>8. ASSUME NEW p \in Proxies, DeepCopy({p}) \/ PickleRoundTrip({p}) PROVE Api!Next
  <2>1. {p} \in SUBSET Proxies
    OBVIOUS
  <2>2. CASE DeepCopy({p})
    <3>1. \E p2 \in Proxies, g2 \in Gens : Api!DeepCopy(p, p2, g2)
      BY <1>0, <2>1, <2>2, DeepCopyMaps
    <3> QED
      BY <3>1 DEF Api!Next
  <2>3. CASE PickleRoundTrip({p})
    <3>1. \E p2 \in Proxies, g2 \in Gens : Api!PickleRoundTrip(p, p2, g2)
      BY <1>0, <2>1, <2>3, PickleMaps
    <3> QED
      BY <3>1 DEF Api!Next
  <2> QED
    BY <1>8, <2>2, <2>3
<1>9. CASE UNCHANGED vars
  <2>1. UNCHANGED <<key, core, genDict, sharedCores, rng, proxyGen, superseded, globalSeed, last>>
    BY <1>9 DEF vars, genVars, proxyVars, coreVars
  <2>2. \A g \in Gens, n \in Names : LatestOf(g, n)' = LatestOf(g, n)
    BY <2>1 DEF LatestOf, Resolved, AsSeen
  <2>3. streamMap' = streamMap /\ latestMap' = latestMap /\ sharedRngMap' = sharedRngMap
    BY <2>1, <2>2, StreamsKept DEF latestMap
  <2> QED
    BY <2>1, <2>3 DEF Api!vars, streamMap, latestMap, sharedRngMap, StreamOf, LatestOf, SharedRngOf
<1> QED
  <2>1. \A v \in Providers : \A ms \in SUBSET Methods[v] : ms \in SUBSET Names
    BY Constants
  <2>2. \A n \in Names : {n} \in SUBSET Names
    OBVIOUS
  <2> QED
    BY <1>1, <1>2, <1>3, <1>4, <1>5, <1>6, <1>7, <1>8, <1>9, <2>1, <2>2 DEF Next

\* For clients of Spec the caches of generator.py and proxy.py and the sharing
\* of core objects cannot be observed: every behaviour, through every order of
\* calls, providers, seedings and copies, is one of FakerApi
\* (generator.py:88-199, proxy.py:44-208).
THEOREM RefinementTheorem == Spec => ApiSpec
<1>1. Init => Api!Init
  BY InitMaps
<1>2. Inv /\ [Next]_vars => [Api!Next]_Api!vars
  BY NextMaps
<1>3. Spec => []Inv
  BY SpecInv, PTL DEF Inv
<1> QED
  BY <1>1, <1>2, <1>3, PTL DEF Spec, ApiSpec, Api!Spec
=============================================================================
