------------------------ MODULE FormatterCacheProofs ------------------------
(***************************************************************************)
(* CacheInv is an invariant of FormatterCache for every client, and so are *)
(* the properties it implies; IsolationInv is one for the clients of Spec. *)
(***************************************************************************)
EXTENDS FormatterCache, TLAPS

\* The facts about constants every step uses, in the form the steps use them.
LEMMA Constants ==
  /\ CoreNames \subseteq Names
  /\ \A v \in Providers : Methods[v] \subseteq Names /\ v # Rust
  /\ Entropy \in Seeds /\ MaxDraws \in Nat
  /\ \A g \in Gens : g # None
  /\ \A c \in Cores : c # None
  /\ \A k \in Keys : k # None
  /\ \A s \in Seeds : s # None
  /\ \A r \in RNG : r # None
  /\ \A b \in Bound : b # Absent
  /\ \A x \in Gens \cup Cores \cup {None} : Method(Rust, x) # Absent
  BY NamesAssumption, DistinctAssumption DEF RNG, Bound, CoreMethod, ProviderMethod, Method

LEMMA FreshRNG == \A s \in Seeds : Fresh(s) \in RNG /\ Fresh(s).seed = s
  BY Constants DEF Fresh, RNG

\* A draw stays within the bound and on its stream.
LEMMA Advance ==
  ASSUME NEW r \in RNG, r.pos < MaxDraws
  PROVE  /\ [r EXCEPT !.pos = r.pos + 1] \in RNG
         /\ [r EXCEPT !.pos = r.pos + 1].seed = r.seed
  <1>1. r.pos \in 0..MaxDraws /\ r.seed \in Seeds /\ r = [seed |-> r.seed, pos |-> r.pos]
    BY DEF RNG
  <1>2. r.pos + 1 \in 0..MaxDraws
    BY <1>1, Constants
  <1>3. [r EXCEPT !.pos = r.pos + 1] = [seed |-> r.seed, pos |-> r.pos + 1]
    BY <1>1
  <1> QED
    BY <1>1, <1>2, <1>3 DEF RNG

LEMMA InitCacheInv == Init => CacheInv
  <1> SUFFICES ASSUME Init PROVE CacheInv
    OBVIOUS
  <1> USE DEF Init
  <1>1. TypeOK
    BY DEF TypeOK, Empty
  <1>2. ObjectsInv
    BY Constants DEF ObjectsInv, GenObject, ProxyObject, SharedObject, RegisteredExactly, Live
  <1>3. GenDictInv
    BY DEF GenDictInv, GenEntry, Empty
  <1>4. ProxyDictInv
    BY DEF ProxyDictInv, ProxyEntry, Empty
  <1>5. GlobalSeedReachesSharedCores /\ SharedKeys
    BY DEF GlobalSeedReachesSharedCores, SharedKeys, Live
  <1> QED
    BY <1>1, <1>2, <1>3, <1>4, <1>5 DEF CacheInv

\* A new Faker holds nothing, so only the object graph can change.
LEMMA NewFakerInv ==
  ASSUME CacheInv, NEW p \in Proxies, NEW g \in Gens, NEW k \in Keys, NewFaker(p, g, k)
  PROVE  CacheInv'
  <1> DEFINE start == Fresh(StartSeed)
  <1> USE DEF CacheInv
  <1>0. start \in RNG /\ (globalSeed # None => start.seed = globalSeed)
    BY FreshRNG, Constants DEF TypeOK, StartSeed
  <1>a. PICK c \in Cores :
          /\ core' = [core EXCEPT ![g] = c]
          /\ \/ sharedCores[k] = c /\ UNCHANGED <<sharedCores, rng>>
             \/ /\ sharedCores[k] = None /\ rng[c] = None
                /\ sharedCores' = [sharedCores EXCEPT ![k] = c]
                /\ rng' = [rng EXCEPT ![c] = start]
    BY Constants DEF NewFaker, FreeCores, TypeOK
  <1>b. /\ proxyGen[p] = None /\ key[g] = None
        /\ key' = [key EXCEPT ![g] = k]
        /\ registered' = [registered EXCEPT ![g] = {p}]
        /\ proxyGen' = [proxyGen EXCEPT ![p] = g]
        /\ UNCHANGED <<genDict, genCached, provMethods, proxyDict, cachedNames,
                       globalSeed, last, superseded>>
    BY DEF NewFaker, Live
  <1>c. rng'[c] # None /\ \A d \in Cores : rng[d] # None => rng'[d] = rng[d]
    BY <1>0, <1>a, Constants DEF TypeOK, ObjectsInv, SharedObject
  <1> HIDE DEF start
  <1>d. \A q \in Proxies : proxyGen[q] # g
    BY <1>b, Constants DEF ObjectsInv, ProxyObject, Live
  <1>e. sharedCores' = [sharedCores EXCEPT ![k] = c]
    BY <1>a DEF TypeOK
  <1>f. \A x \in Gens : x # g => core'[x] = core[x] /\ key'[x] = key[x]
    BY <1>a, <1>b DEF TypeOK
  <1>1. TypeOK'
    BY <1>0, <1>a, <1>b, ZenonT(60) DEF TypeOK
  <1>2. ObjectsInv'
    <2>1. ASSUME NEW x \in Gens PROVE GenObject(x)'
      BY <1>a, <1>b, <1>c, Constants DEF TypeOK, ObjectsInv, GenObject, Live
    <2>2. ASSUME NEW x \in Gens PROVE RegisteredExactly(x)'
      BY <1>b, <1>d, Constants DEF TypeOK, ObjectsInv, RegisteredExactly
    <2>3. ASSUME NEW q \in Proxies PROVE ProxyObject(q)'
      BY <1>b, Constants DEF TypeOK, ObjectsInv, ProxyObject, Live
    <2>4. ASSUME NEW l \in Keys PROVE SharedObject(l)'
      BY <1>c, <1>e DEF TypeOK, ObjectsInv, SharedObject
    <2> QED
      BY <2>1, <2>2, <2>3, <2>4 DEF ObjectsInv
  <1>3. ASSUME NEW x \in Gens, NEW n \in Names PROVE GenEntry(x, n)'
    BY <1>a, <1>b DEF TypeOK, GenDictInv, GenEntry, ObjectsInv, GenObject, Live, Empty
  <1>4. ASSUME NEW q \in Proxies, NEW n \in Names PROVE ProxyEntry(q, n)'
    <2>1. CASE q = p
      BY <2>1, <1>b DEF ObjectsInv, ProxyObject, ProxyEntry, Empty
    <2>2. CASE q # p
      <3>1. proxyGen'[q] = proxyGen[q] /\ ProxyEntry(q, n)
        BY <2>2, <1>b DEF TypeOK, ProxyDictInv
      <3>2. CASE proxyGen[q] = None
        BY <3>1, <3>2, <1>b DEF ObjectsInv, ProxyObject, ProxyEntry, Empty
      <3>3. CASE proxyGen[q] \in Gens
        BY <3>1, <3>3, <1>b, <1>d, <1>f, Constants
           DEF TypeOK, ProxyEntry, Live, Resolved, Bound, CoreMethod, ProviderMethod
      <3> QED
        BY <3>2, <3>3 DEF TypeOK
    <2> QED
      BY <2>1, <2>2
  <1>5. GlobalSeedReachesSharedCores'
    <2> SUFFICES ASSUME NEW l \in Keys, globalSeed # None, sharedCores'[l] # None
                 PROVE  rng'[sharedCores'[l]].seed = globalSeed
      BY <1>b DEF GlobalSeedReachesSharedCores
    <2>1. CASE sharedCores[l] # None
      BY <2>1, <1>c, <1>e, <1>a DEF TypeOK, GlobalSeedReachesSharedCores, ObjectsInv, SharedObject
    <2>2. CASE sharedCores[l] = None
      <3>1. l = k /\ sharedCores[k] # c
        BY <2>2, <1>e, Constants DEF TypeOK
      <3> QED
        BY <3>1, <1>0, <1>a DEF TypeOK
    <2> QED
      BY <2>1, <2>2
  <1>6. SharedKeys'
    BY <1>a, <1>b, <1>e, <1>f, Constants DEF SharedKeys, Live, TypeOK, ObjectsInv, SharedObject, GenObject
  <1> QED
    BY <1>1, <1>2, <1>3, <1>4, <1>5, <1>6 DEF GenDictInv, ProxyDictInv

LEMMA NewProxyInv ==
  ASSUME CacheInv, NEW p \in Proxies, NEW g \in Gens, NewProxy(p, g)
  PROVE  CacheInv'
  <1> USE DEF CacheInv, NewProxy, coreVars
  <1>1. TypeOK'
    BY DEF TypeOK
  <1>2. ObjectsInv'
    <2>1. ASSUME NEW x \in Gens PROVE GenObject(x)'
      BY DEF ObjectsInv, GenObject, Live
    <2>2. ASSUME NEW x \in Gens PROVE RegisteredExactly(x)'
      BY Constants DEF TypeOK, ObjectsInv, RegisteredExactly
    <2>3. ASSUME NEW q \in Proxies PROVE ProxyObject(q)'
      BY Constants DEF TypeOK, ObjectsInv, ProxyObject, Live
    <2>4. ASSUME NEW l \in Keys PROVE SharedObject(l)'
      BY DEF ObjectsInv, SharedObject
    <2> QED
      BY <2>1, <2>2, <2>3, <2>4 DEF ObjectsInv
  <1>3. ASSUME NEW x \in Gens, NEW n \in Names PROVE GenEntry(x, n)'
    BY DEF GenDictInv, GenEntry, Live
  <1>4. ASSUME NEW q \in Proxies, NEW n \in Names PROVE ProxyEntry(q, n)'
    <2>1. CASE q = p
      BY <2>1 DEF ObjectsInv, ProxyObject, ProxyEntry, Empty
    <2>2. CASE q # p
      BY <2>2 DEF TypeOK, ProxyDictInv, ProxyEntry, Live, Resolved
    <2> QED
      BY <2>1, <2>2
  <1>5. GlobalSeedReachesSharedCores'
    BY DEF GlobalSeedReachesSharedCores
  <1>6. SharedKeys'
    BY DEF SharedKeys, Live
  <1> QED
    BY <1>1, <1>2, <1>3, <1>4, <1>5, <1>6 DEF GenDictInv, ProxyDictInv

LEMMA DropProxyInv ==
  ASSUME CacheInv, NEW p \in Proxies, DropProxy(p)
  PROVE  CacheInv'
  <1> USE DEF CacheInv, DropProxy, coreVars
  <1>1. TypeOK'
    BY DEF TypeOK, Empty
  <1>2. ObjectsInv'
    <2>1. ASSUME NEW x \in Gens PROVE GenObject(x)'
      BY DEF ObjectsInv, GenObject, Live
    <2>2. ASSUME NEW x \in Gens PROVE RegisteredExactly(x)'
      BY Constants DEF TypeOK, ObjectsInv, RegisteredExactly
    <2>3. ASSUME NEW q \in Proxies PROVE ProxyObject(q)'
      BY Constants DEF TypeOK, ObjectsInv, ProxyObject, Live
    <2>4. ASSUME NEW l \in Keys PROVE SharedObject(l)'
      BY DEF ObjectsInv, SharedObject
    <2> QED
      BY <2>1, <2>2, <2>3, <2>4 DEF ObjectsInv
  <1>3. ASSUME NEW x \in Gens, NEW n \in Names PROVE GenEntry(x, n)'
    BY DEF GenDictInv, GenEntry, Live
  <1>4. ASSUME NEW q \in Proxies, NEW n \in Names PROVE ProxyEntry(q, n)'
    <2>1. CASE q = p
      BY <2>1 DEF TypeOK, ProxyEntry, Empty
    <2>2. CASE q # p
      BY <2>2 DEF TypeOK, ProxyDictInv, ProxyEntry, Live, Resolved
    <2> QED
      BY <2>1, <2>2
  <1>5. GlobalSeedReachesSharedCores'
    BY DEF GlobalSeedReachesSharedCores
  <1>6. SharedKeys'
    BY DEF SharedKeys, Live
  <1> QED
    BY <1>1, <1>2, <1>3, <1>4, <1>5, <1>6 DEF GenDictInv, ProxyDictInv

\* What a call of n on p does: what the look-up gives, b, is the current or a
\* superseded method of a live generator, it draws from the core c, and
\* resolution gives afterwards what it gave before.
LEMMA CallEffect ==
  ASSUME CacheInv, NEW p \in Proxies, NEW n \in Names, Call(p, n)
  PROVE  LET g == proxyGen[p]
             b == Lookup(p, n)
             c == DrawsFrom(b)
             genMiss == proxyDict[p][n] = Absent /\ genDict[g][n] = Absent
         IN /\ g \in Gens /\ Live(g) /\ core[g] \in Cores /\ rng[core[g]] # None
            /\ genDict[g][n] = Absent => n \notin genCached[g] \cup provMethods[g]
            /\ genMiss => n \in CoreNames /\ b = Method(Rust, core[g])
            /\ b \in Bound /\ b # Absent /\ (b.fn = Rust => b.at = core[g])
            /\ b.fn # Rust => b.at \in Gens /\ Live(b.at)
            /\ b = Resolved(g, n) \/ AsSeen(b, g) \in superseded[g][n]
            /\ c \in Cores /\ rng[c] \in RNG /\ rng[c].pos < MaxDraws
            /\ rng' = [rng EXCEPT ![c] = [rng[c] EXCEPT !.pos = rng[c].pos + 1]]
            /\ rng'[c] \in RNG /\ rng'[c].seed = rng[c].seed
            /\ \A d \in Cores : d # c => rng'[d] = rng[d]
            /\ \A x \in Gens, m \in Names : Resolved(x, m)' = Resolved(x, m)
  <1> DEFINE g == proxyGen[p]
             b == Lookup(p, n)
             c == DrawsFrom(b)
             r == Resolved(g, n)
             genMiss == proxyDict[p][n] = Absent /\ genDict[g][n] = Absent
  <1> USE DEF CacheInv
  <1>a. /\ b # Absent /\ rng[c].pos < MaxDraws
        /\ genDict' = IF genMiss THEN [genDict EXCEPT ![g][n] = b] ELSE genDict
        /\ genCached' = IF genMiss THEN [genCached EXCEPT ![g] = @ \cup {n}] ELSE genCached
        /\ proxyDict' = [proxyDict EXCEPT ![p][n] = b]
        /\ cachedNames' = IF proxyDict[p][n] = Absent
                            THEN [cachedNames EXCEPT ![p] = @ \cup {n}] ELSE cachedNames
        /\ rng' = [rng EXCEPT ![c].pos = @ + 1]
        /\ last' = b.fn
        /\ UNCHANGED <<key, core, provMethods, registered, proxyGen,
                       sharedCores, globalSeed, superseded>>
    BY DEF Call
  <1>b. g \in Gens /\ Live(g) /\ core[g] \in Cores /\ rng[core[g]] # None
    BY DEF Call, TypeOK, ObjectsInv, ProxyObject, GenObject
  <1>c. /\ r # Absent => r \in Bound /\ (r.fn = Rust => r.at = core[g])
                                     /\ (r.fn # Rust => r.at \in Gens /\ Live(r.at))
        /\ genDict[g][n] = Absent => n \notin genCached[g] \cup provMethods[g]
        /\ genMiss => n \in CoreNames /\ b = Method(Rust, core[g])
    <2>1. GenEntry(g, n) /\ genDict[g][n] \in Bound \cup {Absent}
      BY <1>b DEF GenDictInv, TypeOK
    <2>2. Method(Rust, core[g]) \in Bound /\ Method(Rust, core[g]) # Absent
      BY <1>b, Constants DEF Method, Bound, CoreMethod
    <2>3. genMiss => n \in CoreNames /\ b = Method(Rust, core[g])
      BY <1>a DEF Lookup, Resolved
    <2>4. genDict[g][n] = Absent => n \notin genCached[g] \cup provMethods[g]
      BY <2>1, <2>2, Constants DEF GenEntry, Bound
    <2>5. CASE genDict[g][n] = Absent
      BY <2>2, <2>3, <2>4, <2>5 DEF Resolved, Method
    <2>6. CASE n \in genCached[g]
      BY <2>1, <2>2, <2>3, <2>4, <2>6 DEF Resolved, Method, GenEntry
    <2>7. CASE n \in provMethods[g]
      <3>1. r = genDict[g][n] /\ r \in ProviderMethod /\ Live(r.at)
        BY <2>1, <2>7, Constants DEF Resolved, GenEntry, Bound
      <3> QED
        BY <3>1, <2>3, <2>4, Constants DEF ProviderMethod, Bound
    <2> QED
      BY <2>1, <2>5, <2>6, <2>7 DEF GenEntry
  <1>d. /\ b \in Bound /\ (b.fn = Rust => b.at = core[g])
        /\ b.fn # Rust => b.at \in Gens /\ Live(b.at)
        /\ b = r \/ AsSeen(b, g) \in superseded[g][n]
    <2>1. CASE proxyDict[p][n] = Absent
      BY <2>1, <1>a, <1>c DEF Lookup
    <2>2. CASE proxyDict[p][n] # Absent
      <3>1. b = proxyDict[p][n] /\ b \in Bound /\ ProxyEntry(p, n)
        BY <2>2 DEF Lookup, ProxyDictInv, TypeOK
      <3> QED
        BY <3>1, <1>a, Constants DEF ProxyEntry, Bound, CoreMethod, ProviderMethod
    <2> QED
      BY <2>1, <2>2
  <1>e. c \in Cores /\ rng[c] \in RNG
    BY <1>b, <1>d DEF DrawsFrom, TypeOK, ObjectsInv, GenObject
  <1>f. /\ rng'[c] \in RNG /\ rng'[c].seed = rng[c].seed
        /\ \A d \in Cores : d # c => rng'[d] = rng[d]
        /\ rng' = [rng EXCEPT ![c] = [rng[c] EXCEPT !.pos = rng[c].pos + 1]]
    <2> HIDE DEF b, c
    <2>1. rng' = [rng EXCEPT ![c] = [rng[c] EXCEPT !.pos = rng[c].pos + 1]]
      BY <1>a
    <2> QED
      BY <2>1, <1>a, <1>e, Advance DEF TypeOK
  <1>g. \A x \in Gens : Resolved(x, n)' = Resolved(x, n)
    <2> SUFFICES ASSUME NEW x \in Gens PROVE Resolved(x, n)' = Resolved(x, n)
      OBVIOUS
    <2>1. CASE genMiss /\ x = g
      BY <2>1, <1>a, <1>b, <1>c, Constants DEF Resolved, TypeOK, Method
    <2>2. CASE ~(genMiss /\ x = g)
      BY <2>2, <1>a, <1>b DEF Resolved, TypeOK
    <2> QED
      BY <2>1, <2>2
  <1>h. \A x \in Gens, m \in Names : m # n => Resolved(x, m)' = Resolved(x, m)
    BY <1>a, <1>b DEF Resolved, TypeOK
  <1>i. \A x \in Gens, m \in Names : Resolved(x, m)' = Resolved(x, m)
    BY <1>g, <1>h
  <1> QED
    BY <1>a, <1>b, <1>c, <1>d, <1>e, <1>f, <1>i

\* A call fills the caches with what resolution gives at that moment.
LEMMA CallInv ==
  ASSUME CacheInv, NEW p \in Proxies, NEW n \in Names, Call(p, n)
  PROVE  CacheInv'
  <1> DEFINE g == proxyGen[p]
             b == Lookup(p, n)
             c == DrawsFrom(b)
             r == Resolved(g, n)
             genMiss == proxyDict[p][n] = Absent /\ genDict[g][n] = Absent
  <1> USE DEF CacheInv
  <1>a. /\ b # Absent /\ rng[c].pos < MaxDraws
        /\ genDict' = IF genMiss THEN [genDict EXCEPT ![g][n] = b] ELSE genDict
        /\ genCached' = IF genMiss THEN [genCached EXCEPT ![g] = @ \cup {n}] ELSE genCached
        /\ proxyDict' = [proxyDict EXCEPT ![p][n] = b]
        /\ cachedNames' = IF proxyDict[p][n] = Absent
                            THEN [cachedNames EXCEPT ![p] = @ \cup {n}] ELSE cachedNames
        /\ rng' = [rng EXCEPT ![c].pos = @ + 1]
        /\ last' = b.fn
        /\ UNCHANGED <<key, core, provMethods, registered, proxyGen,
                       sharedCores, globalSeed, superseded>>
    BY DEF Call
  <1>b. g \in Gens /\ Live(g) /\ core[g] \in Cores /\ rng[core[g]] # None
    BY CallEffect
  <1>c. /\ genDict[g][n] = Absent => n \notin genCached[g] \cup provMethods[g]
        /\ genMiss => n \in CoreNames /\ b = Method(Rust, core[g])
    BY CallEffect
  <1>d. /\ b \in Bound /\ (b.fn = Rust => b.at = core[g])
        /\ b.fn # Rust => b.at \in Gens /\ Live(b.at)
        /\ b = r \/ AsSeen(b, g) \in superseded[g][n]
    BY CallEffect
  <1>e. c \in Cores /\ rng[c] \in RNG
    BY CallEffect
  <1>f. /\ rng'[c] \in RNG /\ rng'[c].seed = rng[c].seed
        /\ \A d \in Cores : d # c => rng'[d] = rng[d]
    BY CallEffect
  <1>g. \A x \in Gens : Resolved(x, n)' = Resolved(x, n)
    BY CallEffect
  <1>h. \A x \in Gens, m \in Names : m # n => Resolved(x, m)' = Resolved(x, m)
    BY CallEffect
  <1> HIDE DEF b, c, r
  <1>1. TypeOK'
    <2>1. rng' \in [Cores -> RNG \cup {None}]
      BY <1>a, <1>f DEF TypeOK
    <2>2. last' \in Providers \cup {Rust, None}
      BY <1>a, <1>d DEF Bound, CoreMethod, ProviderMethod
    <2>3. genDict' \in [Gens -> [Names -> Bound \cup {Absent}]]
      BY <1>a, <1>b, <1>d DEF TypeOK
    <2>4. /\ proxyDict' \in [Proxies -> [Names -> Bound \cup {Absent}]]
          /\ cachedNames' \in [Proxies -> SUBSET Names]
          /\ genCached' \in [Gens -> SUBSET Names]
      BY <1>a, <1>b, <1>d DEF TypeOK
    <2> QED
      BY <2>1, <2>2, <2>3, <2>4, <1>a DEF TypeOK
  <1>2. ObjectsInv'
    <2>1. \A d \in Cores : rng[d] # None => rng'[d] # None
      BY <1>e, <1>f, Constants
    <2>2. ASSUME NEW x \in Gens PROVE GenObject(x)' /\ RegisteredExactly(x)'
      <3>1. GenObject(x) /\ RegisteredExactly(x)
        BY DEF ObjectsInv
      <3>2. CASE x = g
        BY <3>1, <3>2, <2>1, <1>a, <1>b DEF GenObject, RegisteredExactly, Live
      <3>3. CASE x # g
        BY <3>1, <3>3, <2>1, <1>a, <1>b DEF GenObject, RegisteredExactly, Live, TypeOK
      <3> QED
        BY <3>2, <3>3
    <2>3. ASSUME NEW q \in Proxies PROVE ProxyObject(q)'
      BY <1>a, <1>b, Constants DEF TypeOK, ObjectsInv, ProxyObject, Live
    <2>4. ASSUME NEW l \in Keys PROVE SharedObject(l)'
      BY <2>1, <1>a DEF TypeOK, ObjectsInv, SharedObject
    <2> QED
      BY <2>2, <2>3, <2>4 DEF ObjectsInv
  <1>3. ASSUME NEW x \in Gens, NEW m \in Names PROVE GenEntry(x, m)'
    <2>1. GenEntry(x, m)
      BY DEF GenDictInv
    <2>2. CASE genMiss /\ x = g /\ m = n
      <3>1. /\ genDict'[g][n] = Method(Rust, core[g]) /\ n \in genCached'[g]
            /\ n \notin provMethods[g] /\ n \in CoreNames
        BY <2>2, <1>a, <1>b, <1>c DEF TypeOK
      <3> QED
        BY <3>1, <2>2, <1>a DEF GenEntry
    <2>3. CASE ~(genMiss /\ x = g /\ m = n)
      <3>1. genDict'[x][m] = genDict[x][m] /\ (m \in genCached'[x] <=> m \in genCached[x])
        BY <2>3, <1>a, <1>b DEF TypeOK
      <3> QED
        BY <3>1, <2>1, <1>a DEF GenEntry, Live
    <2> QED
      BY <2>2, <2>3
  <1>4. ASSUME NEW q \in Proxies, NEW m \in Names PROVE ProxyEntry(q, m)'
    <2>1. ProxyEntry(q, m)
      BY DEF ProxyDictInv
    <2>2. CASE q = p /\ m = n
      <3>1. proxyDict'[p][n] = b /\ n \in cachedNames'[p]
        BY <1>a, <2>1, <2>2 DEF TypeOK, ProxyEntry
      <3> QED
        BY <3>1, <2>2, <1>a, <1>b, <1>d, <1>g DEF ProxyEntry, AsSeen, Live, r
    <2>3. CASE ~(q = p /\ m = n)
      <3>1. proxyDict'[q][m] = proxyDict[q][m] /\ (m \in cachedNames'[q] <=> m \in cachedNames[q])
        BY <2>3, <1>a DEF TypeOK
      <3>2. CASE proxyGen[q] = None
        BY <3>1, <3>2, <2>1, <1>a DEF ObjectsInv, ProxyObject, ProxyEntry, Empty
      <3>3. CASE proxyGen[q] \in Gens
        BY <3>1, <3>3, <2>1, <1>a, <1>g, <1>h DEF ProxyEntry, AsSeen, Live
      <3> QED
        BY <3>2, <3>3 DEF TypeOK
    <2> QED
      BY <2>2, <2>3
  <1>5. GlobalSeedReachesSharedCores'
    BY <1>a, <1>e, <1>f DEF TypeOK, GlobalSeedReachesSharedCores
  <1>6. SharedKeys'
    BY <1>a DEF SharedKeys, Live
  <1> QED
    BY <1>1, <1>2, <1>3, <1>4, <1>5, <1>6 DEF GenDictInv, ProxyDictInv

\* set_formatter keeps what proxies hold among the superseded methods.
LEMMA SetFormattersInv ==
  ASSUME CacheInv, NEW g \in Gens, NEW v \in Providers, NEW o \in Gens, Live(o),
         NEW ms \in SUBSET Names, SetFormatters(g, v, o, ms)
  PROVE  CacheInv'
  <1> USE DEF CacheInv
  <1>a. /\ Live(g)
        /\ genDict' = [genDict EXCEPT ![g] = Stored(g, v, o, ms)]
        /\ provMethods' = [provMethods EXCEPT ![g] = @ \cup ms]
        /\ genCached' = [genCached EXCEPT ![g] = @ \ ms]
        /\ superseded' = [superseded EXCEPT ![g] =
             [n \in Names |-> IF n \in ms /\ Resolved(g, n) # Absent
                                THEN superseded[g][n] \cup {AsSeen(Resolved(g, n), g)}
                                ELSE superseded[g][n]]]
        /\ UNCHANGED <<key, core, registered, proxyGen, proxyDict, cachedNames,
                       sharedCores, globalSeed, rng, last>>
    BY DEF SetFormatters, proxyVars, coreVars
  <1>b. Method(v, o) \in ProviderMethod /\ Method(v, o).fn # Rust /\ Method(v, o).at = o
    BY Constants DEF ProviderMethod, Method
  <1>c. Method(v, o) \in Bound /\ Method(v, o) # Absent
    BY <1>b, Constants DEF Bound
  <1>d. \A x \in Gens, n \in Names :
          genDict'[x][n] = IF x = g /\ n \in ms THEN Method(v, o) ELSE genDict[x][n]
    BY <1>a DEF Stored, TypeOK
  <1>e. \A x \in Gens, n \in Names :
          Resolved(x, n)' = IF x = g /\ n \in ms THEN Method(v, o) ELSE Resolved(x, n)
    BY <1>a, <1>c, <1>d DEF Resolved
  <1>f. \A n \in Names : Resolved(g, n) # Absent =>
          AsSeen(Resolved(g, n), g) \in [fn : Providers \cup {Rust}, at : Gens]
    BY DEF Resolved, AsSeen, TypeOK, Bound, CoreMethod, ProviderMethod, Method
  <1>g. \A x \in Gens, n \in Names :
          /\ superseded[x][n] \subseteq superseded'[x][n]
          /\ x = g /\ n \in ms /\ Resolved(g, n) # Absent
               => AsSeen(Resolved(g, n), g) \in superseded'[x][n]
    BY <1>a DEF TypeOK
  <1>1. TypeOK'
    <2>1. superseded' \in [Gens -> [Names -> SUBSET [fn : Providers \cup {Rust}, at : Gens]]]
      BY <1>a, <1>f DEF TypeOK
    <2>2. genDict' \in [Gens -> [Names -> Bound \cup {Absent}]]
      BY <1>a, <1>c DEF TypeOK, Stored
    <2>3. genCached' \in [Gens -> SUBSET Names] /\ provMethods' \in [Gens -> SUBSET Names]
      BY <1>a DEF TypeOK
    <2> QED
      BY <2>1, <2>2, <2>3, <1>a DEF TypeOK
  <1>2. ObjectsInv'
    <2>1. ASSUME NEW x \in Gens PROVE GenObject(x)' /\ RegisteredExactly(x)'
      BY <1>a DEF ObjectsInv, GenObject, RegisteredExactly, Live, TypeOK
    <2>2. ASSUME NEW q \in Proxies PROVE ProxyObject(q)'
      BY <1>a DEF ObjectsInv, ProxyObject, Live
    <2>3. ASSUME NEW l \in Keys PROVE SharedObject(l)'
      BY <1>a DEF ObjectsInv, SharedObject
    <2> QED
      BY <2>1, <2>2, <2>3 DEF ObjectsInv
  <1>3. ASSUME NEW x \in Gens, NEW n \in Names PROVE GenEntry(x, n)'
    <2>1. GenEntry(x, n)
      BY DEF GenDictInv
    <2>2. CASE x = g /\ n \in ms
      <3>1. genDict'[x][n] = Method(v, o) /\ n \in provMethods'[x] /\ n \notin genCached'[x]
        BY <2>2, <1>a, <1>d DEF TypeOK
      <3> QED
        BY <3>1, <1>a, <1>b DEF GenEntry, Live
    <2>3. CASE ~(x = g /\ n \in ms)
      <3>1. /\ genDict'[x][n] = genDict[x][n]
            /\ n \in genCached'[x] <=> n \in genCached[x]
            /\ n \in provMethods'[x] <=> n \in provMethods[x]
        BY <2>3, <1>a, <1>d DEF TypeOK
      <3> QED
        BY <3>1, <2>1, <1>a DEF GenEntry, Live
    <2> QED
      BY <2>2, <2>3
  <1>4. ASSUME NEW q \in Proxies, NEW n \in Names PROVE ProxyEntry(q, n)'
    <2>1. ProxyEntry(q, n)
      BY DEF ProxyDictInv
    <2>2. CASE proxyGen[q] = None
      BY <2>1, <2>2, <1>a DEF ObjectsInv, ProxyObject, ProxyEntry, Empty
    <2>3. CASE proxyGen[q] \in Gens
      BY <2>1, <2>3, <1>a, <1>e, <1>g DEF ProxyEntry, AsSeen, Live
    <2> QED
      BY <2>2, <2>3 DEF TypeOK
  <1>5. GlobalSeedReachesSharedCores'
    BY <1>a DEF GlobalSeedReachesSharedCores
  <1>6. SharedKeys'
    BY <1>a DEF SharedKeys, Live
  <1> QED
    BY <1>1, <1>2, <1>3, <1>4, <1>5, <1>6 DEF GenDictInv, ProxyDictInv

\* _invalidate empties every proxy of the generator, because it knows them all.
LEMMA InvalidateProxies ==
  ASSUME CacheInv, NEW g \in Gens,
         proxyDict' = [p \in Proxies |-> IF p \notin registered[g] THEN proxyDict[p]
                         ELSE [n \in Names |-> IF n \in cachedNames[p] THEN Absent
                                               ELSE proxyDict[p][n]]],
         cachedNames' = [p \in Proxies |-> IF p \in registered[g] THEN {} ELSE cachedNames[p]]
  PROVE  /\ \A q \in Proxies : proxyGen[q] = g => proxyDict'[q] = Empty /\ cachedNames'[q] = {}
         /\ \A q \in Proxies : proxyGen[q] # g => /\ proxyDict'[q] = proxyDict[q]
                                                  /\ cachedNames'[q] = cachedNames[q]
         /\ proxyDict' \in [Proxies -> [Names -> Bound \cup {Absent}]]
         /\ cachedNames' \in [Proxies -> SUBSET Names]
  <1> USE DEF CacheInv
  <1>1. registered[g] = {p \in Proxies : proxyGen[p] = g}
    BY DEF ObjectsInv, RegisteredExactly
  <1>2. \A q \in Proxies, n \in Names : n \in cachedNames[q] <=> proxyDict[q][n] # Absent
    BY DEF ProxyDictInv, ProxyEntry
  <1>3. \A q \in Proxies : proxyGen[q] = g => proxyDict'[q] = Empty /\ cachedNames'[q] = {}
    BY <1>1, <1>2 DEF Empty
  <1>4. \A q \in Proxies : proxyGen[q] # g => /\ proxyDict'[q] = proxyDict[q]
                                              /\ cachedNames'[q] = cachedNames[q]
    BY <1>1
  <1>5. /\ proxyDict' \in [Proxies -> [Names -> Bound \cup {Absent}]]
        /\ cachedNames' \in [Proxies -> SUBSET Names]
    BY <1>3, <1>4 DEF TypeOK, Empty
  <1> QED
    BY <1>3, <1>4, <1>5

LEMMA AddProviderInv ==
  ASSUME CacheInv, NEW g \in Gens, NEW v \in Providers, NEW o \in Gens, Live(o),
         AddProvider(g, v, o)
  PROVE  CacheInv'
  <1> DEFINE ms == Methods[v]
             drop == (genCached[g] \ ms) \ (provMethods[g] \cup ms)
  <1> USE DEF CacheInv
  <1>a. /\ Live(g) /\ ms \subseteq Names
        /\ genDict' = [genDict EXCEPT ![g] =
                         [n \in Names |-> IF n \in drop THEN Absent ELSE Stored(g, v, o, ms)[n]]]
        /\ provMethods' = [provMethods EXCEPT ![g] = @ \cup ms]
        /\ genCached' = [genCached EXCEPT ![g] = {}]
        /\ superseded' = [superseded EXCEPT ![g] = [n \in Names |-> {}]]
        /\ UNCHANGED <<key, core, registered, proxyGen, sharedCores, globalSeed, rng, last>>
    BY Constants DEF AddProvider, Invalidate, coreVars
  <1>b. Method(v, o) \in ProviderMethod /\ Method(v, o).at = o
    BY DEF ProviderMethod, Method
  <1>c. Method(v, o) \in Bound /\ Method(v, o) # Absent
    BY <1>b, Constants DEF Bound
  <1>d. /\ \A q \in Proxies : proxyGen[q] = g => proxyDict'[q] = Empty /\ cachedNames'[q] = {}
        /\ \A q \in Proxies : proxyGen[q] # g => /\ proxyDict'[q] = proxyDict[q]
                                                 /\ cachedNames'[q] = cachedNames[q]
        /\ proxyDict' \in [Proxies -> [Names -> Bound \cup {Absent}]]
        /\ cachedNames' \in [Proxies -> SUBSET Names]
    BY InvalidateProxies DEF AddProvider, Invalidate
  <1>e. \A n \in Names : genDict'[g][n] = IF n \in ms THEN Method(v, o)
                                          ELSE IF n \in drop THEN Absent ELSE genDict[g][n]
    BY <1>a DEF Stored, TypeOK
  <1>f. \A x \in Gens : x # g => /\ genDict'[x] = genDict[x] /\ provMethods'[x] = provMethods[x]
                                 /\ genCached'[x] = genCached[x] /\ superseded'[x] = superseded[x]
    BY <1>a DEF TypeOK
  <1>1. TypeOK'
    <2>1. superseded' \in [Gens -> [Names -> SUBSET [fn : Providers \cup {Rust}, at : Gens]]]
      BY <1>a DEF TypeOK
    <2>2. genDict' \in [Gens -> [Names -> Bound \cup {Absent}]]
      BY <1>a, <1>c DEF TypeOK, Stored
    <2>3. genCached' \in [Gens -> SUBSET Names] /\ provMethods' \in [Gens -> SUBSET Names]
      BY <1>a DEF TypeOK
    <2> QED
      BY <2>1, <2>2, <2>3, <1>a, <1>d DEF TypeOK
  <1>2. ObjectsInv'
    <2>1. ASSUME NEW x \in Gens PROVE GenObject(x)' /\ RegisteredExactly(x)'
      <3>1. GenObject(x) /\ RegisteredExactly(x)
        BY DEF ObjectsInv
      <3> QED
        BY <3>1, <1>a, <1>f DEF GenObject, RegisteredExactly, Live
    <2>2. ASSUME NEW q \in Proxies PROVE ProxyObject(q)'
      BY <1>a, <1>d, Constants DEF ObjectsInv, ProxyObject, Live
    <2>3. ASSUME NEW l \in Keys PROVE SharedObject(l)'
      BY <1>a DEF ObjectsInv, SharedObject
    <2> QED
      BY <2>1, <2>2, <2>3 DEF ObjectsInv
  <1>3. ASSUME NEW x \in Gens, NEW n \in Names PROVE GenEntry(x, n)'
    <2>1. GenEntry(x, n)
      BY DEF GenDictInv
    <2>2. CASE x # g
      BY <2>1, <2>2, <1>a, <1>f DEF GenEntry, Live
    <2>3. CASE x = g
      <3>1. genCached'[g] = {} /\ provMethods'[g] = provMethods[g] \cup ms
        BY <1>a DEF TypeOK
      <3>2. CASE n \in ms
        BY <3>1, <3>2, <2>3, <1>a, <1>b, <1>e DEF GenEntry, Live
      <3>3. CASE n \notin ms
        BY <3>1, <3>3, <2>1, <2>3, <1>a, <1>e DEF GenEntry, Live
      <3> QED
        BY <3>2, <3>3
    <2> QED
      BY <2>2, <2>3
  <1>4. ASSUME NEW q \in Proxies, NEW n \in Names PROVE ProxyEntry(q, n)'
    <2>1. ProxyEntry(q, n)
      BY DEF ProxyDictInv
    <2>2. CASE proxyGen[q] = g
      BY <2>2, <1>a, <1>d DEF ProxyEntry, Empty
    <2>3. CASE proxyGen[q] = None
      BY <2>1, <2>3, <1>a, <1>d, Constants DEF ObjectsInv, ProxyObject, ProxyEntry, Empty
    <2>4. CASE proxyGen[q] \in Gens \ {g}
      BY <2>1, <2>4, <1>a, <1>d, <1>f DEF ProxyEntry, AsSeen, Live, Resolved
    <2> QED
      BY <2>2, <2>3, <2>4 DEF TypeOK
  <1>5. GlobalSeedReachesSharedCores'
    BY <1>a DEF GlobalSeedReachesSharedCores
  <1>6. SharedKeys'
    BY <1>a DEF SharedKeys, Live
  <1> QED
    BY <1>1, <1>2, <1>3, <1>4, <1>5, <1>6 DEF GenDictInv, ProxyDictInv

\* The first seed_instance replaces the core, and with it everything bound to it.
LEMMA SeedInstanceFirstInv ==
  ASSUME CacheInv, NEW g \in Gens, NEW s \in Seeds, SeedInstance(g, s), IsShared(g)
  PROVE  CacheInv'
  <1> USE DEF CacheInv
  <1>a. PICK c \in Cores : /\ rng[c] = None
                           /\ core' = [core EXCEPT ![g] = c]
                           /\ rng' = [rng EXCEPT ![c] = Fresh(s)]
    BY DEF SeedInstance, FreeCores
  <1>b. /\ Live(g)
        /\ genDict' = [genDict EXCEPT ![g] =
                         [n \in Names |-> IF n \in genCached[g] \ provMethods[g] THEN Absent
                                          ELSE genDict[g][n]]]
        /\ genCached' = [genCached EXCEPT ![g] = {}]
        /\ superseded' = [superseded EXCEPT ![g] = [n \in Names |-> {}]]
        /\ UNCHANGED <<key, provMethods, registered, proxyGen, sharedCores, globalSeed, last>>
    BY DEF SeedInstance, Invalidate
  <1>c. /\ \A q \in Proxies : proxyGen[q] = g => proxyDict'[q] = Empty /\ cachedNames'[q] = {}
        /\ \A q \in Proxies : proxyGen[q] # g => /\ proxyDict'[q] = proxyDict[q]
                                                 /\ cachedNames'[q] = cachedNames[q]
        /\ proxyDict' \in [Proxies -> [Names -> Bound \cup {Absent}]]
        /\ cachedNames' \in [Proxies -> SUBSET Names]
    BY InvalidateProxies DEF SeedInstance, Invalidate
  <1>d. \A n \in Names : genDict'[g][n] =
          IF n \in genCached[g] \ provMethods[g] THEN Absent ELSE genDict[g][n]
    BY <1>b DEF TypeOK
  <1>e. \A x \in Gens : x # g => /\ genDict'[x] = genDict[x] /\ genCached'[x] = genCached[x]
                                 /\ superseded'[x] = superseded[x] /\ core'[x] = core[x]
    BY <1>a, <1>b DEF TypeOK
  <1>f. /\ rng'[c] \in RNG /\ rng'[c] # None
        /\ \A d \in Cores : d # c => rng'[d] = rng[d]
        /\ \A d \in Cores : rng[d] # None => d # c /\ rng'[d] = rng[d]
    BY <1>a, FreshRNG, Constants DEF TypeOK
  <1>1. TypeOK'
    <2>1. superseded' \in [Gens -> [Names -> SUBSET [fn : Providers \cup {Rust}, at : Gens]]]
      BY <1>b DEF TypeOK
    <2>2. genDict' \in [Gens -> [Names -> Bound \cup {Absent}]]
      BY <1>b DEF TypeOK
    <2>3. genCached' \in [Gens -> SUBSET Names] /\ core' \in [Gens -> Cores \cup {None}]
      BY <1>a, <1>b DEF TypeOK
    <2>4. rng' \in [Cores -> RNG \cup {None}]
      BY <1>a, FreshRNG DEF TypeOK
    <2> QED
      BY <2>1, <2>2, <2>3, <2>4, <1>b, <1>c DEF TypeOK
  <1>2. ObjectsInv'
    <2>1. ASSUME NEW x \in Gens PROVE GenObject(x)' /\ RegisteredExactly(x)'
      <3>1. GenObject(x) /\ RegisteredExactly(x)
        BY DEF ObjectsInv
      <3>2. CASE x = g
        BY <3>1, <3>2, <1>a, <1>b, <1>f DEF GenObject, RegisteredExactly, Live, TypeOK
      <3>3. CASE x # g
        BY <3>1, <3>3, <1>b, <1>e, <1>f DEF GenObject, RegisteredExactly, Live
      <3> QED
        BY <3>2, <3>3
    <2>2. ASSUME NEW q \in Proxies PROVE ProxyObject(q)'
      BY <1>b, <1>c, Constants DEF ObjectsInv, ProxyObject, Live
    <2>3. ASSUME NEW l \in Keys PROVE SharedObject(l)'
      BY <1>b, <1>f DEF ObjectsInv, SharedObject, TypeOK
    <2> QED
      BY <2>1, <2>2, <2>3 DEF ObjectsInv
  <1>3. ASSUME NEW x \in Gens, NEW n \in Names PROVE GenEntry(x, n)'
    <2>1. GenEntry(x, n)
      BY DEF GenDictInv
    <2>2. CASE x # g
      BY <2>1, <2>2, <1>b, <1>e DEF GenEntry, Live
    <2>3. CASE x = g
      <3>1. genCached'[g] = {}
        BY <1>b DEF TypeOK
      <3> QED
        BY <3>1, <2>1, <2>3, <1>b, <1>d DEF GenEntry, Live
    <2> QED
      BY <2>2, <2>3
  <1>4. ASSUME NEW q \in Proxies, NEW n \in Names PROVE ProxyEntry(q, n)'
    <2>1. ProxyEntry(q, n)
      BY DEF ProxyDictInv
    <2>2. CASE proxyGen[q] = g
      BY <2>2, <1>b, <1>c DEF ProxyEntry, Empty
    <2>3. CASE proxyGen[q] = None
      BY <2>1, <2>3, <1>b, <1>c, Constants DEF ObjectsInv, ProxyObject, ProxyEntry, Empty
    <2>4. CASE proxyGen[q] \in Gens \ {g}
      BY <2>1, <2>4, <1>b, <1>c, <1>e DEF ProxyEntry, AsSeen, Live, Resolved
    <2> QED
      BY <2>2, <2>3, <2>4 DEF TypeOK
  <1>5. GlobalSeedReachesSharedCores'
    BY <1>b, <1>f DEF GlobalSeedReachesSharedCores, ObjectsInv, SharedObject, TypeOK
  <1>6. SharedKeys'
    BY <1>a, <1>b, <1>e, Constants DEF SharedKeys, Live, TypeOK, ObjectsInv, SharedObject
  <1> QED
    BY <1>1, <1>2, <1>3, <1>4, <1>5, <1>6 DEF GenDictInv, ProxyDictInv

\* A step that changes RNG states only, without releasing a core, breaks
\* nothing but possibly the agreement with the global seed.
LEMMA ReseedInv ==
  ASSUME CacheInv,
         rng' \in [Cores -> RNG \cup {None}],
         \A c \in Cores : rng[c] # None => rng'[c] # None,
         globalSeed' \in Seeds \cup {None},
         GlobalSeedReachesSharedCores',
         UNCHANGED <<key, core, genDict, genCached, provMethods, registered, proxyGen,
                     proxyDict, cachedNames, sharedCores, last, superseded>>
  PROVE  CacheInv'
  <1> USE DEF CacheInv
  <1>1. TypeOK'
    BY DEF TypeOK
  <1>2. ObjectsInv'
    <2>1. ASSUME NEW x \in Gens PROVE GenObject(x)' /\ RegisteredExactly(x)'
      BY DEF ObjectsInv, GenObject, RegisteredExactly, Live
    <2>2. ASSUME NEW q \in Proxies PROVE ProxyObject(q)'
      BY DEF ObjectsInv, ProxyObject, Live
    <2>3. ASSUME NEW l \in Keys PROVE SharedObject(l)'
      BY DEF ObjectsInv, SharedObject, TypeOK
    <2> QED
      BY <2>1, <2>2, <2>3 DEF ObjectsInv
  <1>3. GenDictInv'
    BY DEF GenDictInv, GenEntry, Live
  <1>4. ProxyDictInv'
    BY DEF ProxyDictInv, ProxyEntry, Live, Resolved, AsSeen
  <1>6. SharedKeys'
    BY DEF SharedKeys, Live
  <1> QED
    BY <1>1, <1>2, <1>3, <1>4, <1>6

LEMMA SeedInstanceAgainInv ==
  ASSUME CacheInv, NEW g \in Gens, NEW s \in Seeds, SeedInstance(g, s), ~IsShared(g)
  PROVE  CacheInv'
  <1> USE DEF CacheInv
  <1>1. /\ rng' = [rng EXCEPT ![core[g]] = Fresh(s)] /\ core[g] \in Cores
        /\ UNCHANGED <<key, core, genDict, genCached, provMethods, registered, proxyGen,
                       proxyDict, cachedNames, sharedCores, globalSeed, last, superseded>>
    BY DEF SeedInstance, ObjectsInv, GenObject
  <1>0. \A k \in Keys : sharedCores[k] # core[g]
    BY DEF SeedInstance, SharedKeys, IsShared
  <1>2. /\ rng' \in [Cores -> RNG \cup {None}]
        /\ \A c \in Cores : rng[c] # None => rng'[c] # None
    BY <1>1, FreshRNG, Constants DEF TypeOK
  <1>3. globalSeed' \in Seeds \cup {None} /\ GlobalSeedReachesSharedCores'
    BY <1>0, <1>1 DEF GlobalSeedReachesSharedCores, TypeOK
  <1> QED
    BY <1>1, <1>2, <1>3, ReseedInv

LEMMA GlobalSeedInv ==
  ASSUME CacheInv, NEW s \in Seeds, GlobalSeed(s)
  PROVE  CacheInv'
  <1> USE DEF CacheInv
  <1>1. /\ globalSeed' = s
        /\ rng' = [c \in Cores |-> IF \E k \in Keys : sharedCores[k] = c THEN Fresh(s) ELSE rng[c]]
        /\ UNCHANGED <<key, core, genDict, genCached, provMethods, registered, proxyGen,
                       proxyDict, cachedNames, sharedCores, last, superseded>>
    BY DEF GlobalSeed, genVars, proxyVars
  <1>2. /\ rng' \in [Cores -> RNG \cup {None}]
        /\ \A c \in Cores : rng[c] # None => rng'[c] # None
    BY <1>1, FreshRNG, Constants DEF TypeOK
  <1>3. globalSeed' \in Seeds \cup {None} /\ GlobalSeedReachesSharedCores'
    BY <1>1, FreshRNG DEF GlobalSeedReachesSharedCores, TypeOK
  <1> QED
    BY <1>1, <1>2, <1>3, ReseedInv

\* What is reached from proxies is live, and closed under "draws from".
LEMMA ReachLive ==
  ASSUME CacheInv, NEW P \in SUBSET Proxies, Copyable(P)
  PROVE  /\ Reach(P) \subseteq {g \in Gens : Live(g)}
         /\ \A p \in P : proxyGen[p] \in Reach(P)
         /\ \A g \in Reach(P), n \in Names :
              n \in provMethods[g] /\ genDict[g][n] # Absent => genDict[g][n].at \in Reach(P)
  <1> DEFINE S == {g \in Gens : Live(g)}
             Closed(R) == /\ {proxyGen[p] : p \in P} \subseteq R
                          /\ \A r \in R : Owners(r) \subseteq R
  <1> USE DEF CacheInv
  <1>1. \A p \in P : proxyGen[p] \in S
    BY DEF Copyable, TypeOK, ObjectsInv, ProxyObject
  <1>2. \A g \in Gens, n \in Names : n \in provMethods[g] => genDict[g][n].at \in S
    BY DEF GenDictInv, GenEntry, ProviderMethod
  <1>3. \A g \in Gens : Owners(g) \subseteq S
    BY <1>2 DEF Owners, TypeOK
  <1>4. S \in SUBSET Gens /\ Closed(S)
    BY <1>1, <1>3
  <1>5. Reach(P) \subseteq S
    BY <1>4 DEF Reach
  <1>6. \A p \in P : proxyGen[p] \in Reach(P)
    BY <1>1 DEF Reach
  <1>7. ASSUME NEW g \in Reach(P), NEW n \in Names, n \in provMethods[g], genDict[g][n] # Absent
        PROVE  genDict[g][n].at \in Reach(P)
    <2>1. g \in Gens /\ genDict[g][n].at \in Owners(g) /\ genDict[g][n].at \in Gens
      BY <1>2, <1>5, <1>7 DEF Owners
    <2>2. ASSUME NEW R \in SUBSET Gens, Closed(R)
          PROVE  genDict[g][n].at \in R
      <3>1. g \in R
        BY <2>2, <1>7 DEF Reach
      <3> QED
        BY <3>1, <2>1, <2>2
    <2> QED
      BY <2>1, <2>2 DEF Reach
  <1> QED
    BY <1>5, <1>6, <1>7

\* The copy of a generator holds its provider methods, rebound, and nothing cached.
LEMMA CopiedGen ==
  ASSUME CacheInv, NEW P \in SUBSET Proxies, Copyable(P),
         NEW q \in FreshProxies(P), NEW f \in FreshGens(P), CopyObjects(P, q, f),
         NEW g \in Reach(P)
  PROVE  /\ f[g] \in Gens /\ ~Live(f[g]) /\ g \in Gens /\ Live(g)
         /\ key'[f[g]] = key[g]
         /\ provMethods'[f[g]] = provMethods[g]
         /\ registered'[f[g]] = {q[p] : p \in {r \in P : proxyGen[r] = g}}
         /\ genDict'[f[g]] = [n \in Names |->
              IF n \in genCached[g] \/ genDict[g][n] = Absent THEN Absent
              ELSE Method(genDict[g][n].fn, f[genDict[g][n].at])]
  <1>1. /\ f \in [Reach(P) -> {x \in Gens : ~Live(x)}]
        /\ \A x, y \in Reach(P) : f[x] = f[y] => x = y
    BY DEF FreshGens, Injections
  <1>2. g \in Gens /\ Live(g)
    BY ReachLive
  <1>3. f[g] \in Gens /\ ~Live(f[g])
    BY <1>1
  <1>4. (\E r \in Reach(P) : f[r] = f[g]) /\ (CHOOSE r \in Reach(P) : f[r] = f[g]) = g
    BY <1>1
  <1>5. /\ key'[f[g]] = key[g]
        /\ provMethods'[f[g]] = provMethods[g]
        /\ registered'[f[g]] = {q[p] : p \in {r \in P : proxyGen[r] = g}}
    BY <1>3, <1>4 DEF CopyObjects
  <1>6. genDict'[f[g]] = [n \in Names |->
              IF n \in genCached[g] \/ genDict[g][n] = Absent THEN Absent
              ELSE Method(genDict[g][n].fn, f[genDict[g][n].at])]
    BY <1>3, <1>4 DEF CopyObjects, Rebound
  <1> QED
    BY <1>2, <1>3, <1>5, <1>6

\* Originals are left alone, and every copied proxy fronts the copy of its
\* generator with nothing cached.
LEMMA CopyFrame ==
  ASSUME CacheInv, NEW P \in SUBSET Proxies, Copyable(P),
         NEW q \in FreshProxies(P), NEW f \in FreshGens(P), CopyObjects(P, q, f)
  PROVE  /\ UNCHANGED <<genCached, proxyDict, cachedNames, sharedCores, globalSeed, last, superseded>>
         /\ \A x \in Gens : (~\E g \in Reach(P) : f[g] = x) =>
              /\ key'[x] = key[x] /\ genDict'[x] = genDict[x]
              /\ provMethods'[x] = provMethods[x] /\ registered'[x] = registered[x]
         /\ \A p \in P : /\ q[p] \in Proxies /\ proxyGen[q[p]] = None
                         /\ proxyGen'[q[p]] = f[proxyGen[p]]
         /\ \A y \in Proxies : (~\E p \in P : q[p] = y) => proxyGen'[y] = proxyGen[y]
         /\ \A p, r \in P : q[p] = q[r] => p = r
         /\ DOMAIN key' = Gens /\ DOMAIN genDict' = Gens /\ DOMAIN provMethods' = Gens
         /\ key' = [x \in Gens |-> key'[x]] /\ genDict' = [x \in Gens |-> genDict'[x]]
         /\ provMethods' = [x \in Gens |-> provMethods'[x]]
         /\ registered' = [x \in Gens |-> registered'[x]]
         /\ proxyGen' = [y \in Proxies |-> proxyGen'[y]]
  <1>1. /\ q \in [P -> {y \in Proxies : proxyGen[y] = None}]
        /\ \A p, r \in P : q[p] = q[r] => p = r
    BY DEF FreshProxies, Injections
  <1>2. ASSUME NEW p \in P
        PROVE  /\ q[p] \in Proxies /\ proxyGen[q[p]] = None
               /\ proxyGen'[q[p]] = f[proxyGen[p]]
    <2>1. q[p] \in Proxies /\ proxyGen[q[p]] = None
      BY <1>1
    <2>2. (\E r \in P : q[r] = q[p]) /\ (CHOOSE r \in P : q[r] = q[p]) = p
      BY <1>1
    <2> QED
      BY <2>1, <2>2 DEF CopyObjects
  <1> QED
    BY <1>1, <1>2 DEF CopyObjects

\* A copy preserves CacheInv whatever cores the copied generators get, as long
\* as they are allocated ones and the shared cores stay as they are.
LEMMA CopyInv ==
  ASSUME CacheInv, NEW P \in SUBSET Proxies, Copyable(P),
         NEW q \in FreshProxies(P), NEW f \in FreshGens(P), CopyObjects(P, q, f),
         \A g \in Reach(P) : core'[f[g]] \in Cores /\ rng'[core'[f[g]]] # None,
         \A x \in Gens : (~\E g \in Reach(P) : f[g] = x) => core'[x] = core[x],
         core' = [x \in Gens |-> core'[x]],
         rng' \in [Cores -> RNG \cup {None}],
         \A c \in Cores : rng[c] # None => rng'[c] = rng[c],
         \A g \in Reach(P), k \in Keys : core'[f[g]] = sharedCores[k] => key[g] = k
  PROVE  CacheInv'
  <1> DEFINE Copied(x) == \E g \in Reach(P) : f[g] = x
  <1>f. \A g \in Reach(P) :
          /\ f[g] \in Gens /\ ~Live(f[g]) /\ g \in Gens /\ Live(g)
          /\ key'[f[g]] = key[g]
          /\ provMethods'[f[g]] = provMethods[g]
          /\ registered'[f[g]] = {q[p] : p \in {r \in P : proxyGen[r] = g}}
          /\ genDict'[f[g]] = [n \in Names |->
               IF n \in genCached[g] \/ genDict[g][n] = Absent THEN Absent
               ELSE Method(genDict[g][n].fn, f[genDict[g][n].at])]
    BY CopiedGen
  <1>g. \A g \in Reach(P) : /\ f[g] \in Gens /\ ~Live(f[g]) /\ g \in Gens /\ Live(g)
                            /\ key'[f[g]] = key[g] /\ provMethods'[f[g]] = provMethods[g]
    BY <1>f
  <1>j. ASSUME NEW g \in Reach(P)
        PROVE  /\ genDict'[f[g]] = [n \in Names |-> genDict'[f[g]][n]]
               /\ \A n \in Names : genDict'[f[g]][n] =
                    IF n \in genCached[g] \/ genDict[g][n] = Absent THEN Absent
                    ELSE Method(genDict[g][n].fn, f[genDict[g][n].at])
    <2> DEFINE d == [n \in Names |->
                       IF n \in genCached[g] \/ genDict[g][n] = Absent THEN Absent
                       ELSE Method(genDict[g][n].fn, f[genDict[g][n].at])]
    <2>1. genDict'[f[g]] = d
      BY <1>f
    <2>2. d = [n \in Names |-> d[n]]
      OBVIOUS
    <2>3. \A n \in Names : d[n] = IF n \in genCached[g] \/ genDict[g][n] = Absent THEN Absent
                                  ELSE Method(genDict[g][n].fn, f[genDict[g][n].at])
      OBVIOUS
    <2> HIDE DEF d
    <2> QED
      BY <2>1, <2>2, <2>3
  <1>k. \A g \in Reach(P) : registered'[f[g]] = {q[p] : p \in {r \in P : proxyGen[r] = g}}
    BY <1>f
  <1>h. \A x \in Gens : ~Copied(x) =>
          /\ key'[x] = key[x] /\ genDict'[x] = genDict[x]
          /\ provMethods'[x] = provMethods[x] /\ registered'[x] = registered[x]
    BY CopyFrame
  <1>i. /\ key' = [x \in Gens |-> key'[x]] /\ genDict' = [x \in Gens |-> genDict'[x]]
        /\ provMethods' = [x \in Gens |-> provMethods'[x]]
        /\ registered' = [x \in Gens |-> registered'[x]]
        /\ proxyGen' = [y \in Proxies |-> proxyGen'[y]]
        /\ \A p \in P : q[p] \in Proxies /\ proxyGen'[q[p]] = f[proxyGen[p]]
    BY CopyFrame
  <1> USE DEF CacheInv
  <1>a. UNCHANGED <<genCached, proxyDict, cachedNames, sharedCores, globalSeed, last, superseded>>
    BY CopyFrame
  <1>b. ASSUME NEW x \in Gens, Live(x)
        PROVE  /\ ~Copied(x) /\ core'[x] = core[x] /\ genDict'[x] = genDict[x]
               /\ provMethods'[x] = provMethods[x] /\ key'[x] = key[x]
    <2>1. ~Copied(x)
      BY <1>b, <1>g DEF Live
    <2> QED
      BY <2>1, <1>b, <1>h DEF Live
  <1>c. ASSUME NEW y \in Proxies
        PROVE  \/ /\ proxyGen'[y] = proxyGen[y]
                  /\ proxyGen[y] # None => proxyGen[y] \in Gens /\ Live(proxyGen[y])
               \/ /\ proxyGen[y] = None
                  /\ \E p \in P : y = q[p] /\ proxyGen'[y] = f[proxyGen[p]] /\ proxyGen[p] \in Reach(P)
    <2>1. proxyGen[y] # None => proxyGen[y] \in Gens /\ Live(proxyGen[y])
      BY DEF TypeOK, ObjectsInv, ProxyObject
    <2> QED
      BY <2>1, CopyFrame, ReachLive
  <1>d. ASSUME NEW g \in Reach(P)
        PROVE  /\ f[g] \in Gens /\ ~Live(f[g]) /\ key'[f[g]] # None /\ g \in Gens /\ Live(g)
               /\ genCached[f[g]] = {} /\ superseded[f[g]] = [n \in Names |-> {}]
    <2>1. /\ f[g] \in Gens /\ ~Live(f[g]) /\ g \in Gens /\ Live(g) /\ key'[f[g]] = key[g]
      BY <1>g
    <2> QED
      BY <2>1 DEF ObjectsInv, GenObject, Live
  <1>e. ASSUME NEW g \in Reach(P), NEW n \in Names
        PROVE  IF n \in provMethods[g]
               THEN /\ genDict'[f[g]][n] \in ProviderMethod
                    /\ key'[genDict'[f[g]][n].at] # None
               ELSE genDict'[f[g]][n] = Absent
    <2>1. GenEntry(g, n) /\ g \in Gens
      BY ReachLive DEF GenDictInv
    <2>2. genDict'[f[g]][n] = IF n \in genCached[g] \/ genDict[g][n] = Absent THEN Absent
                              ELSE Method(genDict[g][n].fn, f[genDict[g][n].at])
      BY <1>j, ZenonT(60)
    <2>3. CASE n \in provMethods[g]
      <3>1. genDict[g][n] \in ProviderMethod /\ n \notin genCached[g] /\ genDict[g][n] # Absent
        BY <2>1, <2>3, Constants DEF GenEntry, Bound
      <3>2. genDict[g][n].at \in Reach(P)
        BY <2>3, <3>1, ReachLive
      <3>3. f[genDict[g][n].at] \in Gens /\ key'[f[genDict[g][n].at]] # None
        BY <3>2, <1>d
      <3> QED
        BY <2>2, <2>3, <3>1, <3>3 DEF Method, ProviderMethod
    <2>4. CASE n \notin provMethods[g]
      BY <2>1, <2>2, <2>4 DEF GenEntry
    <2> QED
      BY <2>3, <2>4
  <1>1. TypeOK'
    <2>1. ASSUME NEW x \in Gens
          PROVE  /\ key'[x] \in Keys \cup {None} /\ core'[x] \in Cores \cup {None}
                 /\ provMethods'[x] \in SUBSET Names /\ registered'[x] \in SUBSET Proxies
                 /\ genDict'[x] \in [Names -> Bound \cup {Absent}]
      <3>1. CASE ~Copied(x)
        BY <3>1, <1>h DEF TypeOK
      <3>2. CASE Copied(x)
        <4> PICK g \in Reach(P) : f[g] = x
          BY <3>2
        <4>1. g \in Gens /\ key'[x] = key[g] /\ provMethods'[x] = provMethods[g]
          BY <1>g
        <4>2. registered'[x] \in SUBSET Proxies
          <5>1. registered'[x] = {q[p] : p \in {r \in P : proxyGen[r] = g}}
            BY <1>k
          <5> QED
            BY <5>1, <1>i
        <4>3. genDict'[x] = [n \in Names |-> genDict'[x][n]]
          BY <1>j
        <4>4. \A n \in Names : genDict'[x][n] \in Bound \cup {Absent}
          BY <1>e DEF Bound
        <4> QED
          BY <4>1, <4>2, <4>3, <4>4 DEF TypeOK
      <3> QED
        BY <3>1, <3>2
    <2>2. ASSUME NEW y \in Proxies PROVE proxyGen'[y] \in Gens \cup {None}
      BY <1>c, <1>d DEF TypeOK
    <2>3. /\ key' \in [Gens -> Keys \cup {None}] /\ core' \in [Gens -> Cores \cup {None}]
          /\ provMethods' \in [Gens -> SUBSET Names] /\ registered' \in [Gens -> SUBSET Proxies]
          /\ genDict' \in [Gens -> [Names -> Bound \cup {Absent}]]
      BY <2>1, <1>i
    <2>4. proxyGen' \in [Proxies -> Gens \cup {None}]
      BY <2>2, <1>i
    <2> QED
      BY <2>3, <2>4, <1>a DEF TypeOK
  <1>2. ObjectsInv'
    <2>1. ASSUME NEW x \in Gens PROVE GenObject(x)'
      <3>1. CASE Copied(x)
        BY <3>1, <1>d DEF GenObject, Live
      <3>2. CASE ~Copied(x)
        <4>1. GenObject(x)
          BY DEF ObjectsInv
        <4> QED
          BY <4>1, <3>2, <1>a, <1>h DEF GenObject, Live
      <3> QED
        BY <3>1, <3>2
    <2>2. ASSUME NEW x \in Gens PROVE RegisteredExactly(x)'
      <3>1. CASE ~Copied(x)
        <4>1. registered'[x] = {y \in Proxies : proxyGen[y] = x}
          BY <3>1, <1>h DEF ObjectsInv, RegisteredExactly
        <4>2. \A y \in Proxies : proxyGen[y] = x <=> proxyGen'[y] = x
          BY <3>1, <1>c, Constants
        <4> QED
          BY <4>1, <4>2 DEF RegisteredExactly
      <3>2. CASE Copied(x)
        <4> PICK g \in Reach(P) : f[g] = x
          BY <3>2
        <4>1. registered'[x] = {q[p] : p \in {r \in P : proxyGen[r] = g}}
          BY <1>k
        <4>2. \A h \in Reach(P) : f[h] = x => h = g
          BY DEF FreshGens, Injections
        <4>3. ~Live(x)
          BY <1>d
        <4>4. ASSUME NEW y \in Proxies, proxyGen'[y] = x PROVE y \in registered'[x]
          <5>1. PICK p \in P : y = q[p] /\ proxyGen'[y] = f[proxyGen[p]] /\ proxyGen[p] \in Reach(P)
            BY <1>c, <4>3, <4>4, Constants
          <5>2. proxyGen[p] = g
            <6>1. PICK h \in Reach(P) : h = proxyGen[p] /\ f[h] = x
              BY <5>1, <4>4
            <6> QED
              BY <4>2, <6>1
          <5>3. p \in {r \in P : proxyGen[r] = g}
            BY <5>2
          <5> QED
            BY <5>1, <5>3, <4>1, Zenon
        <4>5. ASSUME NEW y \in registered'[x] PROVE y \in Proxies /\ proxyGen'[y] = x
          BY <4>1, <1>i
        <4> QED
          BY <4>4, <4>5 DEF RegisteredExactly
      <3> QED
        BY <3>1, <3>2
    <2>3. ASSUME NEW y \in Proxies PROVE ProxyObject(y)'
      <3>1. ProxyObject(y)
        BY DEF ObjectsInv
      <3>2. CASE proxyGen'[y] = proxyGen[y]
        BY <3>1, <3>2, <1>a, <1>b DEF ProxyObject, TypeOK, Live
      <3>3. CASE proxyGen'[y] # proxyGen[y]
        <4>1. PICK p \in P : y = q[p] /\ proxyGen'[y] = f[proxyGen[p]] /\ proxyGen[p] \in Reach(P)
          BY <3>3, <1>c
        <4> QED
          BY <4>1, <1>d, Constants DEF ProxyObject, Live
      <3> QED
        BY <3>2, <3>3
    <2>4. ASSUME NEW l \in Keys PROVE SharedObject(l)'
      BY <1>a DEF ObjectsInv, SharedObject, TypeOK
    <2> QED
      BY <2>1, <2>2, <2>3, <2>4 DEF ObjectsInv
  <1>3. ASSUME NEW x \in Gens, NEW n \in Names PROVE GenEntry(x, n)'
    <2>1. CASE Copied(x)
      <3> PICK g \in Reach(P) : f[g] = x
        BY <2>1
      <3>1. provMethods'[x] = provMethods[g] /\ genCached'[x] = {}
        BY <1>g, <1>a, <1>d
      <3> QED
        BY <3>1, <1>e DEF GenEntry, Live
    <2>2. CASE ~Copied(x)
      <3>1. GenEntry(x, n) /\ (n \in genCached[x] => Live(x))
        BY DEF GenDictInv, ObjectsInv, GenObject
      <3>2. /\ genDict'[x] = genDict[x] /\ provMethods'[x] = provMethods[x]
            /\ genCached'[x] = genCached[x] /\ core'[x] = core[x]
        BY <2>2, <1>a, <1>h
      <3>3. n \in provMethods[x] => key'[genDict[x][n].at] # None
        BY <3>1, <1>b DEF GenEntry, ProviderMethod, Live
      <3> QED
        BY <3>1, <3>2, <3>3 DEF GenEntry, Live
    <2> QED
      BY <2>1, <2>2
  <1>4. ASSUME NEW y \in Proxies, NEW n \in Names PROVE ProxyEntry(y, n)'
    <2>1. ProxyEntry(y, n)
      BY DEF ProxyDictInv
    <2>2. CASE proxyGen[y] = None
      BY <2>1, <2>2, <1>a DEF ObjectsInv, ProxyObject, ProxyEntry, Empty
    <2>3. CASE proxyGen[y] # None
      <3>1. /\ proxyGen'[y] = proxyGen[y] /\ proxyGen[y] \in Gens /\ Live(proxyGen[y])
        BY <2>3, <1>c
      <3>2. Resolved(proxyGen[y], n)' = Resolved(proxyGen[y], n)
        BY <3>1, <1>b DEF Resolved
      <3>3. proxyDict[y][n] # Absent /\ proxyDict[y][n].fn # Rust => key'[proxyDict[y][n].at] # None
        BY <2>1, <1>b, Constants DEF ProxyEntry, TypeOK, Bound, CoreMethod, ProviderMethod, Live
      <3> QED
        BY <2>1, <3>1, <3>2, <3>3, <1>a, <1>b DEF ProxyEntry, AsSeen, Live
    <2> QED
      BY <2>2, <2>3
  <1>5. GlobalSeedReachesSharedCores'
    BY <1>a DEF GlobalSeedReachesSharedCores, ObjectsInv, SharedObject, TypeOK
  <1>6. SharedKeys'
    <2>1. ASSUME NEW x \in Gens, NEW k \in Keys, Live(x)', core'[x] = sharedCores[k]
          PROVE  key'[x] = k
      <3>1. CASE Copied(x)
        <4> PICK g \in Reach(P) : f[g] = x
          BY <3>1
        <4> QED
          BY <2>1, <1>g
      <3>2. CASE ~Copied(x)
        BY <3>2, <2>1, <1>h DEF SharedKeys, Live
      <3> QED
        BY <3>1, <3>2
    <2> QED
      BY <2>1, <1>a DEF SharedKeys
  <1> QED
    BY <1>1, <1>2, <1>3, <1>4, <1>5, <1>6 DEF GenDictInv, ProxyDictInv

\* The core a deep copy of a generator gets is a fresh clone of its core.
LEMMA DeepCopiedCores ==
  ASSUME CacheInv, NEW P \in SUBSET Proxies, Copyable(P), NEW f \in FreshGens(P),
         NEW h \in Injections({core[g] : g \in Reach(P)}, FreeCores),
         core' = [x \in Gens |-> IF \E g \in Reach(P) : f[g] = x
                     THEN h[core[CHOOSE g \in Reach(P) : f[g] = x]] ELSE core[x]],
         rng' = [c \in Cores |-> IF \E d \in DOMAIN h : h[d] = c
                    THEN rng[CHOOSE d \in DOMAIN h : h[d] = c] ELSE rng[c]]
  PROVE  /\ \A g \in Reach(P) : /\ core'[f[g]] = h[core[g]] /\ core'[f[g]] \in Cores
                                /\ rng[core'[f[g]]] = None
                                /\ rng'[core'[f[g]]] = rng[core[g]]
                                /\ rng'[core'[f[g]]] # None
         /\ \A x \in Gens : (~\E g \in Reach(P) : f[g] = x) => core'[x] = core[x]
         /\ rng' \in [Cores -> RNG \cup {None}]
         /\ \A c \in Cores : rng[c] # None => rng'[c] = rng[c]
  <1> DEFINE C == {core[g] : g \in Reach(P)}
  <1>1. /\ f \in [Reach(P) -> {x \in Gens : ~Live(x)}]
        /\ \A x, y \in Reach(P) : f[x] = f[y] => x = y
    BY DEF FreshGens, Injections
  <1>2. /\ h \in [C -> FreeCores] /\ DOMAIN h = C
        /\ \A x, y \in C : h[x] = h[y] => x = y
    BY DEF Injections
  <1>3. \A g \in Reach(P) : g \in Gens /\ core[g] \in Cores /\ rng[core[g]] # None
    BY ReachLive DEF CacheInv, ObjectsInv, GenObject
  <1>4. \A c \in FreeCores : c \in Cores /\ rng[c] = None
    BY DEF FreeCores
  <1>5. \A d \in C : d \in Cores /\ rng[d] # None /\ h[d] \in Cores /\ rng[h[d]] = None
    BY <1>2, <1>3, <1>4
  <1>6. ASSUME NEW d \in C PROVE rng'[h[d]] = rng[d]
    <2>1. (\E e \in DOMAIN h : h[e] = h[d]) /\ (CHOOSE e \in DOMAIN h : h[e] = h[d]) = d
      BY <1>2
    <2> QED
      BY <2>1, <1>5
  <1>7. ASSUME NEW g \in Reach(P) PROVE core'[f[g]] = h[core[g]]
    <2>1. (\E r \in Reach(P) : f[r] = f[g]) /\ (CHOOSE r \in Reach(P) : f[r] = f[g]) = g
      BY <1>1
    <2> QED
      BY <2>1, <1>1
  <1>8. ASSUME NEW c \in Cores PROVE rng'[c] \in RNG \cup {None}
    <2>1. CASE \E d \in DOMAIN h : h[d] = c
      BY <2>1, <1>2, <1>5, <1>6 DEF CacheInv, TypeOK
    <2>2. CASE ~\E d \in DOMAIN h : h[d] = c
      BY <2>2 DEF CacheInv, TypeOK
    <2> QED
      BY <2>1, <2>2
  <1>9. ASSUME NEW c \in Cores, rng[c] # None PROVE rng'[c] = rng[c]
    BY <1>2, <1>5, <1>9
  <1>10. \A g \in Reach(P) : /\ core'[f[g]] = h[core[g]] /\ core'[f[g]] \in Cores
                             /\ rng[core'[f[g]]] = None
                             /\ rng'[core'[f[g]]] = rng[core[g]]
                             /\ rng'[core'[f[g]]] # None
    <2> SUFFICES ASSUME NEW g \in Reach(P)
                 PROVE  /\ core'[f[g]] = h[core[g]] /\ core'[f[g]] \in Cores
                        /\ rng[core'[f[g]]] = None
                        /\ rng'[core'[f[g]]] = rng[core[g]]
                        /\ rng'[core'[f[g]]] # None
      OBVIOUS
    <2>1. core'[f[g]] = h[core[g]]
      BY <1>7
    <2>2. core[g] \in C /\ rng[core[g]] # None
      BY <1>3
    <2>3. h[core[g]] \in Cores /\ rng[h[core[g]]] = None /\ rng'[h[core[g]]] = rng[core[g]]
      BY <1>5, <1>6, <2>2
    <2> QED
      BY <2>1, <2>2, <2>3
  <1>11. rng' \in [Cores -> RNG \cup {None}]
    BY <1>8
  <1> QED
    BY <1>9, <1>10, <1>11

LEMMA DeepCopyInv ==
  ASSUME CacheInv, NEW P \in SUBSET Proxies, DeepCopy(P)
  PROVE  CacheInv'
  <1>1. Copyable(P)
    BY DEF DeepCopy
  <1>2. PICK q \in FreshProxies(P), f \in FreshGens(P),
             h \in Injections({core[g] : g \in Reach(P)}, FreeCores) :
          /\ CopyObjects(P, q, f)
          /\ core' = [x \in Gens |-> IF \E g \in Reach(P) : f[g] = x
                        THEN h[core[CHOOSE g \in Reach(P) : f[g] = x]] ELSE core[x]]
          /\ rng' = [c \in Cores |-> IF \E d \in DOMAIN h : h[d] = c
                       THEN rng[CHOOSE d \in DOMAIN h : h[d] = c] ELSE rng[c]]
    BY DEF DeepCopy
  <1>3. /\ \A g \in Reach(P) : /\ core'[f[g]] = h[core[g]] /\ core'[f[g]] \in Cores
                               /\ rng[core'[f[g]]] = None
                               /\ rng'[core'[f[g]]] = rng[core[g]]
                               /\ rng'[core'[f[g]]] # None
        /\ \A x \in Gens : (~\E g \in Reach(P) : f[g] = x) => core'[x] = core[x]
        /\ rng' \in [Cores -> RNG \cup {None}]
        /\ \A c \in Cores : rng[c] # None => rng'[c] = rng[c]
    BY <1>1, <1>2, DeepCopiedCores
  <1>4. \A g \in Reach(P), k \in Keys : core'[f[g]] = sharedCores[k] => key[g] = k
    BY <1>3, Constants DEF CacheInv, ObjectsInv, SharedObject
  <1>5. core' = [x \in Gens |-> core'[x]]
    BY <1>2
  <1>6. \A g \in Reach(P) : core'[f[g]] \in Cores /\ rng'[core'[f[g]]] # None
    BY <1>3
  <1>7. \A x \in Gens : (~\E g \in Reach(P) : f[g] = x) => core'[x] = core[x]
    BY <1>3
  <1>8. rng' \in [Cores -> RNG \cup {None}] /\ \A c \in Cores : rng[c] # None => rng'[c] = rng[c]
    BY <1>3
  <1>9. CopyObjects(P, q, f)
    BY <1>2
  <1> QED
    BY <1>1, <1>4, <1>5, <1>6, <1>7, <1>8, <1>9, CopyInv

\* A pickled generator gets the shared core of its key back, or a fresh one.
LEMMA PickledCores ==
  ASSUME CacheInv, NEW P \in SUBSET Proxies, Copyable(P), NEW f \in FreshGens(P),
         NEW h \in Injections({g \in Reach(P) : ~IsShared(g)}, FreeCores),
         core' = [x \in Gens |-> IF \E g \in Reach(P) : f[g] = x
                     THEN LET g == CHOOSE r \in Reach(P) : f[r] = x
                          IN IF IsShared(g) THEN sharedCores[key[g]] ELSE h[g]
                     ELSE core[x]],
         rng' = [c \in Cores |-> IF \E g \in DOMAIN h : h[g] = c
                    THEN Fresh(Entropy) ELSE rng[c]]
  PROVE  /\ \A g \in Reach(P) : /\ core'[f[g]] = IF IsShared(g) THEN core[g] ELSE h[g]
                                /\ ~IsShared(g) => /\ rng[core'[f[g]]] = None
                                                   /\ rng'[core'[f[g]]] = Fresh(Entropy)
                                /\ core'[f[g]] \in Cores
                                /\ rng'[core'[f[g]]] # None
         /\ \A x \in Gens : (~\E g \in Reach(P) : f[g] = x) => core'[x] = core[x]
         /\ rng' \in [Cores -> RNG \cup {None}]
         /\ \A c \in Cores : rng[c] # None => rng'[c] = rng[c]
  <1> DEFINE U == {g \in Reach(P) : ~IsShared(g)}
  <1>1. /\ f \in [Reach(P) -> {x \in Gens : ~Live(x)}]
        /\ \A x, y \in Reach(P) : f[x] = f[y] => x = y
    BY DEF FreshGens, Injections
  <1>2. /\ h \in [U -> FreeCores] /\ DOMAIN h = U
    BY DEF Injections
  <1>3. \A g \in Reach(P) : g \in Gens /\ core[g] \in Cores /\ rng[core[g]] # None
    BY ReachLive DEF CacheInv, ObjectsInv, GenObject
  <1>4. \A g \in U : h[g] \in Cores /\ rng[h[g]] = None
    BY <1>2 DEF FreeCores
  <1>5. Fresh(Entropy) \in RNG /\ Fresh(Entropy) # None
    BY FreshRNG, Constants
  <1>6. \A g \in U : rng'[h[g]] = Fresh(Entropy)
    BY <1>2, <1>4
  <1>7. ASSUME NEW g \in Reach(P) PROVE core'[f[g]] = IF IsShared(g) THEN core[g] ELSE h[g]
    <2>1. (\E r \in Reach(P) : f[r] = f[g]) /\ (CHOOSE r \in Reach(P) : f[r] = f[g]) = g
      BY <1>1
    <2>2. core'[f[g]] = IF IsShared(g) THEN sharedCores[key[g]] ELSE h[g]
      BY <2>1, <1>1
    <2> QED
      BY <2>2 DEF IsShared
  <1>8. \A c \in Cores : rng'[c] \in RNG \cup {None}
    BY <1>5 DEF CacheInv, TypeOK
  <1>9. \A c \in Cores : rng[c] # None => rng'[c] = rng[c]
    BY <1>2, <1>4
  <1>10. rng' \in [Cores -> RNG \cup {None}]
    BY <1>8
  <1>11. ASSUME NEW g \in Reach(P)
         PROVE  /\ ~IsShared(g) => /\ rng[core'[f[g]]] = None
                                   /\ rng'[core'[f[g]]] = Fresh(Entropy)
                /\ core'[f[g]] \in Cores
                /\ rng'[core'[f[g]]] # None
    <2>1. CASE IsShared(g)
      <3>1. core'[f[g]] = core[g]
        BY <2>1, <1>7
      <3>2. core[g] \in Cores /\ rng[core[g]] # None
        BY <1>3
      <3>3. rng'[core[g]] # None
        BY <3>2, <1>9
      <3> QED
        BY <2>1, <3>1, <3>2, <3>3
    <2>2. CASE ~IsShared(g)
      <3>1. core'[f[g]] = h[g] /\ g \in U
        BY <2>2, <1>7
      <3>2. h[g] \in Cores /\ rng[h[g]] = None /\ rng'[h[g]] = Fresh(Entropy)
        BY <3>1, <1>4, <1>6
      <3> QED
        BY <3>1, <3>2, <1>5
    <2> QED
      BY <2>1, <2>2
  <1> QED
    BY <1>7, <1>9, <1>10, <1>11

LEMMA PickleInv ==
  ASSUME CacheInv, NEW P \in SUBSET Proxies, PickleRoundTrip(P)
  PROVE  CacheInv'
  <1>1. Copyable(P)
    BY DEF PickleRoundTrip
  <1>2. PICK q \in FreshProxies(P), f \in FreshGens(P),
             h \in Injections({g \in Reach(P) : ~IsShared(g)}, FreeCores) :
          /\ CopyObjects(P, q, f)
          /\ core' = [x \in Gens |-> IF \E g \in Reach(P) : f[g] = x
                        THEN LET g == CHOOSE r \in Reach(P) : f[r] = x
                             IN IF IsShared(g) THEN sharedCores[key[g]] ELSE h[g]
                        ELSE core[x]]
          /\ rng' = [c \in Cores |-> IF \E g \in DOMAIN h : h[g] = c
                       THEN Fresh(Entropy) ELSE rng[c]]
    BY DEF PickleRoundTrip
  <1>3. /\ \A g \in Reach(P) : /\ core'[f[g]] = IF IsShared(g) THEN core[g] ELSE h[g]
                               /\ ~IsShared(g) => /\ rng[core'[f[g]]] = None
                                                  /\ rng'[core'[f[g]]] = Fresh(Entropy)
                               /\ core'[f[g]] \in Cores
                               /\ rng'[core'[f[g]]] # None
        /\ \A x \in Gens : (~\E g \in Reach(P) : f[g] = x) => core'[x] = core[x]
        /\ rng' \in [Cores -> RNG \cup {None}]
        /\ \A c \in Cores : rng[c] # None => rng'[c] = rng[c]
    BY <1>1, <1>2, PickledCores
  <1>4. ASSUME NEW g \in Reach(P), NEW k \in Keys, core'[f[g]] = sharedCores[k]
        PROVE  key[g] = k
    <2>1. g \in Gens /\ Live(g)
      BY <1>1, ReachLive
    <2>2. IsShared(g)
      BY <1>3, <1>4, Constants DEF CacheInv, ObjectsInv, SharedObject
    <2> QED
      BY <2>1, <2>2, <1>3, <1>4 DEF CacheInv, SharedKeys
  <1>5. core' = [x \in Gens |-> core'[x]]
    BY <1>2
  <1>6. \A g \in Reach(P) : core'[f[g]] \in Cores /\ rng'[core'[f[g]]] # None
    BY <1>3
  <1>7. \A x \in Gens : (~\E g \in Reach(P) : f[g] = x) => core'[x] = core[x]
    BY <1>3
  <1>8. rng' \in [Cores -> RNG \cup {None}] /\ \A c \in Cores : rng[c] # None => rng'[c] = rng[c]
    BY <1>3
  <1>9. CopyObjects(P, q, f)
    BY <1>2
  <1> QED
    BY <1>1, <1>4, <1>5, <1>6, <1>7, <1>8, <1>9, CopyInv

-----------------------------------------------------------------------------

LEMMA NextCacheInv == CacheInv /\ [NextEntangled]_vars => CacheInv'
  <1> SUFFICES ASSUME CacheInv, [NextEntangled]_vars PROVE CacheInv'
    OBVIOUS
  <1>1. ASSUME NEW p \in Proxies, NEW g \in Gens, NEW k \in Keys, NewFaker(p, g, k)
        PROVE  CacheInv'
    BY <1>1, NewFakerInv
  <1>2. ASSUME NEW p \in Proxies, NEW g \in Gens, NewProxy(p, g) PROVE CacheInv'
    BY <1>2, NewProxyInv
  <1>3. ASSUME NEW p \in Proxies, DropProxy(p) PROVE CacheInv'
    BY <1>3, DropProxyInv
  <1>4. ASSUME NEW p \in Proxies, NEW n \in Names, Call(p, n) PROVE CacheInv'
    BY <1>4, CallInv
  <1>5. ASSUME NEW g \in Gens, NEW o \in Gens, NEW v \in Providers,
               Live(o), AddProvider(g, v, o)
        PROVE  CacheInv'
    BY <1>5, AddProviderInv
  <1>6. ASSUME NEW g \in Gens, NEW v \in Providers, NEW ms \in SUBSET Names,
               SetFormatters(g, v, g, ms)
        PROVE  CacheInv'
    <2>1. Live(g)
      BY <1>6 DEF SetFormatters
    <2> QED
      BY <2>1, <1>6, SetFormattersInv
  <1>7. ASSUME NEW g \in Gens, NEW s \in Seeds, SeedInstance(g, s) PROVE CacheInv'
    BY <1>7, SeedInstanceFirstInv, SeedInstanceAgainInv
  <1>8. ASSUME NEW s \in Seeds, GlobalSeed(s) PROVE CacheInv'
    BY <1>8, GlobalSeedInv
  <1>9. ASSUME NEW P \in SUBSET Proxies, DeepCopy(P) \/ PickleRoundTrip(P) PROVE CacheInv'
    BY <1>9, DeepCopyInv, PickleInv
  <1>10. CASE Next
    <2>1. \A p \in Proxies : {p} \in SUBSET Proxies
      OBVIOUS
    <2>2. \A n \in Names : {n} \in SUBSET Names
      OBVIOUS
    <2>3. \A v \in Providers : \A ms \in SUBSET Methods[v] : ms \in SUBSET Names
      BY Constants
    <2>4. ASSUME NEW g \in Gens, NEW v \in Providers, AddProvider(g, v, g) PROVE CacheInv'
      <3>1. Live(g)
        BY <2>4 DEF AddProvider
      <3> QED
        BY <3>1, <2>4, <1>5
    <2> QED
      BY <1>10, <1>1, <1>2, <1>3, <1>4, <1>6, <1>7, <1>8, <1>9, <2>1, <2>2, <2>3, <2>4 DEF Next
  <1>11. CASE UNCHANGED vars
    BY <1>11 DEF vars, genVars, proxyVars, coreVars, CacheInv, TypeOK, ObjectsInv, GenObject,
       RegisteredExactly, ProxyObject, SharedObject, GenDictInv, GenEntry, ProxyDictInv,
       ProxyEntry, SharedKeys, GlobalSeedReachesSharedCores, Live, Resolved, AsSeen
  <1> QED
    BY <1>5, <1>9, <1>10, <1>11 DEF NextEntangled

\* CacheInv, with the type invariant, holds of every client: the caches of the
\* generators and proxies never go wrong, whatever is shared and copied.
THEOREM CacheInvariant == SpecEntangled => []CacheInv
  BY InitCacheInv, NextCacheInv, PTL DEF SpecEntangled

\* Every object keeps its shape for every client: generators have a key and a
\* core, a proxy one generator, and what is cached is a bound method.
THEOREM TypeTheorem == SpecEntangled => []TypeOK
  <1>1. CacheInv => TypeOK
    BY DEF CacheInv
  <1> QED
    BY <1>1, CacheInvariant, PTL

\* No cache holds a method bound to a core its generator has left
\* (_invalidate at generator.py:195 reaches every cached copy).
THEOREM StaleCoreTheorem == SpecEntangled => []NoStaleCore
  <1>1. CacheInv => NoStaleCore
    <2> SUFFICES ASSUME CacheInv PROVE NoStaleCore
      OBVIOUS
    <2>1. ASSUME NEW g \in Gens, NEW n \in Names, genDict[g][n] # Absent, genDict[g][n].fn = Rust
          PROVE  genDict[g][n].at = core[g]
      <3>1. GenEntry(g, n)
        BY DEF CacheInv, GenDictInv
      <3>2. n \notin provMethods[g]
        BY <3>1, <2>1, Constants DEF GenEntry, ProviderMethod
      <3> QED
        BY <3>1, <3>2, <2>1 DEF GenEntry, Method
    <2>2. ASSUME NEW p \in Proxies, NEW n \in Names, proxyDict[p][n] # Absent,
                 proxyDict[p][n].fn = Rust
          PROVE  proxyDict[p][n].at = core[proxyGen[p]]
      BY <2>2 DEF CacheInv, ProxyDictInv, ProxyEntry
    <2> QED
      BY <2>1, <2>2 DEF NoStaleCore
  <1> QED
    BY <1>1, CacheInvariant, PTL

\* A proxy's cached method is current, or was superseded without telling it.
THEOREM CoherenceTheorem == SpecEntangled => []ProxyCoherent
  <1>1. CacheInv => ProxyCoherent
    BY DEF CacheInv, ProxyDictInv, ProxyEntry, ProxyCoherent
  <1> QED
    BY <1>1, CacheInvariant, PTL

\* Faker.seed governs every shared core, present and future.
THEOREM GlobalSeedTheorem == SpecEntangled => []GlobalSeedReachesSharedCores
  <1>1. CacheInv => GlobalSeedReachesSharedCores
    BY DEF CacheInv
  <1> QED
    BY <1>1, CacheInvariant, PTL

-----------------------------------------------------------------------------
(* Clients of Spec: no generator is entangled with another.                *)

\* With providers of its own only, a generator is copied alone.
LEMMA ReachAlone ==
  ASSUME CacheInv, OwnProviders, NEW p \in Proxies, NEW P \in SUBSET Proxies, P = {p},
         Copyable(P)
  PROVE  proxyGen[p] \in Gens /\ Live(proxyGen[p]) /\ Reach(P) = {proxyGen[p]}
  <1> DEFINE g == proxyGen[p]
  <1>1. g \in Reach(P) /\ g \in Gens /\ Live(g)
    BY ReachLive
  <1>2. Owners(g) \subseteq {g}
    BY <1>1 DEF Owners, OwnProviders, CacheInv, TypeOK
  <1>3. {g} \in SUBSET Gens /\ {proxyGen[r] : r \in P} \subseteq {g}
    BY <1>1
  <1>4. Reach(P) \subseteq {g}
    BY <1>2, <1>3 DEF Reach
  <1> QED
    BY <1>1, <1>4

\* What a copy of one proxy does to who owns which core: the new generator g2
\* is on the shared core of its key or on a core nobody had.
LEMMA CopyIsolation ==
  ASSUME CacheInv, IsolationInv, NEW P \in SUBSET Proxies, NEW p \in P, Copyable(P),
         Reach(P) = {proxyGen[p]},
         NEW q \in FreshProxies(P), NEW f \in FreshGens(P), CopyObjects(P, q, f),
         \A x \in Gens : (~\E g \in Reach(P) : f[g] = x) => core'[x] = core[x],
         \/ IsShared(proxyGen[p]) /\ core'[f[proxyGen[p]]] = core[proxyGen[p]]
         \/ rng[core'[f[proxyGen[p]]]] = None
  PROVE  IsolationInv'
  <1> DEFINE g == proxyGen[p]
             g2 == f[g]
  <1>1. \A r \in Reach(P) :
          /\ f[r] \in Gens /\ ~Live(f[r]) /\ r \in Gens /\ Live(r)
          /\ key'[f[r]] = key[r]
          /\ provMethods'[f[r]] = provMethods[r]
          /\ registered'[f[r]] = {q[u] : u \in {w \in P : proxyGen[w] = r}}
          /\ genDict'[f[r]] = [n \in Names |->
               IF n \in genCached[r] \/ genDict[r][n] = Absent THEN Absent
               ELSE Method(genDict[r][n].fn, f[genDict[r][n].at])]
    BY CopiedGen
  <1>2. /\ g2 \in Gens /\ ~Live(g2) /\ g \in Gens /\ Live(g)
        /\ key'[g2] = key[g] /\ provMethods'[g2] = provMethods[g]
    BY <1>1
  <1>3. \A n \in Names : n \in provMethods[g] /\ n \notin genCached[g] /\ genDict[g][n] # Absent
          => genDict'[g2][n] = Method(genDict[g][n].fn, f[genDict[g][n].at])
    <2>1. genDict'[g2] = [n \in Names |->
            IF n \in genCached[g] \/ genDict[g][n] = Absent THEN Absent
            ELSE Method(genDict[g][n].fn, f[genDict[g][n].at])]
      BY <1>1
    <2> QED
      BY <2>1
  <1>4. \A x \in Gens : x # g2 =>
          /\ key'[x] = key[x] /\ genDict'[x] = genDict[x] /\ core'[x] = core[x]
          /\ provMethods'[x] = provMethods[x]
    <2>1. \A x \in Gens : (~\E r \in Reach(P) : f[r] = x) =>
            /\ key'[x] = key[x] /\ genDict'[x] = genDict[x]
            /\ provMethods'[x] = provMethods[x] /\ registered'[x] = registered[x]
      BY CopyFrame
    <2> QED
      BY <2>1
  <1>5. sharedCores' = sharedCores
    BY DEF CopyObjects
  <1> HIDE DEF g, g2
  <1>6. \/ IsShared(g) /\ core'[g2] = core[g]
       \/ rng[core'[g2]] = None
    BY DEF g, g2
  <1>7. ASSUME NEW x \in Gens, x # g2, Live(x), core[x] = core'[g2]
        PROVE  IsShared(x) /\ core'[g2] = sharedCores'[key'[g2]]
    <2>1. core[x] \in Cores /\ rng[core[x]] # None
      BY <1>7 DEF CacheInv, ObjectsInv, GenObject
    <2>2. IsShared(g) /\ core'[g2] = core[g]
      BY <1>6, <1>7, <2>1
    <2>3. key[g] \in Keys /\ sharedCores[key[g]] = core[x]
      BY <1>2, <1>7, <2>2 DEF IsShared, CacheInv, TypeOK, Live
    <2>4. key[x] = key[g]
      BY <1>7, <2>3 DEF CacheInv, SharedKeys
    <2> QED
      BY <1>2, <1>5, <2>2, <2>3, <2>4, <1>7 DEF IsShared
  <1>8. ASSUME NEW x \in Gens, NEW y \in Gens, x # y, key'[x] # None, key'[y] # None,
               core'[x] = core'[y]
        PROVE  core'[x] = sharedCores'[key'[x]] /\ core'[y] = sharedCores'[key'[y]]
    <2>1. CASE x = g2
      <3>1. y # g2 /\ Live(y) /\ core[y] = core'[g2]
        BY <2>1, <1>4, <1>8 DEF Live
      <3> QED
        BY <3>1, <2>1, <1>4, <1>5, <1>7 DEF IsShared
    <2>2. CASE y = g2
      <3>1. x # g2 /\ Live(x) /\ core[x] = core'[g2]
        BY <2>2, <1>4, <1>8 DEF Live
      <3> QED
        BY <3>1, <2>2, <1>4, <1>5, <1>7 DEF IsShared
    <2>3. CASE x # g2 /\ y # g2
      BY <2>3, <1>4, <1>5, <1>8 DEF IsolationInv, OwnCore, IsShared, Live
    <2> QED
      BY <2>1, <2>2, <2>3
  <1>9. OwnCore'
    BY <1>8 DEF OwnCore, IsShared, Live
  <1>10. ASSUME NEW x \in Gens, NEW n \in Names, n \in provMethods'[x]
         PROVE  genDict'[x][n].at = x
    <2>1. CASE x # g2
      BY <2>1, <1>4, <1>10 DEF IsolationInv, OwnProviders
    <2>2. CASE x = g2
      <3>1. n \in provMethods[g] /\ GenEntry(g, n)
        BY <2>2, <1>2, <1>10 DEF CacheInv, GenDictInv
      <3>2. genDict[g][n] # Absent /\ n \notin genCached[g]
        BY <3>1, Constants DEF GenEntry, Bound
      <3>3. genDict[g][n].at = g
        BY <3>1, <1>2 DEF IsolationInv, OwnProviders
      <3>4. genDict'[g2][n] = Method(genDict[g][n].fn, f[g])
        BY <3>1, <3>2, <3>3, <1>3
      <3> QED
        BY <3>4, <2>2 DEF Method, g2
    <2> QED
      BY <2>1, <2>2
  <1> QED
    BY <1>9, <1>10 DEF IsolationInv, OwnProviders

\* What a provider v of g itself leaves in the dicts, however it is installed:
\* its methods under their names, and no other method of a provider replaced.
LEMMA InstallEffect ==
  ASSUME CacheInv, NEW g \in Gens, NEW v \in Providers, NEW ms \in SUBSET Names,
         SetFormatters(g, v, g, ms) \/ (AddProvider(g, v, g) /\ ms = Methods[v])
  PROVE  /\ \A x \in Gens : provMethods'[x] = IF x = g THEN provMethods[x] \cup ms ELSE provMethods[x]
         /\ \A x \in Gens, n \in Names : n \in provMethods'[x] =>
              (genDict'[x][n] = IF x = g /\ n \in ms THEN Method(v, g) ELSE genDict[x][n])
  <1>2. \A x \in Gens : provMethods'[x] = IF x = g THEN provMethods[x] \cup ms ELSE provMethods[x]
    BY DEF SetFormatters, AddProvider, CacheInv, TypeOK
  <1>3. ASSUME NEW x \in Gens, NEW n \in Names, n \in provMethods'[x]
        PROVE  genDict'[x][n] = IF x = g /\ n \in ms THEN Method(v, g) ELSE genDict[x][n]
    <2>1. CASE SetFormatters(g, v, g, ms)
      BY <2>1 DEF SetFormatters, Stored, CacheInv, TypeOK
    <2>2. CASE AddProvider(g, v, g) /\ ms = Methods[v]
      <3>1. genDict' = [genDict EXCEPT ![g] =
               [m \in Names |-> IF m \in (genCached[g] \ ms) \ (provMethods[g] \cup ms)
                                THEN Absent ELSE Stored(g, v, g, ms)[m]]]
        BY <2>2 DEF AddProvider, Invalidate
      <3>2. x # g => genDict'[x] = genDict[x]
        BY <3>1 DEF CacheInv, TypeOK
      <3>3. ASSUME x = g
            PROVE  genDict'[x][n] = IF n \in ms THEN Method(v, g) ELSE genDict[x][n]
        <4>1. n \in provMethods[g] \cup ms
          BY <3>3, <1>2, <1>3
        <4>2. genDict'[g][n] = Stored(g, v, g, ms)[n]
          BY <3>1, <4>1 DEF CacheInv, TypeOK
        <4> QED
          BY <3>3, <4>2 DEF Stored
      <3> QED
        BY <3>2, <3>3
    <2> QED
      BY <2>1, <2>2
  <1> QED
    BY <1>2, <1>3

LEMMA NextIsolationInv == CacheInv /\ IsolationInv /\ [Next]_vars => IsolationInv'
  <1> SUFFICES ASSUME CacheInv, IsolationInv, [Next]_vars PROVE IsolationInv'
    OBVIOUS
  <1>0. CacheInv'
    BY NextCacheInv DEF NextEntangled
  <1>a. ASSUME UNCHANGED <<key, core, provMethods, sharedCores>>,
               \A g \in Gens, n \in Names : n \in provMethods[g] => genDict'[g][n] = genDict[g][n]
        PROVE  IsolationInv'
    BY <1>a DEF IsolationInv, OwnCore, OwnProviders, IsShared, Live
  <1>1. ASSUME NEW p \in Proxies, NEW g \in Gens, NEW k \in Keys, NewFaker(p, g, k)
        PROVE  IsolationInv'
    <2>1. /\ key' = [key EXCEPT ![g] = k] /\ ~Live(g) /\ UNCHANGED <<genDict, provMethods>>
          /\ \A x \in Gens : x # g => core'[x] = core[x] /\ key'[x] = key[x]
          /\ key'[g] = k
      BY <1>1 DEF NewFaker, CacheInv, TypeOK
    <2>2. /\ core'[g] = sharedCores'[k]
          /\ \A l \in Keys : sharedCores[l] # None => sharedCores'[l] = sharedCores[l]
          /\ sharedCores[k] # core'[g] => rng[core'[g]] = None
      BY <1>1, Constants DEF NewFaker, FreeCores, CacheInv, TypeOK
    <2>3. OwnCore'
      <3>1. ASSUME NEW x \in Gens, x # g, Live(x)
            PROVE  /\ IsShared(x) => IsShared(x)'
                   /\ core[x] = core'[g] => IsShared(x)
        <4>1. core[x] \in Cores /\ rng[core[x]] # None /\ key[x] \in Keys
          BY <3>1 DEF CacheInv, ObjectsInv, GenObject, TypeOK, Live
        <4>2. IsShared(x) => IsShared(x)'
          BY <4>1, <2>1, <2>2, <3>1, Constants DEF IsShared
        <4>3. core[x] = core'[g] => sharedCores[k] = core[x]
          BY <4>1, <2>2
        <4> QED
          BY <4>2, <4>3, <3>1 DEF IsShared, CacheInv, SharedKeys
      <3>2. IsShared(g)'
        BY <2>1, <2>2 DEF IsShared
      <3> QED
        BY <3>1, <3>2, <2>1 DEF OwnCore, IsolationInv, Live
    <2>4. OwnProviders'
      BY <2>1 DEF OwnProviders, IsolationInv
    <2> QED
      BY <2>3, <2>4 DEF IsolationInv
  <1>2. ASSUME NEW p \in Proxies, NEW g \in Gens, NewProxy(p, g) PROVE IsolationInv'
    BY <1>2, <1>a DEF NewProxy, coreVars
  <1>3. ASSUME NEW p \in Proxies, DropProxy(p) PROVE IsolationInv'
    BY <1>3, <1>a DEF DropProxy, coreVars
  <1>4. ASSUME NEW p \in Proxies, NEW n \in Names, Call(p, n) PROVE IsolationInv'
    <2>1. UNCHANGED <<key, core, provMethods, sharedCores>>
      BY <1>4 DEF Call
    <2>2. ASSUME NEW g \in Gens, NEW m \in Names, m \in provMethods[g]
          PROVE  genDict'[g][m] = genDict[g][m]
      <3>1. genDict[g][m] # Absent
        BY <2>2, Constants DEF CacheInv, GenDictInv, GenEntry, Bound
      <3>2. \/ genDict' = genDict
            \/ /\ genDict' = [genDict EXCEPT ![proxyGen[p]][n] = Lookup(p, n)]
               /\ genDict[proxyGen[p]][n] = Absent
        BY <1>4 DEF Call
      <3>3. genDict \in [Gens -> [Names -> Bound \cup {Absent}]]
        BY DEF CacheInv, TypeOK
      <3> QED
        BY <3>1, <3>2, <3>3
    <2> QED
      BY <2>1, <2>2, <1>a
  <1>5. ASSUME NEW g \in Gens, NEW v \in Providers, NEW ms \in SUBSET Names,
               SetFormatters(g, v, g, ms) \/ (AddProvider(g, v, g) /\ ms = Methods[v])
        PROVE  IsolationInv'
    <2>1. UNCHANGED <<key, core, sharedCores>>
      BY <1>5 DEF SetFormatters, AddProvider, coreVars
    <2>2. \A x \in Gens : provMethods'[x] = IF x = g THEN provMethods[x] \cup ms ELSE provMethods[x]
      BY <1>5, InstallEffect
    <2>3. \A x \in Gens, n \in Names : n \in provMethods'[x] =>
            (genDict'[x][n] = IF x = g /\ n \in ms THEN Method(v, g) ELSE genDict[x][n])
      BY <1>5, InstallEffect
    <2>4. OwnProviders'
      <3> SUFFICES ASSUME NEW x \in Gens, NEW n \in Names, n \in provMethods'[x]
                   PROVE  genDict'[x][n].at = x
        BY DEF OwnProviders
      <3>1. CASE x = g /\ n \in ms
        BY <3>1, <2>3 DEF Method
      <3>2. CASE ~(x = g /\ n \in ms)
        <4>1. n \in provMethods[x]
          BY <3>2, <2>2
        <4>2. genDict'[x][n] = genDict[x][n]
          BY <3>2, <2>3
        <4> QED
          BY <4>1, <4>2 DEF OwnProviders, IsolationInv
      <3> QED
        BY <3>1, <3>2
    <2> QED
      BY <2>1, <2>4 DEF IsolationInv, OwnCore, IsShared, Live
  <1>6. ASSUME NEW g \in Gens, NEW s \in Seeds, SeedInstance(g, s) PROVE IsolationInv'
    <2>1. CASE ~IsShared(g)
      BY <2>1, <1>6, <1>a DEF SeedInstance
    <2>2. CASE IsShared(g)
      <3>1. PICK c \in Cores : /\ rng[c] = None /\ core' = [core EXCEPT ![g] = c]
        BY <2>2, <1>6 DEF SeedInstance, FreeCores
      <3>2. /\ UNCHANGED <<key, provMethods, sharedCores>>
            /\ genDict' = [genDict EXCEPT ![g] =
                 [n \in Names |-> IF n \in genCached[g] \ provMethods[g] THEN Absent
                                  ELSE genDict[g][n]]]
        BY <2>2, <1>6 DEF SeedInstance, Invalidate
      <3>3. \A x \in Gens : core'[x] = IF x = g THEN c ELSE core[x]
        BY <3>1 DEF CacheInv, TypeOK
      <3>4. \A x \in Gens : Live(x) => core[x] # c
        BY <3>1 DEF CacheInv, ObjectsInv, GenObject
      <3>5. OwnCore'
        <4>1. ASSUME NEW x \in Gens, NEW y \in Gens, x # y, key[x] # None, key[y] # None,
                     core'[x] = core'[y]
              PROVE  core'[x] = sharedCores[key[x]] /\ core'[y] = sharedCores[key[y]]
          <5>1. x # g /\ y # g
            BY <3>3, <3>4, <4>1 DEF Live
          <5> QED
            BY <5>1, <3>3, <4>1 DEF OwnCore, IsolationInv, IsShared, Live
        <4> QED
          BY <4>1, <3>2 DEF OwnCore, IsShared, Live
      <3>6. OwnProviders'
        BY <3>2 DEF OwnProviders, IsolationInv, CacheInv, TypeOK
      <3> QED
        BY <3>5, <3>6 DEF IsolationInv
    <2> QED
      BY <2>1, <2>2
  <1>7. ASSUME NEW s \in Seeds, GlobalSeed(s) PROVE IsolationInv'
    BY <1>7, <1>a DEF GlobalSeed, genVars
  <1>8. ASSUME NEW p \in Proxies, NEW P \in SUBSET Proxies, P = {p}, DeepCopy(P)
        PROVE  IsolationInv'
    <2>1. Copyable(P) /\ p \in P
      BY <1>8 DEF DeepCopy
    <2>2. proxyGen[p] \in Gens /\ Live(proxyGen[p]) /\ Reach(P) = {proxyGen[p]}
      BY <1>8, <2>1, ReachAlone DEF IsolationInv
    <2>3. PICK q \in FreshProxies(P), f \in FreshGens(P),
               h \in Injections({core[g] : g \in Reach(P)}, FreeCores) :
            /\ CopyObjects(P, q, f)
            /\ core' = [x \in Gens |-> IF \E g \in Reach(P) : f[g] = x
                          THEN h[core[CHOOSE g \in Reach(P) : f[g] = x]] ELSE core[x]]
            /\ rng' = [c \in Cores |-> IF \E d \in DOMAIN h : h[d] = c
                         THEN rng[CHOOSE d \in DOMAIN h : h[d] = c] ELSE rng[c]]
      BY <1>8 DEF DeepCopy
    <2>4. /\ \A g \in Reach(P) : /\ core'[f[g]] = h[core[g]] /\ core'[f[g]] \in Cores
                                 /\ rng[core'[f[g]]] = None
                                 /\ rng'[core'[f[g]]] = rng[core[g]]
                                 /\ rng'[core'[f[g]]] # None
          /\ \A x \in Gens : (~\E g \in Reach(P) : f[g] = x) => core'[x] = core[x]
          /\ rng' \in [Cores -> RNG \cup {None}]
          /\ \A c \in Cores : rng[c] # None => rng'[c] = rng[c]
      BY <2>1, <2>3, DeepCopiedCores
    <2>5. rng[core'[f[proxyGen[p]]]] = None
      BY <2>2, <2>4
    <2>6. \A x \in Gens : (~\E g \in Reach(P) : f[g] = x) => core'[x] = core[x]
      BY <2>4
    <2> QED
      BY <2>1, <2>2, <2>3, <2>5, <2>6, CopyIsolation
  <1>9. ASSUME NEW p \in Proxies, NEW P \in SUBSET Proxies, P = {p}, PickleRoundTrip(P)
        PROVE  IsolationInv'
    <2>1. Copyable(P) /\ p \in P
      BY <1>9 DEF PickleRoundTrip
    <2>2. proxyGen[p] \in Gens /\ Live(proxyGen[p]) /\ Reach(P) = {proxyGen[p]}
      BY <1>9, <2>1, ReachAlone DEF IsolationInv
    <2>3. PICK q \in FreshProxies(P), f \in FreshGens(P),
               h \in Injections({g \in Reach(P) : ~IsShared(g)}, FreeCores) :
            /\ CopyObjects(P, q, f)
            /\ core' = [x \in Gens |-> IF \E g \in Reach(P) : f[g] = x
                          THEN LET g == CHOOSE r \in Reach(P) : f[r] = x
                               IN IF IsShared(g) THEN sharedCores[key[g]] ELSE h[g]
                          ELSE core[x]]
            /\ rng' = [c \in Cores |-> IF \E g \in DOMAIN h : h[g] = c
                         THEN Fresh(Entropy) ELSE rng[c]]
      BY <1>9 DEF PickleRoundTrip
    <2>4. /\ \A g \in Reach(P) : /\ core'[f[g]] = IF IsShared(g) THEN core[g] ELSE h[g]
                                 /\ ~IsShared(g) => /\ rng[core'[f[g]]] = None
                                                    /\ rng'[core'[f[g]]] = Fresh(Entropy)
                                 /\ core'[f[g]] \in Cores
                                 /\ rng'[core'[f[g]]] # None
          /\ \A x \in Gens : (~\E g \in Reach(P) : f[g] = x) => core'[x] = core[x]
          /\ rng' \in [Cores -> RNG \cup {None}]
          /\ \A c \in Cores : rng[c] # None => rng'[c] = rng[c]
      BY <2>1, <2>3, PickledCores
    <2>5. \/ IsShared(proxyGen[p]) /\ core'[f[proxyGen[p]]] = core[proxyGen[p]]
          \/ rng[core'[f[proxyGen[p]]]] = None
      BY <2>2, <2>4
    <2>6. \A x \in Gens : (~\E g \in Reach(P) : f[g] = x) => core'[x] = core[x]
      BY <2>4
    <2>7. CopyObjects(P, q, f)
      BY <2>3
    <2> QED
      BY <2>1, <2>2, <2>5, <2>6, <2>7, CopyIsolation
  <1>10. CASE UNCHANGED vars
    BY <1>10, <1>a DEF vars, genVars, coreVars
  <1> QED
    <2>1. \A v \in Providers : Methods[v] \in SUBSET Names /\ \A ms \in SUBSET Methods[v] : ms \in SUBSET Names
      BY Constants
    <2>2. \A n \in Names : {n} \in SUBSET Names
      OBVIOUS
    <2>3. \A p \in Proxies : {p} \in SUBSET Proxies
      OBVIOUS
    <2>4. ASSUME NEW p \in Proxies, DeepCopy({p}) \/ PickleRoundTrip({p}) PROVE IsolationInv'
      BY <2>3, <2>4, <1>8, <1>9
    <2> QED
      BY <1>1, <1>2, <1>3, <1>4, <1>5, <1>6, <1>7, <1>10, <2>1, <2>2, <2>4 DEF Next

LEMMA InitIsolationInv == Init => IsolationInv
  BY DEF Init, IsolationInv, OwnCore, OwnProviders, Live

LEMMA SpecInv == Spec => [](CacheInv /\ IsolationInv)
  <1>1. Init => CacheInv /\ IsolationInv
    BY InitCacheInv, InitIsolationInv
  <1>2. CacheInv /\ IsolationInv /\ [Next]_vars => (CacheInv /\ IsolationInv)'
    BY NextCacheInv, NextIsolationInv DEF NextEntangled
  <1> QED
    BY <1>1, <1>2, PTL DEF Spec

\* A client whose providers belong to the generators they are added to, and
\* who copies one proxy at a time, never has two generators on one private core
\* (generator.py:115-119, 135-138, 192-199).
THEOREM OwnCoreTheorem == Spec => []OwnCore
  <1>1. IsolationInv => OwnCore
    BY DEF IsolationInv
  <1> QED
    BY <1>1, SpecInv, PTL

\* For that client every provider on a generator draws from it, whatever copies
\* rebound (generator.py:118-125): what keeps private cores apart is inductive.
THEOREM IsolationTheorem == Spec => []IsolationInv
  BY SpecInv, PTL

\* For that client seed_instance makes every formatter repeatable: all of them,
\* custom providers' too, draw from the core it seeded.
THEOREM FollowSeedTheorem == Spec => []FormattersFollowSeed
  <1>1. CacheInv /\ IsolationInv => FormattersFollowSeed
    <2> SUFFICES ASSUME CacheInv, IsolationInv, NEW g \in Gens, NEW n \in Names,
                        Resolved(g, n) # Absent
                 PROVE  DrawsFrom(Resolved(g, n)) = core[g]
      BY DEF FormattersFollowSeed
    <2>1. GenEntry(g, n)
      BY DEF CacheInv, GenDictInv
    <2>2. CASE n \in provMethods[g]
      <3>1. genDict[g][n] \in ProviderMethod /\ genDict[g][n] # Absent
        BY <2>1, <2>2, Constants DEF GenEntry, Bound
      <3>2. genDict[g][n].fn # Rust /\ genDict[g][n].at = g
        BY <2>2, <3>1, Constants DEF ProviderMethod, IsolationInv, OwnProviders
      <3> QED
        BY <3>1, <3>2 DEF Resolved, DrawsFrom
    <2>3. CASE n \notin provMethods[g]
      <3>1. Resolved(g, n) = Method(Rust, core[g])
        BY <2>1, <2>3 DEF GenEntry, Resolved
      <3> QED
        BY <3>1 DEF Method, DrawsFrom
    <2> QED
      BY <2>2, <2>3
  <1> QED
    BY <1>1, SpecInv, PTL
=============================================================================
