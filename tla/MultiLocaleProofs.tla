-------------------------- MODULE MultiLocaleProofs --------------------------
(***************************************************************************)
(* What a seeded multi-locale Faker promises, for any locales, Fakers and     *)
(* formatters, if its clients copy it only when its children are apart.       *)
(***************************************************************************)
EXTENDS MultiLocale, TLAPS

\* A core in _shared_cores is there under the key it was made for.
SharedNamed == \A k \in Keys : sharedCores[k] \in {None, k}

\* A child is on its shared core or on one of its own, and on the module's
\* Random or one of its own; a Faker that is not there yet has nothing.
ChildObjects(m, l) ==
  /\ core[m][l] = <<m, l>> \/ (core[m][l] = KeyOf[l] /\ sharedCores[KeyOf[l]] = KeyOf[l])
  /\ random[m][l] \in {Module, <<m, l>>}
Nothing(m) ==
  /\ \A l \in Locales : core[m][l] = None /\ due[m][l] = None
  /\ \A n \in Names : mapping[m][n] = None
  /\ dueChoice[m] = None
Objects == \A m \in Multis : (Live(m) /\ \A l \in Locales : ChildObjects(m, l)) \/ Nothing(m)

\* What a seed was promised for is an object of one's own.
SeededOwn == \A m \in Multis :
  /\ dueChoice[m] # None => random[m][First] = <<m, First>>
  /\ \A l \in Locales : due[m][l] # None => core[m][l] = <<m, l>>

MultiInv ==
  /\ MultiTypeOK /\ SharedNamed /\ Objects /\ SeededOwn
  /\ PromisedStreams /\ MappingSupported

-----------------------------------------------------------------------------
(* Names and streams                                                       *)

\* Objects of one's own are nobody else's, and no shared ones.
LEMMA OwnNames ==
  ASSUME NEW m \in Multis, NEW l \in Locales
  PROVE  /\ <<m, l>> \in Cores /\ <<m, l>> \in Randoms /\ <<m, l>> # None
         /\ <<m, l>> \notin Keys /\ <<m, l>> # Module
         /\ KeyOf[l] \in Keys /\ KeyOf[l] \in Cores /\ KeyOf[l] # None
         /\ Module \in Randoms /\ Module # None /\ First \in Locales
BY LocaleAssumption, StreamAssumption DEF Cores, Randoms

LEMMA StreamFacts ==
  /\ None \notin Stream
  /\ \A s \in Seeds : Fresh(s) \in Stream
  /\ \A t \in Stream : CanDraw(t) => Advanced(t) \in Stream
  /\ Entropy \in Seeds /\ None \notin Seeds
<1>1. \A s \in Seeds : Fresh(s) \in Stream
  BY StreamAssumption DEF Fresh, Stream
<1>2. \A t \in Stream : CanDraw(t) => Advanced(t) \in Stream
  BY StreamAssumption DEF CanDraw, Advanced, Stream
<1> QED
  BY <1>1, <1>2, StreamAssumption DEF Stream

\* What MultiInv says of a Faker that is there, and of one that is not.
LEMMA Held ==
  ASSUME MultiInv, NEW m \in Multis, Live(m), NEW l \in Locales
  PROVE  /\ ChildObjects(m, l)
         /\ core[m][l] \in Cores /\ random[m][l] \in Randoms
         /\ core[m][l] # None /\ random[m][l] # None
<1>1. ChildObjects(m, l)
  BY LocaleAssumption DEF MultiInv, Objects, Nothing, Live
<1> QED
  BY <1>1, OwnNames DEF ChildObjects

LEMMA NotHeld ==
  ASSUME MultiInv, NEW m \in Multis, ~Live(m)
  PROVE  Nothing(m)
BY DEF MultiInv, Objects

LEMMA InitMulti == Init => MultiInv
<1> SUFFICES ASSUME Init PROVE MultiInv
  OBVIOUS
<1>1. \A m \in Multis : Nothing(m)
  BY DEF Init, Nothing
<1>2. \A m \in Multis : ~Live(m)
  BY LocaleAssumption DEF Init, Live
<1>3. MultiTypeOK
  BY StreamFacts DEF Init, MultiTypeOK
<1>4. SharedNamed /\ Objects /\ SeededOwn
  BY <1>1 DEF Init, SharedNamed, Objects, SeededOwn
<1>5. PromisedStreams /\ MappingSupported
  BY <1>2 DEF Init, PromisedStreams, MappingSupported
<1> QED
  BY <1>3, <1>4, <1>5 DEF MultiInv

-----------------------------------------------------------------------------
(* Construction and providers                                              *)

LEMMA NewMultiKeeps ==
  ASSUME MultiInv, NEW m \in Multis, NEW w \in BOOLEAN, NewMulti(m, w)
  PROVE  MultiInv'
<1> DEFINE missing == {k \in {KeyOf[l] : l \in Locales} : sharedCores[k] = None}
<1>1. /\ sharedCores' = [k \in Keys |-> IF k \in missing THEN k ELSE sharedCores[k]]
      /\ coreStream' = [c \in Cores |-> IF c \in missing THEN Fresh(StartSeed) ELSE coreStream[c]]
      /\ core' = [core EXCEPT ![m] = [l \in Locales |-> sharedCores'[KeyOf[l]]]]
      /\ random' = [random EXCEPT ![m] = [l \in Locales |-> Module]]
      /\ weighted' = IF w THEN weighted \cup {m} ELSE weighted
      /\ UNCHANGED <<added, mapping, globalSeed, randomStream, due, dueChoice>>
  BY DEF NewMulti, history
<1>2. Nothing(m)
  BY NotHeld DEF NewMulti
<1>3. missing \subseteq Keys /\ \A k \in missing : k \in Cores
  BY OwnNames
<1> HIDE DEF missing
<1>4. /\ \A k \in Keys : sharedCores'[k] \in {None, k}
      /\ \A k \in Keys : sharedCores[k] = k => sharedCores'[k] = k
  BY <1>1 DEF MultiInv, SharedNamed
<1>5. \A l \in Locales : sharedCores'[KeyOf[l]] = KeyOf[l]
  BY <1>1, OwnNames DEF MultiInv, SharedNamed, missing
<1>6. /\ \A l \in Locales : core'[m][l] = KeyOf[l] /\ random'[m][l] = Module
      /\ \A u \in Multis \ {m} : core'[u] = core[u] /\ random'[u] = random[u]
  BY <1>1, <1>5 DEF MultiInv, MultiTypeOK
<1>7. MultiTypeOK'
  <2>1. StartSeed \in Seeds
    BY StreamFacts DEF StartSeed, MultiInv, MultiTypeOK
  <2>2. sharedCores' \in [Keys -> Cores \cup {None}]
    BY <1>1, <1>4 DEF Cores
  <2>3. coreStream' \in [Cores -> Stream]
    BY <1>1, <2>1, StreamFacts DEF MultiInv, MultiTypeOK
  <2>4. core' \in [Multis -> [Locales -> Cores \cup {None}]]
    BY <1>1, <1>5, OwnNames DEF MultiInv, MultiTypeOK
  <2>5. random' \in [Multis -> [Locales -> Randoms \cup {None}]] /\ weighted' \in SUBSET Multis
    BY <1>1 DEF MultiInv, MultiTypeOK, Randoms
  <2> QED
    BY <1>1, <2>2, <2>3, <2>4, <2>5 DEF MultiInv, MultiTypeOK
<1>8. Objects'
  <2>1. ASSUME NEW u \in Multis
        PROVE  (Live(u)' /\ \A l \in Locales : ChildObjects(u, l)') \/ Nothing(u)'
    <3>1. CASE u = m
      <4>1. core'[m][First] # None
        BY <1>6, OwnNames, LocaleAssumption
      <4>2. \A l \in Locales : ChildObjects(m, l)'
        BY <1>5, <1>6 DEF ChildObjects
      <4> QED
        BY <3>1, <4>1, <4>2 DEF Live
    <3>2. CASE u # m
      <4>1. core'[u] = core[u] /\ random'[u] = random[u] /\ due' = due /\ mapping' = mapping
            /\ dueChoice' = dueChoice
        BY <3>2, <1>1, <1>6
      <4>2. CASE Nothing(u)
        BY <4>1, <4>2 DEF Nothing
      <4>3. CASE Live(u) /\ \A l \in Locales : ChildObjects(u, l)
        BY <4>1, <4>3, <1>4, OwnNames DEF Live, ChildObjects
      <4> QED
        BY <4>2, <4>3 DEF MultiInv, Objects
    <3> QED
      BY <3>1, <3>2
  <2> QED
    BY <2>1 DEF Objects
<1>9. SeededOwn'
  BY <1>1, <1>2, <1>6 DEF SeededOwn, MultiInv, Nothing
<1>10. PromisedStreams'
  <2>1. ASSUME NEW u \in Multis, NEW l \in Locales, due[u][l] # None
        PROVE  coreStream'[core'[u][l]] = due[u][l]
    <3>1. u # m
      BY <2>1, <1>2 DEF Nothing
    <3>2. Live(u)
      BY <2>1, NotHeld DEF Nothing
    <3>3. core[u][l] = <<u, l>> /\ coreStream[core[u][l]] = due[u][l]
      BY <2>1, <3>2 DEF MultiInv, SeededOwn, PromisedStreams
    <3>4. coreStream'[<<u, l>>] = coreStream[<<u, l>>]
      BY <1>1, <1>3, OwnNames
    <3> QED
      BY <3>1, <3>3, <3>4, <1>6
  <2>2. ASSUME NEW u \in Multis, dueChoice[u] # None
        PROVE  randomStream[random'[u][First]] = dueChoice[u]
    <3>1. u # m
      BY <2>2, <1>2 DEF Nothing
    <3>2. Live(u)
      BY <2>2, NotHeld DEF Nothing
    <3> QED
      BY <2>2, <3>1, <3>2, <1>6 DEF MultiInv, PromisedStreams
  <2> QED
    BY <1>1, <2>1, <2>2 DEF PromisedStreams
<1>11. MappingSupported'
  BY <1>1 DEF MultiInv, MappingSupported, Has
<1> QED
  BY <1>1, <1>4, <1>7, <1>8, <1>9, <1>10, <1>11 DEF MultiInv, SharedNamed

LEMMA AddProviderKeeps ==
  ASSUME MultiInv, NEW m \in Multis, NEW l \in Locales, NEW n \in Names, AddProvider(m, l, n)
  PROVE  MultiInv'
<1>1. /\ added' = [added EXCEPT ![m][l] = @ \cup {n}]
      /\ UNCHANGED <<core, random, weighted, mapping, sharedCores, globalSeed, coreStream,
                     randomStream, due, dueChoice>>
  BY DEF AddProvider, globals, streams, history
<1>2. added' \in [Multis -> [Locales -> SUBSET Names]]
  BY <1>1 DEF MultiInv, MultiTypeOK
<1>3. \A u \in Multis, k \in Locales : added[u][k] \subseteq added'[u][k]
  BY <1>1 DEF MultiInv, MultiTypeOK
<1>4. MappingSupported'
  BY <1>1, <1>3 DEF MultiInv, MultiTypeOK, MappingSupported, Has
<1>5. MultiTypeOK'
  BY <1>1, <1>2 DEF MultiInv, MultiTypeOK
<1>6. SharedNamed' /\ Objects' /\ SeededOwn' /\ PromisedStreams'
  BY <1>1 DEF MultiInv, SharedNamed, Objects, SeededOwn, PromisedStreams, Live, ChildObjects,
              Nothing
<1> QED
  BY <1>4, <1>5, <1>6 DEF MultiInv

-----------------------------------------------------------------------------
(* Calls                                                                   *)

\* The cores are where the seeds and the calls have brought them.
CoresDue ==
  /\ coreStream \in [Cores -> Stream] /\ due \in [Multis -> [Locales -> Stream \cup {None}]]
  /\ \A m \in Multis, l \in Locales : due[m][l] # None =>
       core[m][l] = <<m, l>> /\ coreStream[core[m][l]] = due[m][l]
\* And so are the Randoms.
ChoiceDue ==
  /\ randomStream \in [Randoms -> Stream] /\ dueChoice \in [Multis -> Stream \cup {None}]
  /\ \A m \in Multis : dueChoice[m] # None =>
       random[m][First] = <<m, First>> /\ randomStream[random[m][First]] = dueChoice[m]

LEMMA AllDue == ASSUME MultiInv PROVE CoresDue /\ ChoiceDue
<1>1. CoresDue
  <2>1. ASSUME NEW m \in Multis, NEW l \in Locales, due[m][l] # None
        PROVE  core[m][l] = <<m, l>> /\ coreStream[core[m][l]] = due[m][l]
    <3>1. core[m][l] = <<m, l>>
      BY <2>1 DEF MultiInv, SeededOwn
    <3>2. Live(m)
      BY <2>1, NotHeld DEF Nothing
    <3> QED
      BY <2>1, <3>1, <3>2 DEF MultiInv, PromisedStreams
  <2> QED
    BY <2>1 DEF MultiInv, MultiTypeOK, CoresDue
<1>2. ChoiceDue
  BY NotHeld DEF MultiInv, MultiTypeOK, SeededOwn, PromisedStreams, Nothing, ChoiceDue
<1> QED
  BY <1>1, <1>2

\* Which seeds were given stays: a call gives none.
SameSeeds ==
  /\ \A m \in Multis : dueChoice'[m] # None => dueChoice[m] # None
  /\ \A m \in Multis, l \in Locales : due'[m][l] # None => due[m][l] # None

LEMMA DrawKeeps ==
  ASSUME MultiInv, NEW m \in Multis, Live(m), NEW l \in Locales, Draw(m, l), core' = core
  PROVE  CoresDue' /\ \A u \in Multis, k \in Locales : due'[u][k] # None => due[u][k] # None
<1> DEFINE c == core[m][l]
<1>1. c \in Cores /\ coreStream[c] \in Stream /\ Advanced(coreStream[c]) \in Stream
  BY Held, StreamFacts DEF Draw, MultiInv, MultiTypeOK
<1>2. coreStream' = [coreStream EXCEPT ![c] = Advanced(@)]
  BY DEF Draw
<1>3. due' = [due EXCEPT ![m][l] = IF @ = None THEN None ELSE Advanced(@)]
  BY DEF Draw
<1>4. coreStream' \in [Cores -> Stream] /\ coreStream'[c] = Advanced(coreStream[c])
      /\ \A d \in Cores \ {c} : coreStream'[d] = coreStream[d]
  BY <1>1, <1>2 DEF MultiInv, MultiTypeOK
<1>5. due[m][l] # None => due[m][l] = coreStream[c]
  BY AllDue DEF CoresDue
<1>6. due'[m][l] = (IF due[m][l] = None THEN None ELSE Advanced(coreStream[c]))
      /\ due' \in [Multis -> [Locales -> Stream \cup {None}]]
      /\ \A u \in Multis, k \in Locales : u # m \/ k # l => due'[u][k] = due[u][k]
  BY <1>1, <1>3, <1>5 DEF MultiInv, MultiTypeOK
<1>7. ASSUME NEW u \in Multis, NEW k \in Locales, due'[u][k] # None
      PROVE  /\ due[u][k] # None
             /\ core[u][k] = <<u, k>> /\ coreStream'[core[u][k]] = due'[u][k]
  <2>1. CASE u = m /\ k = l
    BY <1>4, <1>6, <1>7, <2>1, AllDue DEF CoresDue
  <2>2. CASE u # m \/ k # l
    <3>1. due[u][k] # None /\ due'[u][k] = due[u][k]
      BY <1>6, <1>7, <2>2
    <3>2. core[u][k] = <<u, k>> /\ coreStream[<<u, k>>] = due[u][k]
      BY <3>1, AllDue DEF CoresDue
    <3>3. c # <<u, k>>
      <4>1. c = <<m, l>> \/ c \in Keys
        BY Held, OwnNames DEF ChildObjects
      <4>2. <<m, l>> # <<u, k>>
        BY <2>2
      <4> QED
        BY <4>1, <4>2, OwnNames
    <3> QED
      BY <3>1, <3>2, <3>3, <1>4, OwnNames
  <2> QED
    BY <2>1, <2>2
<1> QED
  BY <1>4, <1>6, <1>7 DEF CoresDue

LEMMA SelectKeeps ==
  ASSUME MultiInv, NEW m \in Multis, Live(m), NEW n \in Names, NEW l \in Locales,
         Select(m, n, l), random' = random
  PROVE  ChoiceDue' /\ \A u \in Multis : dueChoice'[u] # None => dueChoice[u] # None
<1>1. CASE UNCHANGED <<randomStream, dueChoice>>
  BY <1>1, AllDue DEF ChoiceDue
<1>2. CASE ~UNCHANGED <<randomStream, dueChoice>>
  <2> DEFINE r == random[m][First]
  <2>1. /\ CanDraw(randomStream[r])
        /\ randomStream' = [randomStream EXCEPT ![r] = Advanced(@)]
        /\ dueChoice' = [dueChoice EXCEPT ![m] = IF @ = None THEN None ELSE Advanced(@)]
    BY <1>2 DEF Select
  <2>2. r \in {Module, <<m, First>>} /\ r \in Randoms
    BY Held, OwnNames, LocaleAssumption DEF ChildObjects
  <2>3. randomStream[r] \in Stream /\ Advanced(randomStream[r]) \in Stream
    BY <2>1, <2>2, StreamFacts DEF MultiInv, MultiTypeOK
  <2>4. /\ randomStream' \in [Randoms -> Stream] /\ randomStream'[r] = Advanced(randomStream[r])
        /\ \A q \in Randoms \ {r} : randomStream'[q] = randomStream[q]
    BY <2>1, <2>2, <2>3 DEF MultiInv, MultiTypeOK
  <2>5. dueChoice[m] # None => dueChoice[m] = randomStream[r]
    BY AllDue DEF ChoiceDue
  <2>6. /\ dueChoice'[m] = IF dueChoice[m] = None THEN None ELSE Advanced(randomStream[r])
        /\ dueChoice' \in [Multis -> Stream \cup {None}]
        /\ \A u \in Multis \ {m} : dueChoice'[u] = dueChoice[u]
    BY <2>1, <2>3, <2>5 DEF MultiInv, MultiTypeOK
  <2>7. ASSUME NEW u \in Multis, dueChoice'[u] # None
        PROVE  /\ dueChoice[u] # None /\ random[u][First] = <<u, First>>
               /\ randomStream'[random[u][First]] = dueChoice'[u]
    <3>1. CASE u = m
      BY <3>1, <2>4, <2>6, <2>7, AllDue DEF ChoiceDue
    <3>2. CASE u # m
      <4>1. dueChoice[u] # None /\ dueChoice'[u] = dueChoice[u]
        BY <2>6, <2>7, <3>2
      <4>2. random[u][First] = <<u, First>> /\ randomStream[<<u, First>>] = dueChoice[u]
        BY <4>1, AllDue DEF ChoiceDue
      <4>3. <<u, First>> \in Randoms \ {r}
        BY <2>2, <3>2, OwnNames, LocaleAssumption
      <4> QED
        BY <4>1, <4>2, <4>3, <2>4
    <3> QED
      BY <3>1, <3>2
  <2> QED
    BY <2>4, <2>6, <2>7 DEF ChoiceDue
<1> QED
  BY <1>1, <1>2

\* A call keeps the mapping it used, and draws from the streams.
LEMMA CallKeeps ==
  ASSUME MultiInv, NEW m \in Multis, Live(m), UNCHANGED <<children, globals>>,
         CoresDue', ChoiceDue', SameSeeds,
         mapping' = mapping
           \/ \E n \in Names : mapping' = [mapping EXCEPT ![m][n] = Mapped(m, n)]
  PROVE  MultiInv'
<1>1. UNCHANGED <<core, random, weighted, added, sharedCores, globalSeed>>
  BY DEF children, globals
<1>2. \A u \in Multis \ {m} : mapping'[u] = mapping[u]
  BY DEF MultiInv, MultiTypeOK
<1>3. ASSUME NEW n \in Names
      PROVE  /\ Mapped(m, n) \in SUBSET Locales
             /\ \A l \in Mapped(m, n) : Has(m, l, n)
  <2>1. CASE mapping[m][n] # None
    BY <2>1 DEF Mapped, MultiInv, MultiTypeOK, MappingSupported
  <2>2. CASE mapping[m][n] = None
    BY <2>2 DEF Mapped, Compatible
  <2> QED
    BY <2>1, <2>2
<1>4. mapping' \in [Multis -> [Names -> {None} \cup SUBSET Locales]]
  <2>1. ASSUME NEW n \in Names, mapping' = [mapping EXCEPT ![m][n] = Mapped(m, n)]
        PROVE  mapping' \in [Multis -> [Names -> {None} \cup SUBSET Locales]]
    BY <2>1, <1>3 DEF MultiInv, MultiTypeOK
  <2> QED
    BY <2>1 DEF MultiInv, MultiTypeOK
<1>5. MappingSupported'
  <2>1. ASSUME NEW u \in Multis, NEW n \in Names, mapping'[u][n] # None,
               NEW l \in mapping'[u][n]
        PROVE  Has(u, l, n)
    <3>1. CASE mapping'[u][n] = mapping[u][n]
      BY <2>1, <3>1 DEF MultiInv, MappingSupported
    <3>2. CASE mapping'[u][n] # mapping[u][n]
      <4>1. u = m /\ mapping'[u][n] = Mapped(m, n)
        BY <3>2 DEF MultiInv, MultiTypeOK
      <4> QED
        BY <4>1, <2>1, <1>3
    <3> QED
      BY <3>1, <3>2
  <2> QED
    BY <1>1, <2>1 DEF MappingSupported, Has
<1>6. MultiTypeOK'
  BY <1>1, <1>4 DEF MultiInv, MultiTypeOK, CoresDue, ChoiceDue
<1>7. Objects'
  <2>1. ASSUME NEW u \in Multis
        PROVE  (Live(u)' /\ \A l \in Locales : ChildObjects(u, l)') \/ Nothing(u)'
    <3>1. CASE Live(u)
      BY <3>1, <1>1, Held DEF Live, ChildObjects
    <3>2. CASE ~Live(u)
      BY <3>2, <1>1, <1>2, NotHeld DEF Nothing, SameSeeds
    <3> QED
      BY <3>1, <3>2
  <2> QED
    BY <2>1 DEF Objects
<1>8. SharedNamed' /\ SeededOwn' /\ PromisedStreams'
  BY <1>1 DEF MultiInv, SharedNamed, SeededOwn, PromisedStreams, CoresDue, ChoiceDue
<1> QED
  BY <1>5, <1>6, <1>7, <1>8 DEF MultiInv

-----------------------------------------------------------------------------
(* Seeding                                                                 *)

LEMMA SeedKeeps ==
  ASSUME MultiInv, NEW m \in Multis, NEW L \in SUBSET Locales, NEW s \in Seeds,
         SeedChildren(m, L, s)
  PROVE  MultiInv'
<1> DEFINE leaving == {l \in L : OnShared(m, l)}
           off == OffModule(m, L)
<1>1. /\ Live(m)
      /\ core' = [core EXCEPT ![m] =
                   [l \in Locales |-> IF l \in leaving THEN <<m, l>> ELSE core[m][l]]]
      /\ random' = [random EXCEPT ![m] =
                     [l \in Locales |-> IF l \in off THEN <<m, l>> ELSE random[m][l]]]
      /\ coreStream' = [c \in Cores |-> IF \E l \in L : core'[m][l] = c
                                          THEN Fresh(s) ELSE coreStream[c]]
      /\ randomStream' = [r \in Randoms |-> IF \E l \in L : random'[m][l] = r
                                              THEN Fresh(s) ELSE randomStream[r]]
      /\ due' = [due EXCEPT ![m] = [l \in Locales |-> IF l \in L THEN Fresh(s) ELSE due[m][l]]]
      /\ dueChoice' = [dueChoice EXCEPT ![m] = IF First \in L THEN Fresh(s) ELSE @]
      /\ UNCHANGED <<weighted, added, mapping, sharedCores, globalSeed>>
  BY DEF SeedChildren, globals
<1>2. ASSUME NEW l \in L
      PROVE  core'[m][l] = <<m, l>> /\ random'[m][l] = <<m, l>>
  <2>1. ChildObjects(m, l)
    BY <1>1, Held
  <2>2. l \notin leaving => core[m][l] = <<m, l>>
    BY <2>1 DEF ChildObjects, OnShared
  <2>3. l \notin off => random[m][l] = <<m, l>>
    BY <2>1 DEF ChildObjects, OffModule
  <2> QED
    BY <1>1, <2>2, <2>3 DEF MultiInv, MultiTypeOK
<1>3. \A l \in Locales \ L : core'[m][l] = core[m][l] /\ random'[m][l] = random[m][l]
  BY <1>1 DEF MultiInv, MultiTypeOK, OffModule
<1>4. \A u \in Multis \ {m} : core'[u] = core[u] /\ random'[u] = random[u]
  BY <1>1 DEF MultiInv, MultiTypeOK
<1>5. /\ core' \in [Multis -> [Locales -> Cores \cup {None}]]
      /\ random' \in [Multis -> [Locales -> Randoms \cup {None}]]
  BY <1>1, OwnNames DEF MultiInv, MultiTypeOK
<1>6. Fresh(s) \in Stream /\ Fresh(s) # None
  BY StreamFacts
<1> HIDE DEF leaving, off
<1>7. /\ \A l \in L : coreStream'[<<m, l>>] = Fresh(s) /\ randomStream'[<<m, l>>] = Fresh(s)
      /\ \A u \in Multis, k \in Locales : u # m \/ k \notin L =>
           /\ coreStream'[<<u, k>>] = coreStream[<<u, k>>]
           /\ randomStream'[<<u, k>>] = randomStream[<<u, k>>]
  <2>1. ASSUME NEW l \in L
        PROVE  coreStream'[<<m, l>>] = Fresh(s) /\ randomStream'[<<m, l>>] = Fresh(s)
    BY <1>1, <1>2, OwnNames
  <2>2. ASSUME NEW u \in Multis, NEW k \in Locales, u # m \/ k \notin L
        PROVE  /\ coreStream'[<<u, k>>] = coreStream[<<u, k>>]
               /\ randomStream'[<<u, k>>] = randomStream[<<u, k>>]
    <3>1. \A l \in L : <<m, l>> # <<u, k>>
      BY <2>2
    <3> QED
      BY <1>1, <1>2, <3>1, OwnNames
  <2> QED
    BY <2>1, <2>2
<1>8. /\ due' \in [Multis -> [Locales -> Stream \cup {None}]]
      /\ dueChoice' \in [Multis -> Stream \cup {None}]
      /\ \A l \in L : due'[m][l] = Fresh(s)
      /\ \A u \in Multis, k \in Locales : u # m \/ k \notin L => due'[u][k] = due[u][k]
      /\ First \in L => dueChoice'[m] = Fresh(s)
      /\ \A u \in Multis : u # m \/ First \notin L => dueChoice'[u] = dueChoice[u]
  BY <1>1, <1>6 DEF MultiInv, MultiTypeOK
<1>9. MultiTypeOK'
  <2>1. coreStream' \in [Cores -> Stream] /\ randomStream' \in [Randoms -> Stream]
    BY <1>1, <1>6 DEF MultiInv, MultiTypeOK
  <2> QED
    BY <1>1, <1>5, <1>8, <2>1 DEF MultiInv, MultiTypeOK
<1>10. Objects'
  <2>1. ASSUME NEW u \in Multis
        PROVE  (Live(u)' /\ \A l \in Locales : ChildObjects(u, l)') \/ Nothing(u)'
    <3>1. CASE u = m
      <4>1. ASSUME NEW l \in Locales
            PROVE  ChildObjects(m, l)' /\ core'[m][l] # None
        <5>1. CASE l \in L
          BY <5>1, <1>2, OwnNames DEF ChildObjects
        <5>2. CASE l \notin L
          BY <5>2, <1>1, <1>3, Held DEF ChildObjects
        <5> QED
          BY <5>1, <5>2
      <4> QED
        BY <3>1, <4>1, LocaleAssumption DEF Live
    <3>2. CASE u # m
      <4>1. core'[u] = core[u] /\ random'[u] = random[u] /\ due'[u] = due[u] /\ mapping' = mapping
            /\ dueChoice'[u] = dueChoice[u] /\ sharedCores' = sharedCores
        BY <3>2, <1>1, <1>4 DEF MultiInv, MultiTypeOK
      <4>2. CASE Nothing(u)
        BY <4>1, <4>2 DEF Nothing
      <4>3. CASE Live(u) /\ \A l \in Locales : ChildObjects(u, l)
        BY <4>1, <4>3 DEF Live, ChildObjects
      <4> QED
        BY <4>2, <4>3 DEF MultiInv, Objects
    <3> QED
      BY <3>1, <3>2
  <2> QED
    BY <2>1 DEF Objects
<1>11. ASSUME NEW u \in Multis, NEW k \in Locales, due'[u][k] # None
       PROVE  core'[u][k] = <<u, k>> /\ coreStream'[<<u, k>>] = due'[u][k]
  <2>1. CASE u = m /\ k \in L
    BY <2>1, <1>2, <1>7, <1>8
  <2>2. CASE u # m \/ k \notin L
    <3>1. core[u][k] = <<u, k>> /\ coreStream[<<u, k>>] = due[u][k] /\ due'[u][k] = due[u][k]
      <4>1. due'[u][k] = due[u][k] /\ due[u][k] # None
        BY <2>2, <1>8, <1>11
      <4> QED
        BY <4>1, AllDue DEF CoresDue
    <3>2. core'[u][k] = core[u][k]
      BY <2>2, <1>3, <1>4
    <3> QED
      BY <2>2, <3>1, <3>2, <1>7
  <2> QED
    BY <2>1, <2>2
<1>12. ASSUME NEW u \in Multis, dueChoice'[u] # None
       PROVE  random'[u][First] = <<u, First>> /\ randomStream'[<<u, First>>] = dueChoice'[u]
  <2>1. CASE u = m /\ First \in L
    BY <2>1, <1>2, <1>7, <1>8
  <2>2. CASE u # m \/ First \notin L
    <3>1. /\ random[u][First] = <<u, First>> /\ randomStream[<<u, First>>] = dueChoice[u]
          /\ dueChoice'[u] = dueChoice[u]
      BY <2>2, <1>8, <1>12, AllDue DEF ChoiceDue
    <3>2. random'[u][First] = random[u][First]
      BY <2>2, <1>3, <1>4, LocaleAssumption
    <3> QED
      BY <2>2, <3>1, <3>2, <1>7, LocaleAssumption
  <2> QED
    BY <2>1, <2>2
<1>13. SeededOwn' /\ PromisedStreams'
  <2>1. SeededOwn'
    BY <1>11, <1>12 DEF SeededOwn
  <2>2. ASSUME NEW u \in Multis, NEW k \in Locales, due'[u][k] # None
        PROVE  coreStream'[core'[u][k]] = due'[u][k]
    BY <2>2, <1>11
  <2>3. ASSUME NEW u \in Multis, dueChoice'[u] # None
        PROVE  randomStream'[random'[u][First]] = dueChoice'[u]
    BY <2>3, <1>12
  <2> QED
    BY <2>1, <2>2, <2>3 DEF PromisedStreams
<1>14. SharedNamed' /\ MappingSupported'
  BY <1>1 DEF MultiInv, SharedNamed, MappingSupported, Has
<1> QED
  BY <1>9, <1>10, <1>13, <1>14 DEF MultiInv

\* A refused seed gives one child a Random of its own, and moves that one only.
LEMMA RefusedKeeps ==
  ASSUME MultiInv, NEW m \in Multis, NEW l \in Locales, NEW s \in Seeds, RefusedSeed(m, l, s)
  PROVE  MultiInv'
<1>1. /\ Live(m) /\ random[m][l] \in {Module, <<m, l>>}
      /\ UNCHANGED <<core, weighted, added, mapping, sharedCores, globalSeed, coreStream, due>>
  BY Held DEF RefusedSeed, globals, ChildObjects
<1>2. /\ random' = [random EXCEPT ![m][l] = <<m, l>>]
      /\ randomStream' = [randomStream EXCEPT ![<<m, l>>] = Fresh(s)]
      /\ dueChoice' = [dueChoice EXCEPT ![m] = IF l = First THEN Fresh(s) ELSE @]
  BY <1>1 DEF RefusedSeed
<1>3. /\ random' \in [Multis -> [Locales -> Randoms \cup {None}]]
      /\ random'[m][l] = <<m, l>>
      /\ \A u \in Multis, k \in Locales : u # m \/ k # l => random'[u][k] = random[u][k]
  BY <1>2, OwnNames DEF MultiInv, MultiTypeOK
<1>4. /\ randomStream' \in [Randoms -> Stream] /\ randomStream'[<<m, l>>] = Fresh(s)
      /\ \A u \in Multis, k \in Locales : u # m \/ k # l =>
           randomStream'[<<u, k>>] = randomStream[<<u, k>>]
  BY <1>2, OwnNames, StreamFacts DEF MultiInv, MultiTypeOK
<1>5. /\ dueChoice' \in [Multis -> Stream \cup {None}]
      /\ l = First => dueChoice'[m] = Fresh(s)
      /\ \A u \in Multis : u # m \/ l # First => dueChoice'[u] = dueChoice[u]
  BY <1>2, StreamFacts DEF MultiInv, MultiTypeOK
<1>6. MultiTypeOK'
  BY <1>1, <1>3, <1>4, <1>5 DEF MultiInv, MultiTypeOK
<1>7. Objects'
  <2>1. ASSUME NEW u \in Multis
        PROVE  (Live(u)' /\ \A k \in Locales : ChildObjects(u, k)') \/ Nothing(u)'
    <3>1. CASE Live(u)
      <4>1. ASSUME NEW k \in Locales PROVE ChildObjects(u, k)'
        BY <3>1, <1>1, <1>3, Held DEF ChildObjects
      <4> QED
        BY <3>1, <4>1, <1>1 DEF Live
    <3>2. CASE ~Live(u)
      <4>1. u # m
        BY <3>2, <1>1
      <4> QED
        BY <3>2, <4>1, <1>1, <1>5, NotHeld DEF Nothing
    <3> QED
      BY <3>1, <3>2
  <2> QED
    BY <2>1 DEF Objects
<1>8. ASSUME NEW u \in Multis, dueChoice'[u] # None
      PROVE  random'[u][First] = <<u, First>> /\ randomStream'[<<u, First>>] = dueChoice'[u]
  <2>1. CASE u = m /\ l = First
    BY <2>1, <1>3, <1>4, <1>5
  <2>2. CASE u # m \/ l # First
    <3>1. /\ random[u][First] = <<u, First>> /\ randomStream[<<u, First>>] = dueChoice[u]
          /\ dueChoice'[u] = dueChoice[u]
      BY <2>2, <1>5, <1>8, AllDue DEF ChoiceDue
    <3> QED
      BY <2>2, <3>1, <1>3, <1>4, LocaleAssumption
  <2> QED
    BY <2>1, <2>2
<1>9. SeededOwn'
  BY <1>1, <1>8 DEF MultiInv, SeededOwn
<1>10. PromisedStreams'
  <2>1. \A u \in Multis, k \in Locales : due[u][k] # None => coreStream[core[u][k]] = due[u][k]
    BY AllDue DEF CoresDue
  <2>2. \A u \in Multis : dueChoice'[u] # None => randomStream'[random'[u][First]] = dueChoice'[u]
    BY <1>8
  <2> QED
    BY <2>1, <2>2, <1>1 DEF PromisedStreams
<1>11. SharedNamed' /\ MappingSupported'
  BY <1>1 DEF MultiInv, SharedNamed, MappingSupported, Has
<1> QED
  BY <1>6, <1>7, <1>9, <1>10, <1>11 DEF MultiInv

\* Faker.seed reaches shared cores and the module's Random, and no promise is
\* about these.
LEMMA GlobalSeedKeeps ==
  ASSUME MultiInv, NEW s \in Seeds, GlobalSeed(s)
  PROVE  MultiInv'
<1>1. /\ globalSeed' = s
      /\ randomStream' = [randomStream EXCEPT ![Module] = Fresh(s)]
      /\ coreStream' = [c \in Cores |-> IF \E k \in Keys : sharedCores[k] = c
                                          THEN Fresh(s) ELSE coreStream[c]]
      /\ UNCHANGED <<core, random, weighted, added, mapping, sharedCores, due, dueChoice>>
  BY DEF GlobalSeed, children, history
<1>2. Fresh(s) \in Stream
  BY StreamFacts
<1>3. \A u \in Multis, k \in Locales :
        /\ coreStream'[<<u, k>>] = coreStream[<<u, k>>]
        /\ randomStream'[<<u, k>>] = randomStream[<<u, k>>]
  <2>1. ASSUME NEW u \in Multis, NEW k \in Locales
        PROVE  \A i \in Keys : sharedCores[i] # <<u, k>>
    BY OwnNames DEF MultiInv, SharedNamed
  <2> QED
    BY <1>1, <2>1, OwnNames DEF MultiInv, MultiTypeOK
<1>4. MultiTypeOK'
  <2>1. coreStream' \in [Cores -> Stream] /\ randomStream' \in [Randoms -> Stream]
    BY <1>1, <1>2 DEF MultiInv, MultiTypeOK
  <2> QED
    BY <1>1, <2>1 DEF MultiInv, MultiTypeOK
<1>5. SharedNamed' /\ Objects' /\ SeededOwn' /\ MappingSupported'
  BY <1>1 DEF MultiInv, SharedNamed, Objects, SeededOwn, MappingSupported, Live, ChildObjects,
              Nothing, Has
<1>6. PromisedStreams'
  <2>1. ASSUME NEW u \in Multis, NEW k \in Locales, due[u][k] # None
        PROVE  coreStream'[core[u][k]] = due[u][k]
    <3>1. core[u][k] = <<u, k>> /\ coreStream[core[u][k]] = due[u][k]
      BY <2>1, AllDue DEF CoresDue
    <3> QED
      BY <3>1, <1>3
  <2>2. ASSUME NEW u \in Multis, dueChoice[u] # None
        PROVE  randomStream'[random[u][First]] = dueChoice[u]
    <3>1. random[u][First] = <<u, First>> /\ randomStream[random[u][First]] = dueChoice[u]
      BY <2>2, AllDue DEF ChoiceDue
    <3> QED
      BY <3>1, <1>3, LocaleAssumption
  <2> QED
    BY <1>1, <2>1, <2>2 DEF PromisedStreams
<1> QED
  BY <1>4, <1>5, <1>6 DEF MultiInv

-----------------------------------------------------------------------------
(* Copies of Fakers whose children are apart                               *)

\* Objects that differ get a clone each, under the same name as the child.
LEMMA CloneApart ==
  ASSUME NEW held, NEW w,
         \A l, k \in Locales : l # k => held[l] # held[k]
  PROVE  Clone(held, w) = [l \in Locales |-> <<w, l>>]
<1>1. ASSUME NEW l \in Locales
      PROVE  (CHOOSE k \in Locales : held[k] = held[l]) = l
  <2> DEFINE k == CHOOSE k \in Locales : held[k] = held[l]
  <2>1. k \in Locales /\ held[k] = held[l]
    OBVIOUS
  <2> QED
    BY <2>1
<1> QED
  BY <1>1 DEF Clone

\* A clone is in the state of its original, and nothing else moves.
LEMMA ClonedApart ==
  ASSUME NEW held, NEW w, NEW X, NEW S, NEW stream \in [X -> S],
         \A l, k \in Locales : l # k => held[l] # held[k],
         \A l \in Locales : held[l] \in X /\ <<w, l>> \in X
  PROVE  /\ Cloned(stream, held, w) \in [X -> S]
         /\ \A l \in Locales : Cloned(stream, held, w)[<<w, l>>] = stream[held[l]]
         /\ \A x \in X : (\A l \in Locales : x # <<w, l>>) =>
              Cloned(stream, held, w)[x] = stream[x]
<1>1. Clone(held, w) = [l \in Locales |-> <<w, l>>]
  BY CloneApart
<1>2. ASSUME NEW l \in Locales
      PROVE  (CHOOSE k \in Locales : Clone(held, w)[k] = <<w, l>>) = l
  <2> DEFINE k == CHOOSE k \in Locales : Clone(held, w)[k] = <<w, l>>
  <2>1. \E i \in Locales : Clone(held, w)[i] = <<w, l>>
    BY <1>1
  <2>2. k \in Locales /\ Clone(held, w)[k] = <<w, l>>
    BY <2>1
  <2>3. Clone(held, w)[k] = <<w, k>>
    BY <1>1, <2>2
  <2> QED
    BY <2>2, <2>3
<1>3. ASSUME NEW x \in X
      PROVE  Cloned(stream, held, w)[x] =
               IF \E l \in Locales : Clone(held, w)[l] = x
                 THEN stream[held[CHOOSE l \in Locales : Clone(held, w)[l] = x]]
                 ELSE stream[x]
  BY DEF Cloned
<1>4. ASSUME NEW l \in Locales
      PROVE  Cloned(stream, held, w)[<<w, l>>] = stream[held[l]]
  <2>1. Clone(held, w)[l] = <<w, l>>
    BY <1>1
  <2> QED
    BY <2>1, <1>2, <1>3
<1>5. ASSUME NEW x \in X, \A l \in Locales : x # <<w, l>>
      PROVE  Cloned(stream, held, w)[x] = stream[x]
  <2>1. ~\E l \in Locales : Clone(held, w)[l] = x
    BY <1>1, <1>5
  <2> QED
    BY <2>1, <1>3
<1>6. Cloned(stream, held, w) \in [X -> S]
  <2>1. ASSUME NEW x \in X PROVE Cloned(stream, held, w)[x] \in S
    <3>1. CASE \E l \in Locales : x = <<w, l>>
      BY <3>1, <1>4
    <3>2. CASE \A l \in Locales : x # <<w, l>>
      BY <3>2, <1>5
    <3> QED
      BY <3>1, <3>2
  <2>2. Cloned(stream, held, w) = [x \in X |-> Cloned(stream, held, w)[x]]
    BY DEF Cloned
  <2> QED
    BY <2>1, <2>2
<1> QED
  BY <1>4, <1>5, <1>6

LEMMA RandomsCloned ==
  ASSUME MultiInv, NEW m \in Multis, Live(m), Apart(m), NEW w \in Multis, ~Live(w),
         CloneRandoms(m, w)
  PROVE  /\ random' \in [Multis -> [Locales -> Randoms \cup {None}]]
         /\ randomStream' \in [Randoms -> Stream]
         /\ \A l \in Locales : random'[w][l] = <<w, l>>
         /\ \A u \in Multis \ {w} : random'[u] = random[u]
         /\ \A l \in Locales : randomStream'[<<w, l>>] = randomStream[random[m][l]]
         /\ \A u \in Multis \ {w}, l \in Locales : randomStream'[<<u, l>>] = randomStream[<<u, l>>]
<1> DEFINE held == random[m]
<1>1. \A l, k \in Locales : l # k => held[l] # held[k]
  BY DEF Apart
<1>2. \A l \in Locales : held[l] \in Randoms /\ <<w, l>> \in Randoms
  BY Held, OwnNames
<1>3. randomStream \in [Randoms -> Stream] /\ random \in [Multis -> [Locales -> Randoms \cup {None}]]
  BY DEF MultiInv, MultiTypeOK
<1>4. /\ random' = [random EXCEPT ![w] = [l \in Locales |-> <<w, l>>]]
      /\ randomStream' = Cloned(randomStream, held, w)
  <2>1. /\ random' = [random EXCEPT ![w] = Clone(held, w)]
        /\ randomStream' = Cloned(randomStream, held, w)
    BY DEF CloneRandoms
  <2> HIDE DEF held
  <2>2. Clone(held, w) = [l \in Locales |-> <<w, l>>]
    BY <1>1, CloneApart
  <2> QED
    BY <2>1, <2>2
<1> HIDE DEF held
<1>5. /\ randomStream' \in [Randoms -> Stream]
      /\ \A l \in Locales : randomStream'[<<w, l>>] = randomStream[held[l]]
      /\ \A x \in Randoms : (\A l \in Locales : x # <<w, l>>) => randomStream'[x] = randomStream[x]
  <2>1. /\ Cloned(randomStream, held, w) \in [Randoms -> Stream]
        /\ \A l \in Locales : Cloned(randomStream, held, w)[<<w, l>>] = randomStream[held[l]]
        /\ \A x \in Randoms : (\A l \in Locales : x # <<w, l>>) =>
             Cloned(randomStream, held, w)[x] = randomStream[x]
    <3>1. randomStream \in [Randoms -> Stream]
      BY <1>3
    <3> HIDE DEF Randoms, Stream
    <3> QED
      BY <3>1, <1>1, <1>2, ClonedApart
  <2> QED
    BY <2>1, <1>4
<1>6. \A u \in Multis \ {w}, l \in Locales : randomStream'[<<u, l>>] = randomStream[<<u, l>>]
  BY <1>5, OwnNames
<1>7. /\ random' \in [Multis -> [Locales -> Randoms \cup {None}]]
      /\ \A l \in Locales : random'[w][l] = <<w, l>>
      /\ \A u \in Multis \ {w} : random'[u] = random[u]
  BY <1>2, <1>3, <1>4
<1> QED
  BY <1>5, <1>6, <1>7 DEF held

\* What a copy does to streams and promises, however its cores come about.
LEMMA CopyKeeps ==
  ASSUME MultiInv, NEW m \in Multis, Apart(m), NEW w \in Multis,
         CopyRest(m, w), CloneRandoms(m, w),
         sharedCores' = sharedCores, globalSeed' = globalSeed,
         core' \in [Multis -> [Locales -> Cores \cup {None}]],
         coreStream' \in [Cores -> Stream],
         \A u \in Multis \ {w} : core'[u] = core[u] /\ due'[u] = due[u] /\ mapping'[u] = mapping[u],
         \A l \in Locales :
           \/ core'[w][l] = <<w, l>>
           \/ core'[w][l] = KeyOf[l] /\ sharedCores[KeyOf[l]] = KeyOf[l] /\ due'[w][l] = None,
         \A u \in Multis \ {w}, l \in Locales : coreStream'[<<u, l>>] = coreStream[<<u, l>>],
         \A l \in Locales : due'[w][l] # None => coreStream'[<<w, l>>] = due'[w][l],
         due' \in [Multis -> [Locales -> Stream \cup {None}]],
         mapping' \in [Multis -> [Names -> {None} \cup SUBSET Locales]],
         \A n \in Names : mapping'[w][n] \in {None, mapping[m][n]}
  PROVE  MultiInv'
<1>1. /\ Live(m) /\ ~Live(w) /\ m # w
      /\ weighted' = IF m \in weighted THEN weighted \cup {w} ELSE weighted
      /\ added' = [added EXCEPT ![w] = added[m]]
      /\ dueChoice' = [dueChoice EXCEPT ![w] = dueChoice[m]]
  BY DEF CopyRest
<1>2. /\ random' \in [Multis -> [Locales -> Randoms \cup {None}]]
      /\ randomStream' \in [Randoms -> Stream]
      /\ \A l \in Locales : random'[w][l] = <<w, l>>
      /\ \A u \in Multis \ {w} : random'[u] = random[u]
      /\ \A l \in Locales : randomStream'[<<w, l>>] = randomStream[random[m][l]]
      /\ \A u \in Multis \ {w}, l \in Locales : randomStream'[<<u, l>>] = randomStream[<<u, l>>]
  BY <1>1, RandomsCloned
<1>3. /\ added'[w] = added[m] /\ dueChoice'[w] = dueChoice[m]
      /\ \A u \in Multis \ {w} : added'[u] = added[u] /\ dueChoice'[u] = dueChoice[u]
      /\ weighted' \in SUBSET Multis /\ added' \in [Multis -> [Locales -> SUBSET Names]]
      /\ dueChoice' \in [Multis -> Stream \cup {None}]
  BY <1>1 DEF MultiInv, MultiTypeOK
<1>4. MultiTypeOK'
  BY <1>2, <1>3 DEF MultiInv, MultiTypeOK
<1>5. Objects'
  <2>1. ASSUME NEW u \in Multis
        PROVE  (Live(u)' /\ \A l \in Locales : ChildObjects(u, l)') \/ Nothing(u)'
    <3>1. CASE u = w
      <4>1. ASSUME NEW l \in Locales
            PROVE  ChildObjects(w, l)' /\ core'[w][l] # None
        <5>1. random'[w][l] = <<w, l>> /\ sharedCores' = sharedCores
          BY <1>2
        <5>2. core'[w][l] = <<w, l>> \/ (core'[w][l] = KeyOf[l] /\ sharedCores[KeyOf[l]] = KeyOf[l])
          OBVIOUS
        <5>3. core'[w][l] # None
          BY <5>2, OwnNames
        <5> QED
          BY <5>1, <5>2, <5>3 DEF ChildObjects
      <4> QED
        BY <3>1, <4>1, LocaleAssumption DEF Live
    <3>2. CASE u # w
      <4>0. /\ core'[u] = core[u] /\ due'[u] = due[u] /\ mapping'[u] = mapping[u]
            /\ random'[u] = random[u] /\ dueChoice'[u] = dueChoice[u]
            /\ sharedCores' = sharedCores
        BY <3>2, <1>2, <1>3
      <4>1. CASE Nothing(u)
        BY <4>0, <4>1 DEF Nothing
      <4>2. CASE Live(u) /\ \A l \in Locales : ChildObjects(u, l)
        <5>1. Live(u)'
          BY <4>0, <4>2 DEF Live
        <5>2. ASSUME NEW l \in Locales PROVE ChildObjects(u, l)'
          <6>1. ChildObjects(u, l)
            BY <4>2
          <6> QED
            BY <4>0, <6>1 DEF ChildObjects
        <5> QED
          BY <5>1, <5>2
      <4> QED
        BY <4>1, <4>2 DEF MultiInv, Objects
    <3> QED
      BY <3>1, <3>2
  <2> QED
    BY <2>1 DEF Objects
<1>6. ASSUME NEW u \in Multis, NEW l \in Locales, due'[u][l] # None
      PROVE  core'[u][l] = <<u, l>> /\ coreStream'[core'[u][l]] = due'[u][l]
  <2>1. CASE u = w
    BY <1>6, <2>1
  <2>2. CASE u # w
    <3>1. core'[u] = core[u] /\ due'[u] = due[u]
      BY <2>2
    <3>2. core[u][l] = <<u, l>> /\ coreStream[core[u][l]] = due[u][l]
      BY <3>1, <1>6, AllDue DEF CoresDue
    <3> QED
      BY <2>2, <3>1, <3>2
  <2> QED
    BY <2>1, <2>2
<1>7. ASSUME NEW u \in Multis, dueChoice'[u] # None
      PROVE  random'[u][First] = <<u, First>> /\ randomStream'[random'[u][First]] = dueChoice'[u]
  <2>1. CASE u = w
    <3>1. randomStream[random[m][First]] = dueChoice[m]
      BY <1>3, <1>7, <2>1, AllDue DEF ChoiceDue
    <3>2. random'[w][First] = <<w, First>>
          /\ randomStream'[<<w, First>>] = randomStream[random[m][First]]
      BY <1>2, LocaleAssumption
    <3>3. dueChoice'[w] = dueChoice[m]
      BY <1>3
    <3> QED
      BY <2>1, <3>1, <3>2, <3>3
  <2>2. CASE u # w
    <3>1. random'[u] = random[u] /\ dueChoice'[u] = dueChoice[u]
      BY <2>2, <1>2, <1>3
    <3>2. random[u][First] = <<u, First>> /\ randomStream[random[u][First]] = dueChoice[u]
      BY <3>1, <1>7, AllDue DEF ChoiceDue
    <3> QED
      BY <2>2, <3>1, <3>2, <1>2, LocaleAssumption
  <2> QED
    BY <2>1, <2>2
<1>8. SeededOwn' /\ PromisedStreams'
  BY <1>6, <1>7 DEF SeededOwn, PromisedStreams
<1>9. MappingSupported'
  <2>1. ASSUME NEW u \in Multis, NEW n \in Names, mapping'[u][n] # None,
               NEW l \in mapping'[u][n]
        PROVE  Has(u, l, n)'
    <3>1. CASE u = w
      <4>1. mapping[m][n] # None /\ l \in mapping[m][n]
        BY <2>1, <3>1
      <4> QED
        BY <3>1, <4>1, <1>3 DEF MultiInv, MappingSupported, Has
    <3>2. CASE u # w
      <4>1. mapping'[u] = mapping[u] /\ added'[u] = added[u]
        BY <3>2, <1>3
      <4>2. mapping[u][n] # None /\ l \in mapping[u][n]
        BY <2>1, <4>1
      <4>3. Has(u, l, n)
        BY <4>2 DEF MultiInv, MappingSupported
      <4> QED
        BY <4>1, <4>3 DEF Has
    <3> QED
      BY <3>1, <3>2
  <2> QED
    BY <2>1 DEF MappingSupported
<1>10. SharedNamed'
  BY DEF MultiInv, SharedNamed
<1> QED
  BY <1>4, <1>5, <1>8, <1>9, <1>10 DEF MultiInv

LEMMA DeepCopyKeeps ==
  ASSUME MultiInv, NEW m \in Multis, Apart(m), NEW w \in Multis, DeepCopy(m, w)
  PROVE  MultiInv'
<1> DEFINE held == core[m]
<1>1. /\ CopyRest(m, w) /\ CloneRandoms(m, w) /\ Live(m) /\ ~Live(w) /\ m # w
      /\ core' = [core EXCEPT ![w] = Clone(held, w)]
      /\ coreStream' = Cloned(coreStream, held, w)
      /\ due' = [due EXCEPT ![w] = due[m]]
      /\ UNCHANGED <<mapping, sharedCores, globalSeed>>
  BY DEF DeepCopy, CopyRest, globals
<1>2. \A l, k \in Locales : l # k => held[l] # held[k]
  BY DEF Apart
<1>3. \A l \in Locales : held[l] \in Cores /\ <<w, l>> \in Cores
  BY <1>1, Held, OwnNames
<1>4. Clone(held, w) = [l \in Locales |-> <<w, l>>]
  BY <1>2, CloneApart
<1>5. coreStream \in [Cores -> Stream] /\ core \in [Multis -> [Locales -> Cores \cup {None}]]
      /\ due \in [Multis -> [Locales -> Stream \cup {None}]]
      /\ mapping \in [Multis -> [Names -> {None} \cup SUBSET Locales]]
  BY DEF MultiInv, MultiTypeOK
<1> HIDE DEF held
<1>6. /\ coreStream' \in [Cores -> Stream]
      /\ \A l \in Locales : coreStream'[<<w, l>>] = coreStream[held[l]]
      /\ \A x \in Cores : (\A l \in Locales : x # <<w, l>>) => coreStream'[x] = coreStream[x]
  <2>1. /\ Cloned(coreStream, held, w) \in [Cores -> Stream]
        /\ \A l \in Locales : Cloned(coreStream, held, w)[<<w, l>>] = coreStream[held[l]]
        /\ \A x \in Cores : (\A l \in Locales : x # <<w, l>>) =>
             Cloned(coreStream, held, w)[x] = coreStream[x]
    <3>1. coreStream \in [Cores -> Stream]
      BY <1>5
    <3> HIDE DEF Cores, Stream
    <3> QED
      BY <3>1, <1>2, <1>3, ClonedApart
  <2> QED
    BY <2>1, <1>1
<1>7. \A u \in Multis \ {w}, l \in Locales : coreStream'[<<u, l>>] = coreStream[<<u, l>>]
  BY <1>6, OwnNames
<1>8. /\ core' \in [Multis -> [Locales -> Cores \cup {None}]]
      /\ due' \in [Multis -> [Locales -> Stream \cup {None}]]
      /\ \A l \in Locales : core'[w][l] = <<w, l>> /\ due'[w][l] = due[m][l]
      /\ \A u \in Multis \ {w} : core'[u] = core[u] /\ due'[u] = due[u]
  BY <1>1, <1>3, <1>4, <1>5
<1>9. \A l \in Locales : due'[w][l] # None => coreStream'[<<w, l>>] = due'[w][l]
  <2>1. \A l \in Locales : due[m][l] # None => coreStream[held[l]] = due[m][l]
    BY AllDue DEF CoresDue, held
  <2> QED
    BY <2>1, <1>6, <1>8
<1>10. \A n \in Names : mapping'[w][n] \in {None, mapping[m][n]}
  BY <1>1, NotHeld DEF Nothing
<1>11. \A u \in Multis \ {w} : core'[u] = core[u] /\ due'[u] = due[u] /\ mapping'[u] = mapping[u]
  BY <1>1, <1>8
<1>12. \A l \in Locales :
         \/ core'[w][l] = <<w, l>>
         \/ core'[w][l] = KeyOf[l] /\ sharedCores[KeyOf[l]] = KeyOf[l] /\ due'[w][l] = None
  BY <1>8
<1>13. /\ sharedCores' = sharedCores /\ globalSeed' = globalSeed
       /\ mapping' \in [Multis -> [Names -> {None} \cup SUBSET Locales]]
       /\ core' \in [Multis -> [Locales -> Cores \cup {None}]]
       /\ due' \in [Multis -> [Locales -> Stream \cup {None}]]
       /\ coreStream' \in [Cores -> Stream]
  BY <1>1, <1>5, <1>6, <1>8
<1> HIDE DEF Cores, Stream
<1> QED
  BY <1>1, <1>7, <1>9, <1>10, <1>11, <1>12, <1>13, CopyKeeps

LEMMA PickleKeeps ==
  ASSUME MultiInv, NEW m \in Multis, Apart(m), NEW w \in Multis, PickleRoundTrip(m, w)
  PROVE  MultiInv'
<1> DEFINE own == {l \in Locales : ~OnShared(m, l)}
<1>1. /\ CopyRest(m, w) /\ CloneRandoms(m, w) /\ Live(m) /\ ~Live(w) /\ m # w
      /\ core' = [core EXCEPT ![w] =
                   [l \in Locales |-> IF l \in own THEN <<w, l>> ELSE core[m][l]]]
      /\ coreStream' = [c \in Cores |-> IF c \in {<<w, l>> : l \in own}
                                          THEN Fresh(Entropy) ELSE coreStream[c]]
      /\ mapping' = [mapping EXCEPT ![w] = mapping[m]]
      /\ due' = [due EXCEPT ![w] = [l \in Locales |-> None]]
      /\ UNCHANGED <<sharedCores, globalSeed>>
  BY DEF PickleRoundTrip, CopyRest, globals
<1>2. coreStream \in [Cores -> Stream] /\ core \in [Multis -> [Locales -> Cores \cup {None}]]
      /\ due \in [Multis -> [Locales -> Stream \cup {None}]]
      /\ mapping \in [Multis -> [Names -> {None} \cup SUBSET Locales]]
  BY DEF MultiInv, MultiTypeOK
<1>3. ASSUME NEW l \in Locales
      PROVE  /\ \/ core'[w][l] = <<w, l>>
                \/ core'[w][l] = KeyOf[l] /\ sharedCores[KeyOf[l]] = KeyOf[l]
             /\ core'[w][l] \in Cores
  <2>1. CASE l \in own
    BY <2>1, <1>1, <1>2, OwnNames
  <2>2. CASE l \notin own
    <3>1. core'[w][l] = core[m][l] /\ OnShared(m, l)
      BY <2>2, <1>1, <1>2
    <3>2. core[m][l] = KeyOf[l] /\ sharedCores[KeyOf[l]] = KeyOf[l]
      <4>1. sharedCores[KeyOf[l]] \in {None, KeyOf[l]} /\ core[m][l] # None
        BY <1>1, Held, OwnNames DEF MultiInv, SharedNamed
      <4> QED
        BY <3>1, <4>1 DEF OnShared
    <3> QED
      BY <3>1, <3>2, OwnNames
  <2> QED
    BY <2>1, <2>2
<1>4. \A u \in Multis \ {w} : core'[u] = core[u] /\ due'[u] = due[u] /\ mapping'[u] = mapping[u]
  BY <1>1, <1>2
<1>5. /\ core' \in [Multis -> [Locales -> Cores \cup {None}]]
      /\ due' \in [Multis -> [Locales -> Stream \cup {None}]]
      /\ mapping' \in [Multis -> [Names -> {None} \cup SUBSET Locales]]
  <2>1. DOMAIN core' = Multis /\ core'[w] \in [Locales -> Cores \cup {None}]
    <3>1. core'[w] = [l \in Locales |-> IF l \in own THEN <<w, l>> ELSE core[m][l]]
      BY <1>1, <1>2
    <3>2. \A l \in Locales : core'[w][l] \in Cores
      BY <1>3
    <3> QED
      BY <3>1, <3>2, <1>1, <1>2
  <2>2. core' \in [Multis -> [Locales -> Cores \cup {None}]]
    BY <2>1, <1>1, <1>2
  <2> QED
    BY <1>1, <1>2, <2>2
<1>6. coreStream' \in [Cores -> Stream]
  BY <1>1, <1>2, StreamFacts
<1>7. \A u \in Multis \ {w}, l \in Locales : coreStream'[<<u, l>>] = coreStream[<<u, l>>]
  BY <1>1, <1>2, OwnNames
<1>8. \A l \in Locales : due'[w][l] = None
  BY <1>1, <1>2
<1>9. \A n \in Names : mapping'[w][n] \in {None, mapping[m][n]}
  BY <1>1, <1>2
<1> HIDE DEF own
<1> QED
  BY <1>1, <1>3, <1>4, <1>5, <1>6, <1>7, <1>8, <1>9, CopyKeeps

-----------------------------------------------------------------------------
(* The theorems                                                            *)

LEMMA UseKeeps ==
  ASSUME MultiInv, NEW m \in Multis, Use(m)
  PROVE  MultiInv'
<1>1. CASE \E w \in BOOLEAN : NewMulti(m, w)
  BY <1>1, NewMultiKeeps
<1>2. ASSUME NEW l \in Locales, NEW n \in Names, AddProvider(m, l, n)
      PROVE  MultiInv'
  BY <1>2, AddProviderKeeps
<1>3. ASSUME NEW l \in Locales, NEW n \in Names, ChildCall(m, l, n)
      PROVE  MultiInv'
  <2>1. /\ Live(m) /\ Draw(m, l) /\ core' = core /\ random' = random
        /\ UNCHANGED <<children, globals>> /\ mapping' = mapping
        /\ UNCHANGED <<randomStream, dueChoice>>
    BY <1>3 DEF ChildCall, children
  <2>2. CoresDue' /\ ChoiceDue' /\ SameSeeds
    BY <2>1, DrawKeeps, AllDue DEF ChoiceDue, SameSeeds
  <2> QED
    BY <2>1, <2>2, CallKeeps
<1>4. ASSUME NEW n \in Names, NEW l \in Locales, Call(m, n, l) \/ OptionalCall(m, n, l)
      PROVE  MultiInv'
  <2>1. /\ Live(m) /\ core' = core /\ random' = random
        /\ UNCHANGED <<children, globals>> /\ mapping' = [mapping EXCEPT ![m][n] = Mapped(m, n)]
        /\ Select(m, n, l) /\ (Draw(m, l) \/ Draw(m, First))
    BY <1>4 DEF Call, OptionalCall, children
  <2>2. CoresDue' /\ ChoiceDue' /\ SameSeeds
    BY <2>1, DrawKeeps, SelectKeeps, LocaleAssumption DEF SameSeeds
  <2> QED
    BY <2>1, <2>2, CallKeeps
<1>5. ASSUME NEW n \in Names, FailedCall(m, n)
      PROVE  MultiInv'
  <2>1. /\ Live(m) /\ UNCHANGED <<children, globals>>
        /\ mapping' = [mapping EXCEPT ![m][n] = Mapped(m, n)]
        /\ UNCHANGED <<core, random, coreStream, randomStream, due, dueChoice>>
    BY <1>5 DEF FailedCall, streams, history, children
  <2>2. CoresDue' /\ ChoiceDue' /\ SameSeeds
    BY <2>1, AllDue DEF CoresDue, ChoiceDue, SameSeeds
  <2> QED
    BY <2>1, <2>2, CallKeeps
<1>6. ASSUME NEW s \in Seeds, SeedInstance(m, s) \/ \E l \in Locales : SeedLocale(m, l, s)
      PROVE  MultiInv'
  <2>1. \E L \in SUBSET Locales : SeedChildren(m, L, s)
    BY <1>6 DEF SeedInstance, SeedLocale
  <2> QED
    BY <2>1, SeedKeeps
<1>7. ASSUME NEW s \in Seeds, NEW l \in Locales, RefusedSeed(m, l, s)
      PROVE  MultiInv'
  BY <1>7, RefusedKeeps
<1> QED
  BY <1>1, <1>2, <1>3, <1>4, <1>5, <1>6, <1>7 DEF Use

LEMMA NextMulti == MultiInv /\ [Next]_vars => MultiInv'
<1> SUFFICES ASSUME MultiInv, [Next]_vars PROVE MultiInv'
  OBVIOUS
<1>1. CASE \E m \in Multis : Use(m)
  BY <1>1, UseKeeps
<1>2. CASE \E s \in Seeds : GlobalSeed(s)
  BY <1>2, GlobalSeedKeeps
<1>3. CASE \E m, w \in Multis : Apart(m) /\ (DeepCopy(m, w) \/ PickleRoundTrip(m, w))
  BY <1>3, DeepCopyKeeps, PickleKeeps
<1>4. CASE UNCHANGED vars
  <2>1. UNCHANGED <<core, random, weighted, added, mapping, sharedCores, globalSeed, coreStream,
                    randomStream, due, dueChoice>>
    BY <1>4 DEF vars, children, globals, streams, history
  <2> QED
    BY <2>1 DEF MultiInv, MultiTypeOK, SharedNamed, Objects, SeededOwn, PromisedStreams,
                MappingSupported, Live, ChildObjects, Nothing, Has
<1> QED
  BY <1>1, <1>2, <1>3, <1>4 DEF Next

LEMMA MultiInvariant == Spec => []MultiInv
  BY InitMulti, NextMulti, PTL DEF Spec

\* Children, mappings and streams keep their shape, whatever is constructed,
\* seeded, called and copied (proxy.py:45-330).
THEOREM MultiTypeTheorem == Spec => []MultiTypeOK
<1>1. MultiInv => MultiTypeOK
  BY DEF MultiInv
<1> QED
  BY <1>1, MultiInvariant, PTL

\* A seeded Faker of several locales gives what its seeds and its own calls
\* determine, whatever other Fakers, Faker.seed and copies do (proxy.py:227-282).
THEOREM PromisedStreamsTheorem == Spec => []PromisedStreams
<1>1. MultiInv => PromisedStreams
  BY DEF MultiInv
<1> QED
  BY <1>1, MultiInvariant, PTL

\* A mapping that is kept names only children that have the formatter
\* (proxy.py:233-264).
THEOREM MappingTheorem == Spec => []MappingSupported
<1>1. MultiInv => MappingSupported
  BY DEF MultiInv
<1> QED
  BY <1>1, MultiInvariant, PTL
=============================================================================
