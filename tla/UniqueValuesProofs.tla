------------------------- MODULE UniqueValuesProofs -------------------------
(***************************************************************************)
(* The safety properties of UniqueValues for every number of proxies,       *)
(* attempts and nested calls.  The inductive invariant adds to them that    *)
(* proxies on one dict have one sentinel, that every set in a dict of a     *)
(* live proxy holds it, and that the sets calls have taken exist.           *)
(***************************************************************************)
EXTENDS UniqueValues, TLAPS

\* Live proxies have a sentinel, and one per dict.
SentinelInv ==
  /\ \A u \in Proxies : Live(u) => sentinel[u] \in Sentinels
  /\ \A u, w \in Proxies : Live(u) /\ seenOf[u] = seenOf[w] => sentinel[u] = sentinel[w]
  /\ base \subseteq {u \in Proxies : Live(u)}

\* A set that exists holds the sentinel of every proxy on its dict.
HeldInv == \A u \in Proxies, k \in Calls :
  Live(u) /\ seen[seenOf[u]][k] # {} => sentinel[u] \in seen[seenOf[u]][k]

\* Calls under way belong to live proxies and have taken a set that exists.
FrameInv == \A i \in 1..depth :
  /\ frame[i] \in Frame /\ Live(frame[i].p)
  /\ frame[i].set # None => seen[frame[i].set][frame[i].k] # {}

UniqueInv == /\ UniqueTypeOK /\ SentinelInv /\ HeldInv /\ FrameInv
             /\ NoRepeat /\ NothingLost /\ SentinelStaysInside

LEMMA Facts ==
  /\ Values \cap Sentinels = {}
  /\ Attempts \in Nat /\ Attempts >= 1 /\ MaxDepth \in Nat /\ MaxDepth >= 1
  /\ None \notin Dicts /\ None \notin Sentinels /\ None \notin Values /\ None \notin Proxies
  BY UniqueAssumption

LEMMA InitUniqueInv == Init => UniqueInv
  <1> SUFFICES ASSUME Init PROVE UniqueInv
    OBVIOUS
  <1> DEFINE u == CHOOSE x \in Proxies : TRUE
             d == CHOOSE x \in Dicts : TRUE
             s == CHOOSE x \in Sentinels : TRUE
  <1>1. u \in Proxies /\ d \in Dicts /\ s \in Sentinels
    BY UniqueAssumption
  <1>2. /\ seenOf = [x \in Proxies |-> IF x = u THEN d ELSE None]
        /\ sentinel = [x \in Proxies |-> IF x = u THEN s ELSE None]
        /\ excluded = [x \in Proxies |-> {}] /\ base = {u}
        /\ seen = [e \in Dicts |-> [c \in Calls |-> {}]]
        /\ given = [e \in Dicts |-> NoneGiven]
        /\ depth = 0 /\ frame = [i \in 1..MaxDepth |-> Idle] /\ last = "none"
    BY DEF Init
  <1> HIDE DEF u, d, s
  <1>3. UniqueTypeOK
    BY <1>1, <1>2, Facts DEF UniqueTypeOK, NoneGiven, Outcomes
  <1>4. SentinelInv /\ HeldInv
    BY <1>1, <1>2, Facts DEF SentinelInv, HeldInv, Live
  <1>5. FrameInv /\ NoRepeat /\ SentinelStaysInside
    BY <1>2 DEF FrameInv, NoRepeat, NoneGiven, SentinelStaysInside
  <1>6. NothingLost
    BY <1>1, <1>2, Facts DEF NothingLost, InUse, NoneGiven
  <1> QED
    BY <1>3, <1>4, <1>5, <1>6 DEF UniqueInv

\* The top call notes v, which is new, in the set for k of a dict in use.
LEMMA NoteInv ==
  ASSUME UniqueInv, NEW d \in Dicts, NEW k \in Calls, NEW S, NEW v \in Values, depth > 0,
         d \in InUse, v \notin S,
         \/ S = seen[d][k] /\ S # {}
         \/ /\ seen[d][k] = {} /\ S \in SUBSET Sentinels
            /\ \A u \in Proxies : Live(u) /\ seenOf[u] = d => sentinel[u] \in S,
         Note(d, k, S, v)
  PROVE  UniqueInv'
  <1>1. /\ seen' = [seen EXCEPT ![d][k] = S \cup {v}]
        /\ given' = [given EXCEPT ![d][k][v] = @ + 1]
        /\ depth' = depth - 1 /\ frame' = [frame EXCEPT ![depth] = Idle]
        /\ UNCHANGED <<seenOf, sentinel, excluded, base>>
        /\ last' \in {"noted", "noted exempt"}
    BY DEF Note, Leave, objects
  <1>2. /\ seen \in [Dicts -> [Calls -> SUBSET (Values \cup Sentinels)]]
        /\ given \in [Dicts -> [Calls -> [Values -> Nat]]]
        /\ depth \in 1..MaxDepth /\ depth \in Nat /\ depth - 1 \in 0..MaxDepth
        /\ frame \in [1..MaxDepth -> Frame \cup {Idle}] /\ MaxDepth \in Nat
    BY Facts DEF UniqueInv, UniqueTypeOK
  <1>3. v \notin seen[d][k] /\ given[d][k][v] = 0 /\ S \in SUBSET (Values \cup Sentinels)
    <2>1. d # None /\ v \notin seen[d][k]
      BY Facts
    <2>2. ~(given[d][k][v] > 0) /\ given[d][k][v] \in Nat
      BY <2>1, <1>2 DEF UniqueInv, NothingLost
    <2> QED
      BY <2>1, <2>2, <1>2
  <1>4. \A e \in Dicts, c \in Calls :
          seen'[e][c] = IF e = d /\ c = k THEN S \cup {v} ELSE seen[e][c]
    BY <1>1, <1>2
  <1>5. /\ given' \in [Dicts -> [Calls -> [Values -> Nat]]]
        /\ \A e \in Dicts, c \in Calls, w \in Values :
             given'[e][c][w] = IF e = d /\ c = k /\ w = v THEN 1 ELSE given[e][c][w]
    <2> DEFINE row == [given[d][k] EXCEPT ![v] = @ + 1]
               page == [given[d] EXCEPT ![k] = row]
    <2>1. given[d] \in [Calls -> [Values -> Nat]] /\ given[d][k] \in [Values -> Nat]
      BY <1>2
    <2>2. row \in [Values -> Nat]
          /\ \A w \in Values : row[w] = IF w = v THEN 1 ELSE given[d][k][w]
      BY <2>1, <1>3
    <2>3. given' = [given EXCEPT ![d] = page]
      BY <1>1
    <2> HIDE DEF row
    <2>4. page \in [Calls -> [Values -> Nat]]
          /\ \A c \in Calls : page[c] = IF c = k THEN row ELSE given[d][c]
      BY <2>1, <2>2
    <2> HIDE DEF page
    <2>5. /\ given' \in [Dicts -> [Calls -> [Values -> Nat]]]
          /\ \A e \in Dicts : given'[e] = IF e = d THEN page ELSE given[e]
      BY <2>3, <2>4, <1>2
    <2> QED
      BY <2>2, <2>4, <2>5
  <1>6. depth' \in 0..MaxDepth /\ frame' \in [1..MaxDepth -> Frame \cup {Idle}]
    BY <1>1, <1>2
  <1>6a. \A i \in 1..depth' : i \in 1..depth /\ frame'[i] = frame[i]
    <2> SUFFICES ASSUME NEW i \in 1..(depth - 1) PROVE i \in 1..depth /\ frame'[i] = frame[i]
      BY <1>1
    <2>1. i \in 1..depth /\ i \in 1..MaxDepth /\ i # depth
      BY <1>2
    <2> QED
      BY <2>1, <1>1, <1>2
  <1>6b. UniqueTypeOK'
    <2>1. seen' \in [Dicts -> [Calls -> SUBSET (Values \cup Sentinels)]]
      BY <1>1, <1>2, <1>3
    <2> QED
      BY <1>1, <2>1, <1>5, <1>6 DEF UniqueInv, UniqueTypeOK, Outcomes
  <1>7. SentinelInv'
    BY <1>1 DEF UniqueInv, SentinelInv, Live
  <1>8. HeldInv'
    <2> SUFFICES ASSUME NEW u \in Proxies, NEW c \in Calls, Live(u), seen'[seenOf[u]][c] # {}
                 PROVE  sentinel[u] \in seen'[seenOf[u]][c]
      BY <1>1 DEF HeldInv, Live
    <2>1. seenOf[u] \in Dicts
      BY DEF UniqueInv, UniqueTypeOK, Live
    <2>2. seen[seenOf[u]][c] # {} => sentinel[u] \in seen[seenOf[u]][c]
      BY DEF UniqueInv, HeldInv
    <2>3. CASE seenOf[u] = d /\ c = k
      BY <2>2, <2>3, <1>4
    <2>4. CASE ~(seenOf[u] = d /\ c = k)
      BY <2>1, <2>2, <2>4, <1>4
    <2> QED
      BY <2>3, <2>4
  <1>9. FrameInv'
    <2> SUFFICES ASSUME NEW i \in 1..depth'
                 PROVE  /\ frame'[i] \in Frame /\ Live(frame[i].p)'
                        /\ frame'[i].set # None => seen'[frame'[i].set][frame'[i].k] # {}
      BY DEF FrameInv
    <2>1. /\ frame'[i] = frame[i] /\ frame[i] \in Frame /\ Live(frame[i].p)
          /\ frame[i].set # None => seen[frame[i].set][frame[i].k] # {}
      BY <1>6a DEF UniqueInv, FrameInv
    <2>2. /\ frame[i].set \in Dicts \cup {None} /\ frame[i].k \in Calls
      BY <2>1 DEF Frame
    <2>3. frame[i].set # None => seen'[frame[i].set][frame[i].k] # {}
      BY <2>1, <2>2, <1>4
    <2> QED
      BY <2>1, <2>3, <1>1 DEF Live
  <1>10. NoRepeat'
    <2> SUFFICES ASSUME NEW e \in Dicts, NEW c \in Calls, NEW w \in Values
                 PROVE  given'[e][c][w] <= 1
      BY DEF NoRepeat
    <2>1. given[e][c][w] <= 1
      BY DEF UniqueInv, NoRepeat
    <2> QED
      BY <2>1, <1>5
  <1>11. NothingLost'
    <2>1. InUse' \subseteq InUse
      BY <1>1, <1>6a DEF InUse
    <2> SUFFICES ASSUME NEW e \in InUse \ {None}, NEW c \in Calls, NEW w \in Values
                 PROVE  w \in seen'[e][c] <=> given'[e][c][w] > 0
      BY <2>1 DEF NothingLost
    <2>2. e \in Dicts
      BY DEF InUse, UniqueInv, UniqueTypeOK, FrameInv, Frame
    <2>3. w \in seen[e][c] <=> given[e][c][w] > 0
      BY DEF UniqueInv, NothingLost
    <2> QED
      BY <2>2, <2>3, <1>3, <1>4, <1>5, Facts
  <1>12. SentinelStaysInside'
    BY <1>1 DEF SentinelStaysInside
  <1> QED
    BY <1>6b, <1>7, <1>8, <1>9, <1>10, <1>11, <1>12 DEF UniqueInv

-----------------------------------------------------------------------------
(* Calls                                                                   *)

LEMMA Types ==
  ASSUME UniqueInv
  PROVE  /\ seenOf \in [Proxies -> Dicts \cup {None}]
         /\ sentinel \in [Proxies -> Sentinels \cup {None}]
         /\ excluded \in [Proxies -> SUBSET Values]
         /\ base \in SUBSET Proxies
         /\ seen \in [Dicts -> [Calls -> SUBSET (Values \cup Sentinels)]]
         /\ given \in [Dicts -> [Calls -> [Values -> Nat]]]
         /\ depth \in 0..MaxDepth /\ MaxDepth \in Nat
         /\ frame \in [1..MaxDepth -> Frame \cup {Idle}]
  BY Facts DEF UniqueInv, UniqueTypeOK

\* The call on top is a live proxy's, and so are the dicts it may look into.
LEMMA Top ==
  ASSUME UniqueInv, depth > 0
  PROVE  /\ depth \in 1..MaxDepth /\ frame[depth] \in Frame
         /\ frame[depth].p \in Proxies /\ frame[depth].k \in Calls
         /\ frame[depth].tries \in 0..Attempts /\ Live(frame[depth].p)
         /\ seenOf[frame[depth].p] \in Dicts \cap InUse
         /\ frame[depth].set # None =>
              /\ frame[depth].set \in Dicts \cap InUse
              /\ seen[frame[depth].set][frame[depth].k] # {}
  <1>1. depth \in 1..MaxDepth /\ depth \in 1..depth
    BY Types
  <1>2. /\ frame[depth] \in Frame /\ Live(frame[depth].p)
        /\ frame[depth].set # None => seen[frame[depth].set][frame[depth].k] # {}
    BY <1>1 DEF UniqueInv, FrameInv
  <1>3. /\ frame[depth].p \in Proxies /\ frame[depth].k \in Calls
        /\ frame[depth].tries \in 0..Attempts /\ frame[depth].set \in Dicts \cup {None}
    BY <1>2 DEF Frame
  <1> QED
    BY <1>1, <1>2, <1>3, Types DEF Live, InUse

\* A step of a call that notes nothing keeps the invariant.
LEMMA CallInv ==
  ASSUME UniqueInv, UNCHANGED <<objects, given>>,
         depth' \in 0..MaxDepth, frame' \in [1..MaxDepth -> Frame \cup {Idle}],
         seen' \in [Dicts -> [Calls -> SUBSET (Values \cup Sentinels)]],
         \A e \in Dicts, c \in Calls, v \in Values : v \in seen'[e][c] <=> v \in seen[e][c],
         last' \in Outcomes \ {"sentinel"}, InUse' \ {None} \subseteq InUse, HeldInv', FrameInv'
  PROVE  UniqueInv'
  <1>1. UNCHANGED <<seenOf, sentinel, excluded, base, given>>
    BY DEF objects
  <1>2. UniqueTypeOK'
    BY <1>1, Types DEF UniqueTypeOK
  <1>3. SentinelInv' /\ NoRepeat' /\ SentinelStaysInside'
    BY <1>1 DEF UniqueInv, SentinelInv, Live, NoRepeat, SentinelStaysInside
  <1>4. NothingLost'
    <2> SUFFICES ASSUME NEW e \in InUse \ {None}, NEW c \in Calls, NEW w \in Values
                 PROVE  w \in seen'[e][c] <=> given'[e][c][w] > 0
      BY DEF NothingLost
    <2>1. e \in Dicts
      BY DEF InUse, UniqueInv, UniqueTypeOK, FrameInv, Frame
    <2>2. w \in seen[e][c] <=> given[e][c][w] > 0
      BY DEF UniqueInv, NothingLost
    <2> QED
      BY <2>1, <2>2, <1>1
  <1> QED
    BY <1>2, <1>3, <1>4 DEF UniqueInv

\* A call that takes the set for k of its proxy u finds the sentinel in it,
\* creates it if need be, and adds no value to it.
LEMMA TakenInv ==
  ASSUME UniqueInv, NEW u \in Proxies, NEW k \in Calls, Live(u),
         UNCHANGED <<seenOf, sentinel>>,
         seen' = [seen EXCEPT ![seenOf[u]][k] = Generated(u, seenOf[u], k)]
  PROVE  /\ sentinel[u] \in Generated(u, seenOf[u], k)
         /\ seen' \in [Dicts -> [Calls -> SUBSET (Values \cup Sentinels)]]
         /\ \A e \in Dicts, c \in Calls, v \in Values : v \in seen'[e][c] <=> v \in seen[e][c]
         /\ \A e \in Dicts, c \in Calls : seen[e][c] # {} => seen'[e][c] # {}
         /\ seen'[seenOf[u]][k] # {}
         /\ HeldInv'
  <1> DEFINE d == seenOf[u]
             S == Generated(u, d, k)
  <1>1. /\ d \in Dicts /\ sentinel[u] \in Sentinels
        /\ seen[d][k] \in SUBSET (Values \cup Sentinels)
        /\ seen[d][k] # {} => sentinel[u] \in seen[d][k]
    BY Types DEF UniqueInv, SentinelInv, HeldInv, Live
  <1>2. /\ S = IF seen[d][k] = {} THEN {sentinel[u]} ELSE seen[d][k]
        /\ sentinel[u] \in S /\ S \in SUBSET (Values \cup Sentinels)
        /\ \A v \in Values : v \in S <=> v \in seen[d][k]
    BY <1>1, Facts DEF Generated
  <1>3. \A w \in Proxies : Live(w) /\ seenOf[w] = d => sentinel[w] = sentinel[u]
    BY DEF UniqueInv, SentinelInv
  <1> HIDE DEF S
  <1>4. /\ seen' \in [Dicts -> [Calls -> SUBSET (Values \cup Sentinels)]]
        /\ \A e \in Dicts, c \in Calls :
             seen'[e][c] = IF e = d /\ c = k THEN S ELSE seen[e][c]
    BY <1>1, <1>2, Types DEF S
  <1>5. HeldInv'
    <2> SUFFICES ASSUME NEW w \in Proxies, NEW c \in Calls, Live(w), seen'[seenOf[w]][c] # {}
                 PROVE  sentinel[w] \in seen'[seenOf[w]][c]
      BY DEF HeldInv, Live
    <2>1. seenOf[w] \in Dicts
      BY Types DEF Live
    <2>2. seen[seenOf[w]][c] # {} => sentinel[w] \in seen[seenOf[w]][c]
      BY DEF UniqueInv, HeldInv
    <2> QED
      BY <2>1, <2>2, <1>2, <1>3, <1>4
  <1> QED
    BY <1>1, <1>2, <1>4, <1>5 DEF S

LEMMA LeaveInv ==
  ASSUME UniqueInv, depth > 0, NEW o \in Outcomes \ {"sentinel"}, Leave(o),
         UNCHANGED <<seen, given>>
  PROVE  UniqueInv'
  <1>1. /\ depth' = depth - 1 /\ frame' = [frame EXCEPT ![depth] = Idle] /\ last' = o
        /\ UNCHANGED <<seenOf, sentinel, excluded, base, seen, given>>
    BY DEF Leave, objects
  <1>2. depth \in 1..MaxDepth /\ depth' \in 0..MaxDepth
    BY <1>1, Types
  <1>3. frame' \in [1..MaxDepth -> Frame \cup {Idle}]
    BY <1>1, Types
  <1>4. \A i \in 1..depth' : i \in 1..depth /\ frame'[i] = frame[i]
    <2> SUFFICES ASSUME NEW i \in 1..(depth - 1) PROVE i \in 1..depth /\ frame'[i] = frame[i]
      BY <1>1
    <2>1. i \in 1..depth /\ i \in 1..MaxDepth /\ i # depth
      BY <1>2, Types
    <2> QED
      BY <2>1, <1>1, Types
  <1>5. InUse' \subseteq InUse
    BY <1>1, <1>4 DEF InUse
  <1>6. HeldInv' /\ FrameInv'
    BY <1>1, <1>4 DEF UniqueInv, HeldInv, FrameInv, Live
  <1> QED
    BY <1>1, <1>2, <1>3, <1>5, <1>6, Types, CallInv DEF objects

LEMMA PushInv ==
  ASSUME UniqueInv, NEW u \in Proxies, NEW k \in Calls, NEW d \in {None, seenOf[u]},
         NEW n \in 0..Attempts, Live(u), depth < MaxDepth, Push(u, k, d, n),
         UNCHANGED <<objects, given>>,
         seen' \in [Dicts -> [Calls -> SUBSET (Values \cup Sentinels)]],
         \A e \in Dicts, c \in Calls, v \in Values : v \in seen'[e][c] <=> v \in seen[e][c],
         \A e \in Dicts, c \in Calls : seen[e][c] # {} => seen'[e][c] # {},
         d # None => seen'[d][k] # {}, HeldInv'
  PROVE  UniqueInv'
  <1> DEFINE f == [p |-> u, k |-> k, set |-> d, tries |-> n]
  <1>1. /\ depth' = depth + 1 /\ frame' = [frame EXCEPT ![depth + 1] = f] /\ last' = "none"
        /\ UNCHANGED <<seenOf, sentinel, excluded, base, given>>
    BY DEF Push, objects
  <1>2. depth \in Nat /\ depth + 1 \in 1..MaxDepth /\ depth' \in 0..MaxDepth
    BY <1>1, Types
  <1>3. f \in Frame /\ f.p = u /\ f.k = k /\ f.set = d
    BY Types DEF Frame
  <1> HIDE DEF f
  <1>4. frame' \in [1..MaxDepth -> Frame \cup {Idle}] /\ frame'[depth + 1] = f
    BY <1>1, <1>2, <1>3, Types
  <1>5. \A i \in 1..depth' : \/ i = depth + 1
                             \/ i \in 1..depth /\ frame'[i] = frame[i]
    <2> SUFFICES ASSUME NEW i \in 1..(depth + 1), i # depth + 1
                 PROVE  i \in 1..depth /\ frame'[i] = frame[i]
      BY <1>1
    <2>1. i \in 1..depth /\ i \in 1..MaxDepth
      BY <1>2, Types
    <2> QED
      BY <2>1, <1>1, Types
  <1>6. InUse' \ {None} \subseteq InUse
    BY <1>1, <1>3, <1>4, <1>5 DEF InUse
  <1>7. FrameInv'
    <2> SUFFICES ASSUME NEW i \in 1..depth'
                 PROVE  /\ frame'[i] \in Frame /\ Live(frame[i].p)'
                        /\ frame'[i].set # None => seen'[frame'[i].set][frame'[i].k] # {}
      BY DEF FrameInv
    <2>1. CASE i = depth + 1
      BY <2>1, <1>1, <1>3, <1>4 DEF Live
    <2>2. CASE i \in 1..depth /\ frame'[i] = frame[i]
      <3>1. /\ frame[i] \in Frame /\ Live(frame[i].p)
            /\ frame[i].set # None => seen[frame[i].set][frame[i].k] # {}
        BY <2>2 DEF UniqueInv, FrameInv
      <3>2. frame[i].set \in Dicts \cup {None} /\ frame[i].k \in Calls
        BY <3>1 DEF Frame
      <3> QED
        BY <2>2, <3>1, <3>2, <1>1 DEF Live
    <2> QED
      BY <2>1, <2>2, <1>5
  <1> QED
    BY <1>1, <1>2, <1>4, <1>6, <1>7, CallInv DEF Outcomes

LEMMA BeginInv ==
  ASSUME UniqueInv, NEW u \in Proxies, NEW k \in Calls, Begin(u, k)
  PROVE  UniqueInv'
  <1>1. Live(u) /\ depth < MaxDepth /\ UNCHANGED <<objects, given>>
        /\ UNCHANGED <<seenOf, sentinel>>
    BY DEF Begin, objects
  <1>2. 0 \in 0..Attempts /\ 1 \in 0..Attempts
    BY Facts
  <1>3. CASE excluded[u] # {}
    <2>1. Push(u, k, None, 0) /\ UNCHANGED seen
      BY <1>3 DEF Begin
    <2>2. HeldInv'
      BY <1>1, <2>1 DEF UniqueInv, HeldInv, Live
    <2> QED
      BY <1>1, <1>2, <2>1, <2>2, Types, PushInv
  <1>4. CASE excluded[u] = {}
    <2> DEFINE S == Generated(u, seenOf[u], k)
    <2>1. CASE sentinel[u] \in S
      <3>1. /\ Push(u, k, seenOf[u], 1)
            /\ seen' = [seen EXCEPT ![seenOf[u]][k] = S]
        BY <1>4, <2>1 DEF Begin
      <3> HIDE DEF S
      <3>2. /\ seen' \in [Dicts -> [Calls -> SUBSET (Values \cup Sentinels)]]
            /\ \A e \in Dicts, c \in Calls, v \in Values : v \in seen'[e][c] <=> v \in seen[e][c]
            /\ \A e \in Dicts, c \in Calls : seen[e][c] # {} => seen'[e][c] # {}
            /\ seen'[seenOf[u]][k] # {}
            /\ HeldInv'
        BY <1>1, <3>1, TakenInv DEF S
      <3> QED
        BY <1>1, <1>2, <3>1, <3>2, PushInv
    <2>2. sentinel[u] \in S
      BY <1>1, Types DEF Generated, UniqueInv, HeldInv
    <2> QED
      BY <2>1, <2>2
  <1> QED
    BY <1>3, <1>4

LEMMA FirstDrawInv ==
  ASSUME UniqueInv, NEW v \in Values, FirstDraw(v)
  PROVE  UniqueInv'
  <1> DEFINE u == frame[depth].p
             k == frame[depth].k
             d == seenOf[u]
             S == Generated(u, d, k)
  <1>1. depth > 0 /\ frame[depth].set = None
    BY DEF FirstDraw
  <1>2. /\ u \in Proxies /\ k \in Calls /\ Live(u) /\ d \in Dicts /\ d \in InUse
        /\ depth \in 1..MaxDepth /\ frame[depth] \in Frame
    BY <1>1, Top
  <1>3. CASE v \in excluded[u] /\ Leave("exempt") /\ UNCHANGED <<seen, given>>
    BY <1>1, <1>3, LeaveInv DEF Outcomes
  <1>4. CASE v \notin S /\ Note(d, k, S, v)
    <2>1. CASE seen[d][k] # {}
      <3>1. S = seen[d][k]
        BY <2>1 DEF Generated
      <3> HIDE DEF S, d, k, u
      <3> QED
        BY <1>1, <1>2, <1>4, <2>1, <3>1, NoteInv
    <2>2. CASE seen[d][k] = {}
      <3>1. S = {sentinel[u]} /\ sentinel[u] \in Sentinels
            /\ \A w \in Proxies : Live(w) /\ seenOf[w] = d => sentinel[w] \in S
        BY <1>2, <2>2 DEF Generated, UniqueInv, SentinelInv
      <3> HIDE DEF S, d, k, u
      <3>2. S \in SUBSET Sentinels
        BY <3>1
      <3> QED
        BY <1>1, <1>2, <1>4, <2>2, <3>1, <3>2, NoteInv
    <2> QED
      BY <2>1, <2>2
  <1>5. CASE /\ frame' = [frame EXCEPT ![depth].set = d, ![depth].tries = 1]
             /\ seen' = [seen EXCEPT ![d][k] = S]
             /\ UNCHANGED <<objects, given, depth, last>>
    <2> HIDE DEF S, u, k
    <2>1. /\ seen' \in [Dicts -> [Calls -> SUBSET (Values \cup Sentinels)]]
          /\ \A e \in Dicts, c \in Calls, w \in Values : w \in seen'[e][c] <=> w \in seen[e][c]
          /\ \A e \in Dicts, c \in Calls : seen[e][c] # {} => seen'[e][c] # {}
          /\ seen'[d][k] # {}
          /\ HeldInv'
      BY <1>2, <1>5, TakenInv DEF S, objects
    <2> HIDE DEF d
    <2> DEFINE f == [frame[depth] EXCEPT !.set = d, !.tries = 1]
    <2>2. f \in Frame /\ f.p = u /\ f.k = k /\ f.set = d
      <3> DEFINE g == frame[depth]
      <3>1. g \in Frame /\ d \in Dicts /\ 1 \in 0..Attempts
        BY <1>2, Facts
      <3> HIDE DEF g
      <3>2. [g EXCEPT !.set = d, !.tries = 1] \in Frame
        BY <3>1 DEF Frame
      <3>3. /\ [g EXCEPT !.set = d, !.tries = 1].p = g.p
            /\ [g EXCEPT !.set = d, !.tries = 1].k = g.k
            /\ [g EXCEPT !.set = d, !.tries = 1].set = d
        BY <3>1 DEF Frame
      <3> QED
        BY <3>2, <3>3 DEF g, u, k
    <2>3. frame' = [frame EXCEPT ![depth] = f]
      BY <1>5, <1>2, Types
    <2> HIDE DEF f
    <2>4. /\ frame' \in [1..MaxDepth -> Frame \cup {Idle}]
          /\ \A i \in 1..MaxDepth : frame'[i] = IF i = depth THEN f ELSE frame[i]
      BY <2>2, <2>3, <1>2, Types
    <2>5. /\ depth' = depth /\ depth' \in 0..MaxDepth /\ 1..depth \subseteq 1..MaxDepth
          /\ UNCHANGED seenOf
      BY <1>5, Types DEF objects
    <2>6. InUse' \ {None} \subseteq InUse
      <3>1. \A i \in 1..depth : frame'[i].set = d \/ frame'[i].set = frame[i].set
        BY <2>2, <2>4, <2>5
      <3> QED
        BY <3>1, <1>2, <2>5 DEF InUse
    <2>7. FrameInv'
      <3> SUFFICES ASSUME NEW i \in 1..depth
                   PROVE  /\ frame'[i] \in Frame /\ Live(frame[i].p)'
                          /\ frame'[i].set # None => seen'[frame'[i].set][frame'[i].k] # {}
        BY <2>5 DEF FrameInv
      <3>1. /\ frame[i] \in Frame /\ Live(frame[i].p)
            /\ frame[i].set # None => seen[frame[i].set][frame[i].k] # {}
        BY DEF UniqueInv, FrameInv
      <3>2. frame[i].set \in Dicts \cup {None} /\ frame[i].k \in Calls
        BY <3>1 DEF Frame
      <3>3. CASE i = depth
        BY <3>3, <1>2, <2>1, <2>2, <2>4, <2>5 DEF Live
      <3>4. CASE i # depth
        BY <3>1, <3>2, <3>4, <2>1, <2>4, <2>5 DEF Live
      <3> QED
        BY <3>3, <3>4
    <2>8. last' \in Outcomes \ {"sentinel"}
      BY <1>5 DEF UniqueInv, UniqueTypeOK, SentinelStaysInside
    <2> QED
      BY <1>5, <2>1, <2>4, <2>5, <2>6, <2>7, <2>8, CallInv
  <1> QED
    BY <1>3, <1>4, <1>5 DEF FirstDraw

LEMMA RedrawInv ==
  ASSUME UniqueInv, NEW v \in Values, Redraw(v)
  PROVE  UniqueInv'
  <1> DEFINE g == frame[depth]
             S == seen[g.set][g.k]
  <1>1. depth > 0 /\ g.set # None /\ g.tries < Attempts
    BY DEF Redraw, MoreTries
  <1>2. /\ g \in Frame /\ g.k \in Calls /\ g.set \in Dicts /\ g.set \in InUse /\ S # {}
        /\ depth \in 1..MaxDepth /\ g.tries \in 0..Attempts
    BY <1>1, Top
  <1>3. CASE v \notin S /\ Note(g.set, g.k, S, v)
    <2> HIDE DEF g
    <2> QED
      BY <1>1, <1>2, <1>3, NoteInv
  <1>4. CASE /\ frame' = [frame EXCEPT ![depth].tries = NextTry(frame[depth])]
             /\ UNCHANGED <<objects, seen, given, depth, last>>
    <2> DEFINE f == [g EXCEPT !.tries = g.tries + 1]
    <2>1. f \in Frame /\ f.p = g.p /\ f.k = g.k /\ f.set = g.set
      <3>1. g.tries + 1 \in 0..Attempts
        BY <1>1, <1>2, Facts
      <3> QED
        BY <3>1, <1>2 DEF Frame
    <2>2. frame' = [frame EXCEPT ![depth] = f]
      BY <1>4, <1>2, Types DEF NextTry
    <2> HIDE DEF f
    <2>3. /\ frame' \in [1..MaxDepth -> Frame \cup {Idle}]
          /\ \A i \in 1..MaxDepth : frame'[i] = IF i = depth THEN f ELSE frame[i]
      BY <2>1, <2>2, <1>2, Types
    <2>4. /\ depth' = depth /\ depth' \in 0..MaxDepth /\ 1..depth \subseteq 1..MaxDepth
          /\ UNCHANGED <<seenOf, sentinel>>
      BY <1>4, Types DEF objects
    <2>5. InUse' \subseteq InUse
      BY <2>1, <2>3, <2>4 DEF InUse
    <2>6. HeldInv'
      BY <1>4, <2>4 DEF UniqueInv, HeldInv, Live
    <2>7. FrameInv'
      <3> SUFFICES ASSUME NEW i \in 1..depth
                   PROVE  /\ frame'[i] \in Frame /\ Live(frame[i].p)'
                          /\ frame'[i].set # None => seen'[frame'[i].set][frame'[i].k] # {}
        BY <2>4 DEF FrameInv
      <3>1. /\ frame[i] \in Frame /\ Live(frame[i].p)
            /\ frame[i].set # None => seen[frame[i].set][frame[i].k] # {}
        BY DEF UniqueInv, FrameInv
      <3> QED
        BY <3>1, <1>4, <2>1, <2>3, <2>4 DEF Live
    <2>8. last' \in Outcomes \ {"sentinel"}
      BY <1>4 DEF UniqueInv, UniqueTypeOK, SentinelStaysInside
    <2> QED
      BY <1>4, <2>3, <2>4, <2>5, <2>6, <2>7, <2>8, Types, CallInv
  <1> QED
    BY <1>3, <1>4 DEF Redraw

-----------------------------------------------------------------------------
(* Proxies and their dicts                                                 *)

\* w starts with the dict d, which nothing uses; it holds D, and G is how often
\* each value was noted: w is new, or clears.
FreshDict(w, d, s, D, G) ==
  /\ d \in Unused /\ s \in Sentinels
  /\ D \in [Calls -> SUBSET (Values \cup Sentinels)] /\ G \in [Calls -> [Values -> Nat]]
  /\ \A k \in Calls : D[k] # {} => s \in D[k]
  /\ \A k \in Calls, v \in Values : G[k][v] <= 1 /\ (v \in D[k] <=> G[k][v] > 0)
  /\ seenOf' = [seenOf EXCEPT ![w] = d] /\ sentinel' = [sentinel EXCEPT ![w] = s]
  /\ excluded' \in [Proxies -> SUBSET Values] /\ base' \subseteq base \cup {w}
  /\ seen' = [seen EXCEPT ![d] = D] /\ given' = [given EXCEPT ![d] = G]
  /\ UNCHANGED <<depth, frame, last>>

LEMMA FreshDictInv ==
  ASSUME UniqueInv, NEW w \in Proxies, NEW d, NEW s, NEW D, NEW G, FreshDict(w, d, s, D, G)
  PROVE  UniqueInv'
  <1> USE DEF FreshDict
  <1>1. /\ d \in Dicts /\ d # None /\ \A x \in Proxies : seenOf[x] # d
        /\ \A i \in 1..depth : frame[i].set # d
    BY Facts DEF Unused, InUse
  <1>2. /\ seen' \in [Dicts -> [Calls -> SUBSET (Values \cup Sentinels)]]
        /\ given' \in [Dicts -> [Calls -> [Values -> Nat]]]
        /\ seenOf' \in [Proxies -> Dicts \cup {None}]
        /\ sentinel' \in [Proxies -> Sentinels \cup {None}]
        /\ seen'[d] = D /\ given'[d] = G
        /\ \A e \in Dicts \ {d} : seen'[e] = seen[e] /\ given'[e] = given[e]
        /\ seenOf'[w] = d /\ sentinel'[w] = s
        /\ \A x \in Proxies \ {w} : seenOf'[x] = seenOf[x] /\ sentinel'[x] = sentinel[x]
    BY <1>1, Types
  <1>3. UniqueTypeOK'
    BY <1>2, Types DEF UniqueTypeOK, UniqueInv
  <1>4. SentinelInv'
    BY <1>1, <1>2 DEF UniqueInv, SentinelInv, Live
  <1>5. HeldInv'
    <2> SUFFICES ASSUME NEW x \in Proxies, NEW c \in Calls, Live(x)', seen'[seenOf'[x]][c] # {}
                 PROVE  sentinel'[x] \in seen'[seenOf'[x]][c]
      BY DEF HeldInv
    <2>1. CASE x = w
      BY <2>1, <1>2
    <2>2. CASE x # w
      <3>1. Live(x) /\ seenOf[x] \in Dicts \ {d}
        BY <2>2, <1>1, <1>2, Types DEF Live
      <3> QED
        BY <2>2, <3>1, <1>2 DEF UniqueInv, HeldInv
    <2> QED
      BY <2>1, <2>2
  <1>6. FrameInv'
    <2> SUFFICES ASSUME NEW i \in 1..depth
                 PROVE  /\ frame[i] \in Frame /\ Live(frame[i].p)'
                        /\ frame[i].set # None => seen'[frame[i].set][frame[i].k] # {}
      BY DEF FrameInv
    <2>1. /\ frame[i] \in Frame /\ Live(frame[i].p)
          /\ frame[i].set # None => seen[frame[i].set][frame[i].k] # {}
      BY DEF UniqueInv, FrameInv
    <2>2. frame[i].set \in Dicts \cup {None} /\ frame[i].p \in Proxies
      BY <2>1 DEF Frame
    <2> QED
      BY <2>1, <2>2, <1>1, <1>2 DEF Live
  <1>7. NoRepeat'
    <2> SUFFICES ASSUME NEW e \in Dicts, NEW c \in Calls, NEW v \in Values
                 PROVE  given'[e][c][v] <= 1
      BY DEF NoRepeat
    <2>1. given[e][c][v] <= 1
      BY DEF UniqueInv, NoRepeat
    <2> QED
      BY <2>1, <1>2
  <1>8. NothingLost'
    <2>1. InUse' \subseteq InUse \cup {d}
      BY <1>2 DEF InUse
    <2> SUFFICES ASSUME NEW e \in (InUse \cup {d}) \ {None}, NEW c \in Calls, NEW v \in Values
                 PROVE  v \in seen'[e][c] <=> given'[e][c][v] > 0
      BY <2>1 DEF NothingLost
    <2>2. CASE e = d
      BY <2>2, <1>2
    <2>3. CASE e # d
      <3>1. e \in Dicts
        BY <2>3 DEF InUse, UniqueInv, UniqueTypeOK, FrameInv, Frame
      <3>2. v \in seen[e][c] <=> given[e][c][v] > 0
        BY <2>3 DEF UniqueInv, NothingLost
      <3> QED
        BY <2>3, <3>1, <3>2, <1>2
    <2> QED
      BY <2>2, <2>3
  <1>9. SentinelStaysInside'
    BY DEF UniqueInv, SentinelStaysInside
  <1> QED
    BY <1>3, <1>4, <1>5, <1>6, <1>7, <1>8, <1>9 DEF UniqueInv

LEMMA ClearInv == ASSUME UniqueInv, NEW u \in Proxies, Clear(u) PROVE UniqueInv'
  <1> DEFINE D == [k \in Calls |-> {}]
  <1>1. PICK d \in Unused : /\ seenOf' = [seenOf EXCEPT ![u] = d]
                            /\ seen' = [seen EXCEPT ![d] = D]
                            /\ given' = [given EXCEPT ![d] = NoneGiven]
    BY DEF Clear
  <1>2. /\ D \in [Calls -> SUBSET (Values \cup Sentinels)]
        /\ NoneGiven \in [Calls -> [Values -> Nat]]
        /\ \A k \in Calls : D[k] = {} /\ \A v \in Values : NoneGiven[k][v] = 0
    BY DEF NoneGiven
  <1>3. /\ sentinel[u] \in Sentinels /\ sentinel' = [sentinel EXCEPT ![u] = sentinel[u]]
        /\ excluded' \in [Proxies -> SUBSET Values] /\ base' \subseteq base \cup {u}
        /\ UNCHANGED <<depth, frame, last>>
    BY Types DEF Clear, UniqueInv, SentinelInv
  <1> HIDE DEF D
  <1>4. \A k \in Calls, v \in Values :
          NoneGiven[k][v] <= 1 /\ (v \in D[k] <=> NoneGiven[k][v] > 0)
    BY <1>2
  <1>5. FreshDict(u, d, sentinel[u], D, NoneGiven)
    BY <1>1, <1>2, <1>3, <1>4 DEF FreshDict
  <1> QED
    BY <1>5, FreshDictInv

LEMMA DeriveInv ==
  ASSUME UniqueInv, NEW u \in Proxies, NEW w \in Proxies, NEW T \in SUBSET Values,
         Derive(u, w, T)
  PROVE  UniqueInv'
  <1>1. /\ Live(u) /\ ~Live(w) /\ u # w
        /\ seenOf' = [seenOf EXCEPT ![w] = seenOf[u]]
        /\ sentinel' = [sentinel EXCEPT ![w] = sentinel[u]]
        /\ excluded' = [excluded EXCEPT ![w] = T]
        /\ UNCHANGED <<base, seen, given, depth, frame, last>>
    BY DEF Derive
  <1>2. /\ \A x \in Proxies : seenOf'[x] = IF x = w THEN seenOf[u] ELSE seenOf[x]
        /\ \A x \in Proxies : sentinel'[x] = IF x = w THEN sentinel[u] ELSE sentinel[x]
    BY <1>1, Types
  <1>3. UniqueTypeOK'
    BY <1>1, Types DEF UniqueTypeOK, UniqueInv
  <1>4. SentinelInv' /\ HeldInv'
    <2>1. SentinelInv'
      BY <1>1, <1>2 DEF UniqueInv, SentinelInv, Live
    <2>2. HeldInv'
      BY <1>1, <1>2 DEF UniqueInv, HeldInv, Live
    <2> QED
      BY <2>1, <2>2
  <1>5. FrameInv'
    <2> SUFFICES ASSUME NEW i \in 1..depth PROVE Live(frame[i].p)'
      BY <1>1 DEF UniqueInv, FrameInv
    <2>1. frame[i].p \in Proxies /\ Live(frame[i].p)
      BY DEF UniqueInv, FrameInv, Frame
    <2> QED
      BY <2>1, <1>1, <1>2 DEF Live
  <1>6. InUse' \subseteq InUse
    BY <1>1, <1>2 DEF InUse
  <1>7. NothingLost' /\ NoRepeat' /\ SentinelStaysInside'
    BY <1>1, <1>6 DEF UniqueInv, NothingLost, NoRepeat, SentinelStaysInside
  <1> QED
    BY <1>3, <1>4, <1>5, <1>7 DEF UniqueInv

LEMMA DeepCopyInv ==
  ASSUME UniqueInv, NEW u \in Proxies, NEW w \in Proxies, DeepCopy(u, w)
  PROVE  UniqueInv'
  <1> DEFINE D(s) == [k \in Calls |-> IF seen[seenOf[u]][k] = {} THEN {} ELSE {s}]
  <1>1. PICK d \in Unused, s \in FreshSentinels : CopyInto(w, d, s, D(s), NoneGiven)
    BY DEF DeepCopy
  <1>2. s \in Sentinels
    BY DEF FreshSentinels
  <1>3. /\ D(s) \in [Calls -> SUBSET (Values \cup Sentinels)]
        /\ \A k \in Calls : D(s)[k] = {} \/ D(s)[k] = {s}
    BY <1>2
  <1>4. /\ NoneGiven \in [Calls -> [Values -> Nat]]
        /\ \A k \in Calls, v \in Values : NoneGiven[k][v] = 0
    BY DEF NoneGiven
  <1>5. /\ seenOf' = [seenOf EXCEPT ![w] = d] /\ sentinel' = [sentinel EXCEPT ![w] = s]
        /\ excluded' \in [Proxies -> SUBSET Values] /\ base' \subseteq base \cup {w}
        /\ seen' = [seen EXCEPT ![d] = D(s)] /\ given' = [given EXCEPT ![d] = NoneGiven]
        /\ UNCHANGED <<depth, frame, last>>
    BY <1>1, Types DEF CopyInto
  <1> HIDE DEF D
  <1>6. /\ \A k \in Calls : D(s)[k] # {} => s \in D(s)[k]
        /\ \A k \in Calls, v \in Values :
             NoneGiven[k][v] <= 1 /\ (v \in D(s)[k] <=> NoneGiven[k][v] > 0)
    BY <1>2, <1>3, <1>4, Facts
  <1>7. FreshDict(w, d, s, D(s), NoneGiven)
    BY <1>2, <1>3, <1>4, <1>5, <1>6 DEF FreshDict
  <1> QED
    BY <1>7, FreshDictInv

LEMMA PickleInv ==
  ASSUME UniqueInv, NEW u \in Proxies, NEW w \in Proxies, PickleRoundTrip(u, w)
  PROVE  UniqueInv'
  <1> DEFINE D(s) == [k \in Calls |-> Pickled(seen[seenOf[u]][k], sentinel[u], s)]
             G == given[seenOf[u]]
  <1>1. PICK d \in Unused, s \in FreshSentinels : CopyInto(w, d, s, D(s), G)
    BY DEF PickleRoundTrip
  <1>2. s \in Sentinels
    BY DEF FreshSentinels
  <1>3. Live(u) /\ seenOf[u] \in Dicts /\ seenOf[u] \in InUse \ {None} /\ sentinel[u] \in Sentinels
    BY Facts, Types DEF PickleRoundTrip, UniqueInv, SentinelInv, Live, InUse
  <1>4. /\ G \in [Calls -> [Values -> Nat]]
        /\ \A k \in Calls : seen[seenOf[u]][k] \in SUBSET (Values \cup Sentinels)
        /\ \A k \in Calls : seen[seenOf[u]][k] # {} => sentinel[u] \in seen[seenOf[u]][k]
        /\ \A k \in Calls, v \in Values :
             G[k][v] <= 1 /\ (v \in seen[seenOf[u]][k] <=> G[k][v] > 0)
    BY <1>3, Types DEF UniqueInv, HeldInv, NoRepeat, NothingLost
  <1>5. \A k \in Calls :
          /\ D(s)[k] \in SUBSET (Values \cup Sentinels)
          /\ D(s)[k] # {} => s \in D(s)[k]
          /\ \A v \in Values : v \in D(s)[k] <=> v \in seen[seenOf[u]][k]
    BY <1>2, <1>3, <1>4, Facts DEF Pickled
  <1>6. D(s) \in [Calls -> SUBSET (Values \cup Sentinels)]
    BY <1>5
  <1>7. /\ seenOf' = [seenOf EXCEPT ![w] = d] /\ sentinel' = [sentinel EXCEPT ![w] = s]
        /\ excluded' \in [Proxies -> SUBSET Values] /\ base' \subseteq base \cup {w}
        /\ seen' = [seen EXCEPT ![d] = D(s)] /\ given' = [given EXCEPT ![d] = G]
        /\ UNCHANGED <<depth, frame, last>>
    BY <1>1, Types DEF CopyInto
  <1> HIDE DEF D, G
  <1>8. \A k \in Calls, v \in Values : G[k][v] <= 1 /\ (v \in D(s)[k] <=> G[k][v] > 0)
    BY <1>4, <1>5
  <1>9. FreshDict(w, d, s, D(s), G)
    BY <1>2, <1>4, <1>5, <1>6, <1>7, <1>8 DEF FreshDict
  <1> QED
    BY <1>9, FreshDictInv

-----------------------------------------------------------------------------
(* The theorems                                                            *)

LEMMA NextUniqueInv == UniqueInv /\ [Next]_vars => UniqueInv'
  <1> SUFFICES ASSUME UniqueInv, [Next]_vars PROVE UniqueInv'
    OBVIOUS
  <1>1. ASSUME NEW u \in Proxies, NEW k \in Calls, Begin(u, k) PROVE UniqueInv'
    BY <1>1, BeginInv
  <1>2. ASSUME NEW v \in Values, FirstDraw(v) PROVE UniqueInv'
    BY <1>2, FirstDrawInv
  <1>3. ASSUME NEW v \in Values, Redraw(v) PROVE UniqueInv'
    BY <1>3, RedrawInv
  <1>4. CASE GiveUp \/ FormatterRaises
    BY <1>4, LeaveInv DEF GiveUp, FormatterRaises, Outcomes
  <1>5. ASSUME NEW u \in Proxies, Clear(u) PROVE UniqueInv'
    BY <1>5, ClearInv
  <1>6. ASSUME NEW u \in Proxies, NEW w \in Proxies, NEW T \in SUBSET Values, Derive(u, w, T)
        PROVE  UniqueInv'
    BY <1>6, DeriveInv
  <1>7. ASSUME NEW u \in Proxies, NEW w \in Proxies, DeepCopy(u, w) \/ PickleRoundTrip(u, w)
        PROVE  UniqueInv'
    BY <1>7, DeepCopyInv, PickleInv
  <1>8. CASE UNCHANGED vars
    BY <1>8 DEF vars, UniqueInv, UniqueTypeOK, SentinelInv, HeldInv, FrameInv, NoRepeat,
                NothingLost, SentinelStaysInside, Live, InUse
  <1> QED
    BY <1>1, <1>2, <1>3, <1>4, <1>5, <1>6, <1>7, <1>8 DEF Next

\* No value comes out of one dict under one key twice as new: for every number
\* of proxies, dicts, keys and values, every depth of nesting and every bound
\* on the attempts.
THEOREM NoRepeatTheorem == Spec => []NoRepeat
  <1>1. Init => UniqueInv
    BY InitUniqueInv
  <1>2. UniqueInv => NoRepeat
    BY DEF UniqueInv
  <1> QED
    BY <1>1, <1>2, NextUniqueInv, PTL DEF Spec

\* Sets hold values and sentinels, and a call under way has a live proxy and its
\* number of attempts, however deep calls are nested (proxy.py:388-407).
THEOREM UniqueTypeTheorem == Spec => []UniqueTypeOK
  <1>1. Init => UniqueInv
    BY InitUniqueInv
  <1>2. UniqueInv => UniqueTypeOK
    BY DEF UniqueInv
  <1> QED
    BY <1>1, <1>2, NextUniqueInv, PTL DEF Spec

\* The object that marks a set as taken never comes out of a unique proxy.
THEOREM SentinelTheorem == Spec => []SentinelStaysInside
  <1>1. Init => UniqueInv
    BY InitUniqueInv
  <1>2. UniqueInv => SentinelStaysInside
    BY DEF UniqueInv
  <1> QED
    BY <1>1, <1>2, NextUniqueInv, PTL DEF Spec

\* A dict in use holds exactly the values that came out of it as new: none is
\* used up by a call that raised or gave up, or was overtaken by clear.
THEOREM NothingLostTheorem == Spec => []NothingLost
  <1>1. Init => UniqueInv
    BY InitUniqueInv
  <1>2. UniqueInv => NothingLost
    BY DEF UniqueInv
  <1> QED
    BY <1>1, <1>2, NextUniqueInv, PTL DEF Spec
=============================================================================
