---------------------------- MODULE UniqueValues ----------------------------
(***************************************************************************)
(* fake.unique: the UniqueProxy of proxy.py.  A UniqueProxy wraps every     *)
(* formatter so that it is called again until it gives a value that is not  *)
(* in the set kept for (name, arguments).  The dict of these sets is an     *)
(* object: proxies derived with exclude_types or [locale] share it, clear   *)
(* makes one proxy start another, and a call that is under way goes on      *)
(* with the set it took.                                                    *)
(*                                                                          *)
(* The wrapped formatter may be a custom provider's, and may use the Faker  *)
(* itself: while it runs, anything can be called, wrappers included.  The   *)
(* calls under way form a stack.  One thread: Fakers are not thread-safe.   *)
(***************************************************************************)
EXTENDS Naturals, FiniteSets

CONSTANTS
  Proxies,    \* UniqueProxy objects
  Dicts,      \* the dict objects that serve as _seen
  Sentinels,  \* the object()s that serve as _sentinel
  Calls,      \* (formatter name, arguments), the keys of _seen
  Values,     \* what formatters return, made hashable
  Attempts,   \* _UNIQUE_ATTEMPTS
  MaxDepth,   \* bound on the calls under way at once
  None

ASSUME UniqueAssumption ==
  /\ Values \cap Sentinels = {}
  /\ Proxies # {} /\ Dicts # {} /\ Sentinels # {}
  /\ Attempts \in Nat \ {0} /\ MaxDepth \in Nat \ {0}
  /\ None \notin Dicts \cup Sentinels \cup Values \cup Proxies

VARIABLES
  seenOf,     \* seenOf[u]: u._seen; None: no such object
  sentinel,   \* sentinel[u]: u._sentinel
  excluded,   \* excluded[u]: the values of u._excluded_types
  base,       \* the proxies that are some Faker's _unique_proxy
  seen,       \* seen[d][k]: the set under k in the dict d; {}: no entry
  given,      \* history: how often a value came out of d under k and was noted
  depth,      \* how many calls are under way
  frame,      \* frame[i]: the i-th of them
  last        \* history: the last call that ended

vars == <<seenOf, sentinel, excluded, base, seen, given, depth, frame, last>>
objects == <<seenOf, sentinel, excluded, base>>

\* A call of proxy p that is waiting for its formatter: set is the dict whose
\* set it took (None: not yet, a proxy with excluded types draws first), tries
\* counts the iterations of its loop.
Frame == [p : Proxies, k : Calls, set : Dicts \cup {None}, tries : 0..Attempts]

Live(u) == seenOf[u] # None
InUse == {seenOf[u] : u \in Proxies} \cup {frame[i].set : i \in 1..depth}
Unused == Dicts \ InUse
FreshSentinels == Sentinels \ {sentinel[u] : u \in Proxies}
NoneGiven == [k \in Calls |-> [v \in Values |-> 0]]
Idle == [p |-> None, k |-> None, set |-> None, tries |-> 0]

\* How a call ends: it raises, or it returns a value that is new and noted, a
\* value of an excluded type, noted or not, or the sentinel.
Outcomes == {"none", "raised", "noted", "exempt", "noted exempt", "sentinel"}

Init ==
  LET u == CHOOSE x \in Proxies : TRUE
      d == CHOOSE x \in Dicts : TRUE
      s == CHOOSE x \in Sentinels : TRUE
  IN
    /\ seenOf = [x \in Proxies |-> IF x = u THEN d ELSE None]
    /\ sentinel = [x \in Proxies |-> IF x = u THEN s ELSE None]
    /\ excluded = [x \in Proxies |-> {}]
    /\ base = {u}
    /\ seen = [e \in Dicts |-> [c \in Calls |-> {}]]
    /\ given = [e \in Dicts |-> NoneGiven]
    /\ depth = 0
    /\ frame = [i \in 1..MaxDepth |-> Idle]
    /\ last = "none"

-----------------------------------------------------------------------------
(* Calling a formatter through a proxy                                     *)

\* generated: the set for k in d, which setdefault creates with the sentinel
\* of u.  Mutant GeneratedAnew: it is created whether or not it exists.
GeneratedAnew(u, d, k) == {sentinel[u]}
Generated(u, d, k) == IF seen[d][k] = {} THEN {sentinel[u]} ELSE seen[d][k]

\* The top call ends.
Leave(outcome) ==
  /\ depth' = depth - 1
  /\ frame' = [frame EXCEPT ![depth] = Idle]
  /\ last' = outcome
  /\ UNCHANGED objects

\* The top call found v to be new in the set S for k in d: note it, return it.
Note(d, k, S, v) ==
  /\ seen' = [seen EXCEPT ![d][k] = S \cup {v}]
  /\ given' = [given EXCEPT ![d][k][v] = @ + 1]
  /\ Leave(IF v \in excluded[frame[depth].p] THEN "noted exempt" ELSE "noted")

Push(u, k, d, n) ==
  /\ depth' = depth + 1
  /\ frame' = [frame EXCEPT ![depth + 1] = [p |-> u, k |-> k, set |-> d, tries |-> n]]
  /\ last' = "none"

\* fake.unique.name(...).  With excluded types the wrapper draws at once.
\* Without, it takes the set and enters the loop with the sentinel: that is in
\* the set, so the loop draws (if it were not, the sentinel would be returned).
Begin(u, k) ==
  LET d == seenOf[u]
      S == Generated(u, d, k)
  IN /\ Live(u) /\ depth < MaxDepth
     /\ IF excluded[u] # {}
          THEN Push(u, k, None, 0) /\ UNCHANGED seen
        ELSE IF sentinel[u] \in S
          THEN Push(u, k, d, 1) /\ seen' = [seen EXCEPT ![d][k] = S]
        ELSE /\ seen' = [seen EXCEPT ![d][k] = S \cup {sentinel[u]}]
             /\ last' = "sentinel"
             /\ UNCHANGED <<depth, frame>>
     /\ UNCHANGED <<objects, given>>

\* The formatter of the top call returns v, the first draw of a proxy with
\* excluded types: those are returned as they are, the others are looked up in
\* the dict the proxy has by now.
FirstDraw(v) ==
  LET f == frame[depth]
      d == seenOf[f.p]
      S == Generated(f.p, d, f.k)
  IN /\ depth > 0 /\ f.set = None
     /\ \/ v \in excluded[f.p] /\ Leave("exempt") /\ UNCHANGED <<seen, given>>
        \/ v \notin excluded[f.p] /\ v \notin S /\ Note(d, f.k, S, v)
        \/ /\ v \notin excluded[f.p] /\ v \in S
           /\ frame' = [frame EXCEPT ![depth].set = d, ![depth].tries = 1]
           /\ seen' = [seen EXCEPT ![d][f.k] = S]
           /\ UNCHANGED <<objects, given, depth, last>>

\* The loop counter after one more iteration, and whether there is one.
\* Mutant NextTryWraps: the count starts again before it gets to the bound.
\* Mutant MoreTriesLate: one too many.
NextTryWraps(f) == IF f.tries = Attempts - 1 THEN 1 ELSE f.tries + 1
NextTry(f) == f.tries + 1
MoreTriesLate(f) == f.tries <= Attempts
MoreTries(f) == f.tries < Attempts

\* The formatter of the top call returns v to the loop: the next iteration
\* looks it up, if there is one.
Redraw(v) ==
  LET f == frame[depth]
      S == seen[f.set][f.k]
  IN /\ depth > 0 /\ f.set # None /\ MoreTries(f)
     /\ \/ v \notin S /\ Note(f.set, f.k, S, v)
        \/ /\ v \in S
           /\ frame' = [frame EXCEPT ![depth].tries = NextTry(f)]
           /\ UNCHANGED <<objects, seen, given, depth, last>>

\* The last iteration has drawn: UniquenessException, whatever it drew.
GiveUp ==
  /\ depth > 0 /\ frame[depth].set # None /\ frame[depth].tries = Attempts
  /\ Leave("raised")
  /\ UNCHANGED <<seen, given>>

\* The formatter of the top call raises, and so does the wrapper.
FormatterRaises ==
  /\ depth > 0
  /\ Leave("raised")
  /\ UNCHANGED <<seen, given>>

-----------------------------------------------------------------------------
(* Proxies and their dicts                                                 *)

\* u.clear(): u starts another dict; whoever shares the old one keeps it.
Clear(u) ==
  /\ Live(u)
  /\ \E d \in Unused :
       /\ seenOf' = [seenOf EXCEPT ![u] = d]
       /\ seen' = [seen EXCEPT ![d] = [k \in Calls |-> {}]]
       /\ given' = [given EXCEPT ![d] = NoneGiven]
  /\ UNCHANGED <<sentinel, excluded, base, depth, frame, last>>

\* Mutant of Derive: the derived proxy keeps the sentinel it was made with.
DeriveOwnSentinel(u, w, T) ==
  /\ Live(u) /\ ~Live(w)
  /\ seenOf' = [seenOf EXCEPT ![w] = seenOf[u]]
  /\ \E s \in FreshSentinels : sentinel' = [sentinel EXCEPT ![w] = s]
  /\ excluded' = [excluded EXCEPT ![w] = T]
  /\ UNCHANGED <<base, seen, given, depth, frame, last>>

\* u.exclude_types(types), where T are the values of these types, and
\* u[locale], where T are those u excludes: another proxy w on the same dict
\* with the same sentinel.
Derive(u, w, T) ==
  /\ Live(u) /\ ~Live(w)
  /\ seenOf' = [seenOf EXCEPT ![w] = seenOf[u]]
  /\ sentinel' = [sentinel EXCEPT ![w] = sentinel[u]]
  /\ excluded' = [excluded EXCEPT ![w] = T]
  /\ UNCHANGED <<base, seen, given, depth, frame, last>>

\* A copied Faker has a proxy w of its own, with a sentinel s of its own, on a
\* dict d of its own that holds D.
CopyInto(w, d, s, D, G) ==
  /\ seenOf' = [seenOf EXCEPT ![w] = d]
  /\ sentinel' = [sentinel EXCEPT ![w] = s]
  /\ excluded' = [excluded EXCEPT ![w] = {}]
  /\ base' = base \cup {w}
  /\ seen' = [seen EXCEPT ![d] = D]
  /\ given' = [given EXCEPT ![d] = G]
  /\ UNCHANGED <<depth, frame, last>>

\* copy.deepcopy(fake): the keys survive, the values seen do not.
DeepCopy(u, w) ==
  /\ u \in base /\ ~Live(w)
  /\ \E d \in Unused, s \in FreshSentinels :
       CopyInto(w, d, s, [k \in Calls |-> IF seen[seenOf[u]][k] = {} THEN {} ELSE {s}],
                NoneGiven)

\* The set S as pickle restores it, where r is the sentinel and s its copy.
\* Mutant PickledEmpty: it comes back with the sentinel only.
PickledEmpty(S, r, s) == IF S = {} THEN {} ELSE {s}
Pickled(S, r, s) == {IF v = r THEN s ELSE v : v \in S}

\* pickle.loads(pickle.dumps(fake)): everything survives.
PickleRoundTrip(u, w) ==
  /\ u \in base /\ ~Live(w)
  /\ \E d \in Unused, s \in FreshSentinels :
       CopyInto(w, d, s, [k \in Calls |-> Pickled(seen[seenOf[u]][k], sentinel[u], s)],
                given[seenOf[u]])

Next ==
  \/ \E u \in Proxies, k \in Calls : Begin(u, k)
  \/ \E v \in Values : FirstDraw(v) \/ Redraw(v)
  \/ GiveUp \/ FormatterRaises
  \/ \E u \in Proxies : Clear(u)
  \/ \E u, w \in Proxies, T \in SUBSET Values : Derive(u, w, T)
  \/ \E u, w \in Proxies : DeepCopy(u, w) \/ PickleRoundTrip(u, w)

Spec == Init /\ [][Next]_vars

\* The formatter the n-th call waits for returns or raises in the end, also
\* when it uses the Faker again and again.
Answer(n) ==
  depth = n /\ (GiveUp \/ FormatterRaises \/ \E v \in Values : FirstDraw(v) \/ Redraw(v))

FairSpec == Spec /\ \A n \in 1..MaxDepth : SF_vars(Answer(n))

-----------------------------------------------------------------------------
(* Properties                                                              *)

\* Type correctness of the proxies, their dicts and the calls under way.
UniqueTypeOK ==
  /\ seenOf \in [Proxies -> Dicts \cup {None}]
  /\ sentinel \in [Proxies -> Sentinels \cup {None}]
  /\ excluded \in [Proxies -> SUBSET Values]
  /\ base \in SUBSET Proxies
  /\ seen \in [Dicts -> [Calls -> SUBSET (Values \cup Sentinels)]]
  /\ given \in [Dicts -> [Calls -> [Values -> Nat]]]
  /\ depth \in 0..MaxDepth
  /\ frame \in [1..MaxDepth -> Frame \cup {Idle}]
  /\ last \in Outcomes

\* However calls nest, and whoever clears, derives or copies meanwhile, no
\* value is handed out as new twice from one dict under one key: not by two
\* proxies that share it, and not before and after a pickle round trip.
NoRepeat == \A d \in Dicts, k \in Calls, v \in Values : given[d][k][v] <= 1

\* The sentinel that marks a set as taken never comes out of a proxy as a
\* value, whichever proxy made the set.
SentinelStaysInside == last # "sentinel"

\* No value is used up without having been handed out: a formatter that
\* raises, a call that gives up and one overtaken by clear note nothing.
NothingLost ==
  \A d \in InUse \ {None}, k \in Calls, v \in Values :
    v \in seen[d][k] <=> given[d][k][v] > 0

\* Every call ends, however few values its formatter has and whatever that
\* formatter calls.
CallsEnd == \A n \in 1..MaxDepth : depth = n ~> depth < n

\* UniqueProxy.exclude_types: "Return new UniqueProxy excluding specified types
\* from uniqueness checks": a value of an excluded type is never noted.
ExcludedNeverNoted == last # "noted exempt"
=============================================================================
