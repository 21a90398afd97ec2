------------------------------ MODULE Sampling ------------------------------
(***************************************************************************)
(* random_element_indices of base.rs, which answers random_elements,        *)
(* random_choices, random_sample and random_element, and lorem.rs words,     *)
(* which draws its words the same way: `length` of the indices 1..n, with    *)
(* replacement or not, weighted or not.  Every draw from the RNG is a step.  *)
(***************************************************************************)
EXTENDS Weights

CONSTANTS
  MaxItems,   \* bound on the length of a collection
  MaxWeight,  \* bound on a weight
  NoWeights,  \* weights = None
  AnyLength   \* length = None

ASSUME SamplingAssumption ==
  /\ MaxItems \in Nat /\ MaxWeight \in Nat
  /\ AnyLength \notin Int
  /\ NoWeights \notin Seq(Int)

VARIABLES
  sampling,  \* "idle", "drawing", "done" or "failed"
  request,   \* the call under way: [n, weights, length, unique]
  pool,      \* sample_indices: pool; weighted_unique: remaining
  drawn,     \* how many indices were drawn
  picked     \* the vector of indices that is returned

sampleVars == <<sampling, request, pool, drawn, picked>>

NoRequest == [n |-> 0, weights |-> NoWeights, length |-> 0, unique |-> FALSE]

SampleInit ==
  /\ sampling = "idle"
  /\ request = NoRequest
  /\ pool = <<>>
  /\ drawn = 0
  /\ picked = <<>>

\* Identity permutation, (0..len).collect().
Indices(n) == [i \in 1..n |-> i]

\* Weights of the items that the indices in p stand for.
WeightsOf(p, w) == [k \in 1..Len(p) |-> w[p[k]]]

Weighted == request.weights # NoWeights
Sampled == request.unique /\ ~Weighted

-----------------------------------------------------------------------------
\* The arguments for which random_element_indices gives an error.
Refused(n, w, length, unique) ==
  \/ w # NoWeights /\ Len(w) # n
  \/ length = AnyLength /\ n = 0
  \/ length # AnyLength /\ unique /\ length > n
  \/ length # AnyLength /\ length > 0 /\ n = 0
  \/ w # NoWeights /\ BadWeights(w)

\* The lengths it goes on with: a random one from 1 to n when there is none.
LengthsFor(n, length) == IF length = AnyLength THEN 1..n ELSE {length}

Start(n, w, length, unique) ==
  /\ sampling' = "drawing"
  /\ request' = [n |-> n, weights |-> w, length |-> length, unique |-> unique]
  /\ pool' = Indices(n)
  /\ UNCHANGED <<drawn, picked>>

Fail ==
  /\ sampling' = "failed"
  /\ UNCHANGED <<request, pool, drawn, picked>>

\* random_elements and its variants are called.
AskElements(n, w, length, unique) ==
  \/ Refused(n, w, length, unique) /\ Fail
  \/ /\ ~Refused(n, w, length, unique)
     /\ \E l \in LengthsFor(n, length) : Start(n, w, l, unique)

\* words(nb, unique) is called, on a list of n words: a negative nb is an error
\* when they are to be distinct, and none at all when not.
AskWords(n, nb, unique) ==
  LET length == IF nb < 0 /\ ~unique THEN 0 ELSE nb
  IN \/ (length < 0 \/ Refused(n, NoWeights, length, unique)) /\ Fail
     \/ /\ length >= 0 /\ ~Refused(n, NoWeights, length, unique)
        /\ Start(n, NoWeights, length, unique)

-----------------------------------------------------------------------------
MoreToDraw == sampling = "drawing" /\ drawn < request.length

\* With replacement, not weighted: index i, uniformly.
DrawUniform(i) ==
  /\ MoreToDraw /\ ~request.unique /\ ~Weighted
  /\ picked' = Append(picked, i)
  /\ drawn' = drawn + 1
  /\ UNCHANGED <<sampling, request, pool>>

\* weighted_choices, one round: the draw is x.
DrawWeighted(x) ==
  /\ MoreToDraw /\ ~request.unique /\ Weighted
  /\ x \in DrawsUpTo(TotalWeight(request.weights))
  /\ picked' = Append(picked, Bisect(Cumulative(request.weights), request.n, x))
  /\ drawn' = drawn + 1
  /\ UNCHANGED <<sampling, request, pool>>

\* pool.swap(i, j).  Mutant Overwritten: one of the two assignments is missing.
Overwritten(p, i, j) == [p EXCEPT ![i] = p[j]]
Swapped(p, i, j) == [p EXCEPT ![i] = p[j], ![j] = p[i]]

\* sample_indices, one round of Fisher-Yates: position drawn + 1 gets the
\* index at j, which is there or further on.
Swap(j) ==
  /\ MoreToDraw /\ Sampled
  /\ j > drawn
  /\ pool' = Swapped(pool, drawn + 1, j)
  /\ drawn' = drawn + 1
  /\ UNCHANGED <<sampling, request, picked>>

\* remaining.remove(k)
Without(p, k) == [i \in 1..(Len(p) - 1) |-> IF i < k THEN p[i] ELSE p[i + 1]]

\* weighted_unique, one round: the draw x is used up from the front of what
\* remains; the item it ends in is taken out, the last if it ends in none.
Take(x) ==
  LET w == WeightsOf(pool, request.weights)
      k == Bisect(Cumulative(w), Len(pool), x)
  IN /\ MoreToDraw /\ request.unique /\ Weighted
     /\ x \in DrawsUpTo(TotalWeight(w))
     /\ picked' = Append(picked, pool[k])
     /\ pool' = Without(pool, k)
     /\ drawn' = drawn + 1
     /\ UNCHANGED <<sampling, request>>

\* All is drawn; sample_indices truncates its pool.
Finish ==
  /\ sampling = "drawing" /\ drawn = request.length
  /\ sampling' = "done"
  /\ picked' = IF Sampled THEN SubSeq(pool, 1, drawn) ELSE picked
  /\ UNCHANGED <<request, pool, drawn>>

\* Mutant of GotIndices: the vector of the last call is not a new one.
GotIndicesKept ==
  /\ sampling \in {"done", "failed"}
  /\ sampling' = "idle"
  /\ request' = NoRequest
  /\ pool' = <<>> /\ drawn' = 0
  /\ UNCHANGED picked

\* The caller has its answer.
GotIndices ==
  /\ sampling \in {"done", "failed"}
  /\ sampling' = "idle"
  /\ request' = NoRequest
  /\ pool' = <<>> /\ picked' = <<>> /\ drawn' = 0

-----------------------------------------------------------------------------
WeightVectors ==
  {NoWeights} \cup UNION {[1..k -> (-1)..MaxWeight] : k \in 0..MaxItems}
Lengths == {AnyLength} \cup 0..(MaxItems + 1)

SampleStep ==
  \/ \E i \in 1..request.n : DrawUniform(i)
  \/ \E x \in 0..(MaxItems * MaxWeight) : DrawWeighted(x) \/ Take(x)
  \/ \E j \in 1..request.n : Swap(j)
  \/ Finish

SampleNext ==
  \/ /\ sampling = "idle"
     /\ \/ \E n \in 0..MaxItems, w \in WeightVectors, length \in Lengths, unique \in BOOLEAN :
             AskElements(n, w, length, unique)
        \/ \E n \in 0..MaxItems, nb \in (-1)..(MaxItems + 1), unique \in BOOLEAN :
             AskWords(n, nb, unique)
  \/ SampleStep
  \/ GotIndices

SampleSpec == SampleInit /\ [][SampleNext]_sampleVars

-----------------------------------------------------------------------------
(* Properties                                                              *)

\* Type correctness of a call under way.
SampleTypeOK ==
  /\ sampling \in {"idle", "drawing", "done", "failed"}
  /\ request \in [n : 0..MaxItems, weights : WeightVectors,
                  length : 0..(MaxItems + 1), unique : BOOLEAN]
  /\ pool \in Seq(1..request.n) /\ Len(pool) <= request.n
  /\ picked \in Seq(1..request.n)
  /\ drawn \in 0..request.length

\* A unique call that succeeds gives as many indices as it was asked for, each
\* that of an item, and no index twice; weights make no difference to that.
DistinctPicks ==
  sampling = "done" =>
    /\ Len(picked) = request.length
    /\ \A a \in 1..Len(picked) : picked[a] \in 1..request.n
    /\ request.unique =>
         \A a, b \in 1..Len(picked) : a # b => picked[a] # picked[b]

\* An item of weight zero is never chosen with replacement; without, it is
\* taken only once no item with a weight is left.
ZeroWeightLast ==
  sampling = "done" /\ Weighted =>
    \A a \in 1..Len(picked) : request.weights[picked[a]] = 0 =>
      /\ request.unique
      /\ \A b \in (a + 1)..Len(picked) : request.weights[picked[b]] = 0
      /\ \A k \in 1..Len(pool) : request.weights[pool[k]] = 0

-----------------------------------------------------------------------------
(* The inductive invariant behind DistinctPicks.                             *)

Injective(p) == \A a, b \in 1..Len(p) : a # b => p[a] # p[b]
Apart(p, q) == \A a \in 1..Len(p), b \in 1..Len(q) : p[a] # q[b]

\* Nothing is left of the last call.
Fresh == request = NoRequest /\ drawn = 0 /\ picked = <<>>

\* Without weights the pool stays a permutation, and nothing is picked from it
\* before it is truncated; with weights every index is in the pool or picked.
UniqueInv ==
  /\ request.length <= request.n
  /\ Injective(pool)
  /\ IF Weighted
       THEN /\ Len(pool) = request.n - drawn /\ Len(picked) = drawn
            /\ Injective(picked) /\ Apart(picked, pool)
       ELSE /\ Len(pool) = request.n
            /\ sampling = "drawing" => picked = <<>>

SampleInv ==
  /\ SampleTypeOK
  /\ sampling \in {"idle", "failed"} => Fresh
  /\ sampling = "drawing" /\ request.length > 0 => request.n > 0
  /\ sampling = "drawing" /\ request.unique => UniqueInv
  /\ sampling = "drawing" /\ ~request.unique => Len(picked) = drawn
  /\ DistinctPicks
=============================================================================
