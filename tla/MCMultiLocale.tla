---------------------------- MODULE MCMultiLocale ----------------------------
(***************************************************************************)
(* MultiLocale with two locales, which en_US data serves alike: one key.    *)
(***************************************************************************)
EXTENDS MultiLocale, TLC

CONSTANTS en, de, us

MCKeyOf == [l \in {en, de} |-> us]
MCWeight == [l \in {en, de} |-> IF l = en THEN 0 ELSE 1]

MCSymmetry == Permutations(Multis)
==============================================================================
