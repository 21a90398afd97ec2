-------------------------- MODULE MCFormatterCache --------------------------
(***************************************************************************)
(* FormatterCache on small sets.  The name n1 is compiled into the core and *)
(* overridden by provider v1; n2 is compiled in and overridden by nobody.   *)
(***************************************************************************)
EXTENDS FormatterCache, TLC

CONSTANTS n1, n2, v1

MCMethods == [v \in Providers |-> {n1}]

Symmetric == Permutations(Gens) \cup Permutations(Proxies) \cup Permutations(Cores) \cup Permutations(Keys)
=============================================================================
