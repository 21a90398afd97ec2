--------------------------- MODULE MCUniqueValues ---------------------------
(***************************************************************************)
(* UniqueValues on small sets.                                             *)
(***************************************************************************)
EXTENDS UniqueValues
=============================================================================
