---------------------------- MODULE MCModelRunner ----------------------------
(***************************************************************************)
(* Small instances of ModelRunner for TLC.                                 *)
(***************************************************************************)
EXTENDS ModelRunner

CONSTANTS a, b

MCToken == {a, b}
MCPrompts == {<<a>>, <<a, a>>, <<a, b>>}

Symmetry == Permutations(Slot) \union Permutations(Request)
=============================================================================
