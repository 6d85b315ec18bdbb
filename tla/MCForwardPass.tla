---------------------------- MODULE MCForwardPass ----------------------------
(***************************************************************************)
(* Small instance of ForwardPass for TLC.                                  *)
(***************************************************************************)
EXTENDS ForwardPass

CONSTANTS a, b

MCToken == {a, b}
MCPrompts == {<<a>>, <<a, b>>}

Symmetry == Permutations(Slot) \union Permutations(Request)
=============================================================================
