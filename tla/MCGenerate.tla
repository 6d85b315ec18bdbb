------------------------------ MODULE MCGenerate ------------------------------
(***************************************************************************)
(* Small instance of Generate for TLC.                                     *)
(***************************************************************************)
EXTENDS Generate

CONSTANTS a, b

MCToken == {a, b}
MCPrompts == {<<a>>, <<a, b>>}

\* Greedy after an odd number of tokens, a choice after an even one; what is
\* chosen depends on the whole context, through its first and last token.
MCSamples(s) ==
    IF Len(s) % 2 = 0 THEN Token ELSE IF s[1] = Last(s) THEN {a} ELSE {b}

MCStopSets == {{}, {b}}
=============================================================================
