---------------------------- MODULE MCPrefixCache ----------------------------
(***************************************************************************)
(* An instance of PrefixCache for TLC: short keys that fork, two writers   *)
(* that bring different slots for them, two clients.                       *)
(***************************************************************************)
EXTENDS PrefixCache

CONSTANTS a, b

MCToken == {a, b}
MCKeys == {<<>>, <<a>>, <<a, a>>, <<a, b>>, <<b>>}
MCSlot == 1 .. 4
\* Writer 1 brings slots 1 and 2, writer 2 slots 3 and 4.
MCInserts ==
    {<<k, [n \in 1 .. Len(k) |-> 2 * w + n]>> : k \in MCKeys, w \in {0, 1}}
=============================================================================
