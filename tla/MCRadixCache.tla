---------------------------- MODULE MCRadixCache ----------------------------
(***************************************************************************)
(* Instance of RadixCache for TLC.  A slot names who wrote it and the      *)
(* entry it was written for, so that a slot that ends up at another entry, *)
(* or under another writer, is a different map.                            *)
(***************************************************************************)
EXTENDS RadixCache

CONSTANTS a, b,         \* two tokens
          c1, c2,       \* two clients
          w1, w2        \* writers of inserts with different slots

MCToken == {a, b}
MCClient == {c1, c2}
MCSlot == {w1, w2} \X UNION {[1 .. n -> MCToken] : n \in 0 .. 3}

\* The empty key, and keys that fork and that extend one another.
ForkingKeys == {<<>>, <<a>>, <<a, b, a>>, <<a, b, b>>, <<b, b>>}

InsertsOf(keys, writers) ==
    {<<k, [n \in 1 .. Len(k) |-> <<w, SubSeq(k, 1, n)>>]>> : k \in keys, w \in writers}

Setup(policy, keys, inserts, priorities, clients, max_time) ==
    [policy |-> policy, keys |-> keys, inserts |-> inserts,
     priorities |-> priorities, clients |-> clients, max_time |-> max_time]

\* Two clients hold locks; every clock reading is equal, so that evict may
\* take the leaves in any order.
TwoHolders ==
    Setup("lru", ForkingKeys, InsertsOf(ForkingKeys, {w1}), {0}, MCClient, 0)

\* Two writers bring different slots for the same key.
TwoWriters ==
    LET keys == {<<a>>, <<a, b, a>>, <<a, b, b>>}
    IN  Setup("lru", keys, InsertsOf(keys, {w1, w2}), {0}, {c1}, 0)

\* Inserts of different priorities under the priority policy.
ThreePriorities ==
    LET keys == {<<a>>, <<a, b>>, <<b>>}
    IN  Setup("priority", keys, InsertsOf(keys, {w1}), {0, 1, 2}, {c1}, 0)

\* A clock that moves.
MovingClock ==
    LET keys == {<<a>>, <<a, b>>, <<b>>}
    IN  Setup("lru", keys, InsertsOf(keys, {w1}), {0}, {c1}, 2)

\* The other policies, with a clock that moves and nothing locked.
OtherPolicies ==
    LET keys == {<<a>>, <<a, b>>, <<b>>}
    IN  {Setup(policy, keys, InsertsOf(keys, {w1}), {0}, {}, 2)
            : policy \in {"lfu", "fifo", "filo", "mru"}}

MCSetups == {TwoHolders, TwoWriters, ThreePriorities, MovingClock} \union OtherPolicies
=============================================================================
