------------------------------ MODULE PrefixMap ------------------------------
(***************************************************************************)
(* What a radix cache stores, seen from outside: a partial map from        *)
(* non-empty token sequences to KV slots.  Entry p |-> v says that the     *)
(* KV data of the last token of p, computed in the context of p, is in     *)
(* slot v.  The tree of RadixCache is one representation of such a map;    *)
(* the operators below are what each call of radix_cache.py does to it.    *)
(*                                                                         *)
(* In this module and in the others, an operator X_Y is the operator X     *)
(* with a plausible mistake, and stands just before it.  No specification  *)
(* uses it: each property of each run is known to fail when one of these   *)
(* takes the place of the operator it is named after.                      *)
(*                                                                         *)
(* The module declares nothing and uses no recursion, so that both TLC and *)
(* the proofs can use it.                                                  *)
(***************************************************************************)
EXTENDS SequencesExt

\* key[:n]
Take(key, n) == SubSeq(key, 1, n)

\* The non-empty prefixes of a key: the entries a call with that key concerns.
PrefixesOf(key) == {Take(key, n) : n \in 1..Len(key)}

EmptyMap == <<>>    \* the map with no entry: its domain is {}

\* How many leading tokens of key are cached: the total length of the nodes
\* that match_prefix walks, counting the matched part of the one it splits.
MatchLen(cached, key) ==
    Max({0} \union {n \in 1..Len(key) : Take(key, n) \in DOMAIN cached})

\* The longest cached prefix of a key; <<>> stands for the root.
MatchedKey(cached, key) == Take(key, MatchLen(cached, key))

\* MatchResult.device_indices: the slots along the matched path.
MatchedSlots(cached, key) ==
    [n \in 1..MatchLen(cached, key) |-> cached[Take(key, n)]]

Inserted_Overwrites(cached, key, value) ==      \* the last writer wins
    [p \in DOMAIN cached \union PrefixesOf(key) |->
        IF p \in PrefixesOf(key) THEN value[Len(p)] ELSE cached[p]]
Inserted_UncutValue(cached, key, value) ==      \* value = value[prefix_len:] forgotten
    [p \in DOMAIN cached \union PrefixesOf(key) |->
        IF p \in DOMAIN cached THEN cached[p]
        ELSE value[Len(p) - MatchLen(cached, key)]]
Inserted_NoExtension(cached, key, value) ==     \* returns once a prefix matched
    IF MatchLen(cached, key) > 0 THEN cached
    ELSE [p \in DOMAIN cached \union PrefixesOf(key) |->
            IF p \in DOMAIN cached THEN cached[p] ELSE value[Len(p)]]

\* insert: entries that exist keep their slot, missing ones take it from value.
Inserted(cached, key, value) ==
    [p \in DOMAIN cached \union PrefixesOf(key) |->
        IF p \in DOMAIN cached THEN cached[p] ELSE value[Len(p)]]

\* Entries some pin protects: lock_ref > 0 on the node that holds them, since
\* inc_lock_ref counts on a node and on all its ancestors.
PinnedEntries(cached, pins) ==
    {p \in DOMAIN cached : \E q \in pins : IsPrefix(p, q)}

EvictableEntries(cached, pins) == DOMAIN cached \ PinnedEntries(cached, pins)

EvictionSets_InnerNodes(cached, pins, n) ==     \* not only leaves
    {V \in SUBSET EvictableEntries(cached, pins) :
        Cardinality(V) >= n \/ V = EvictableEntries(cached, pins)}
EvictionSets_Locked(cached, pins, n) ==         \* lock_ref not looked at
    {V \in SUBSET DOMAIN cached :
        \A p \in V, q \in DOMAIN cached : IsPrefix(p, q) => q \in V}

\* The sets of entries one evict(n) may drop: leaves first, so that with an
\* entry go all its extensions; never a pinned entry; at least n entries
\* whenever that many can be dropped, and none when none is asked for.
EvictionSets(cached, pins, n) ==
    {V \in SUBSET EvictableEntries(cached, pins) :
        /\ \A p \in V, q \in DOMAIN cached : IsPrefix(p, q) => q \in V
        /\ \/ Cardinality(V) >= n
           \/ V = EvictableEntries(cached, pins)
        /\ n = 0 => V = {}}

Evicted(cached, V) == Restrict(cached, DOMAIN cached \ V)

\* Every prefix of an entry is an entry.
IsPrefixClosed(cached) == \A p \in DOMAIN cached : PrefixesOf(p) \subseteq DOMAIN cached
=============================================================================
