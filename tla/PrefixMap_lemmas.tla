--------------------------- MODULE PrefixMap_lemmas ---------------------------
(***************************************************************************)
(* Facts about the operators of PrefixMap, for every set of tokens.        *)
(***************************************************************************)
EXTENDS PrefixMap, SequenceTheorems, WellFoundedInduction, TLAPS

\* A non-empty set of numbers of 0 .. n has a greatest element, and Max is it.
\* It is the mirror image of the least-number principle.
LEMMA MaxOfBoundedSet ==
    ASSUME NEW n \in Nat, NEW S \in SUBSET (0 .. n), S # {}
    PROVE  Max(S) \in S /\ \A y \in S : Max(S) >= y
<1> DEFINE T == {n - x : x \in S}
<1>1. T \subseteq Nat /\ T # {}
    OBVIOUS
<1>2. PICK m \in T : \A y \in T : <<y, m>> \notin OpToRel(<, Nat)
    <2> HIDE DEF T
    <2> QED BY <1>1, WFMin, NatLessThanWellFounded
<1>3. \A y \in T : m <= y
    <2> HIDE DEF T
    <2> TAKE y \in T
    <2>1. y \in Nat /\ m \in Nat
        BY <1>1
    <2>2. y < m => <<y, m>> \in OpToRel(<, Nat)
        BY <2>1, Zenon DEF OpToRel
    <2>3. ~ (y < m)
        BY <1>2, <2>2, Zenon
    <2> QED BY <2>1, <2>3
<1>4. PICK x \in S : m = n - x
    OBVIOUS
<1>5. \A y \in S : x >= y
    <2> TAKE y \in S
    <2>1. n - y \in T
        OBVIOUS
    <2>2. n - x <= n - y
        <3> HIDE DEF T
        <3> QED BY <1>3, <1>4, <2>1
    <2>3. x \in Nat /\ y \in Nat
        OBVIOUS
    <2> HIDE DEF T
    <2> QED BY <2>2, <2>3
<1>6. \E z \in S : \A y \in S : z >= y
    BY <1>5
<1> QED BY <1>6 DEF Max

\* A prefix of a key: its type, its length, its tokens.
LEMMA TakeProperties ==
    ASSUME NEW S, NEW key \in Seq(S), NEW n \in 0 .. Len(key)
    PROVE  /\ Take(key, n) \in Seq(S)
           /\ Len(Take(key, n)) = n
           /\ \A i \in 1 .. n : Take(key, n)[i] = key[i]
<1>1. \A i \in 1 .. n : key[i] \in S
    BY ElementOfSeq, LenProperties
<1>2. n \in Int /\ Len(key) \in Nat
    BY LenProperties
<1> QED BY <1>1, <1>2, SubSeqProperties DEF Take

\* A prefix of a prefix is the prefix of that length.
LEMMA TakeOfTake ==
    ASSUME NEW S, NEW key \in Seq(S), NEW n \in 0 .. Len(key), NEW m \in 0 .. n
    PROVE  Take(Take(key, n), m) = Take(key, m)
<1>1. Len(key) \in Nat
    BY LenProperties
<1>2. /\ Take(key, n) \in Seq(S) /\ Len(Take(key, n)) = n
      /\ \A i \in 1 .. n : Take(key, n)[i] = key[i]
    BY TakeProperties
<1>3. /\ Take(key, m) \in Seq(S) /\ Len(Take(key, m)) = m
      /\ \A i \in 1 .. m : Take(key, m)[i] = key[i]
    <2>1. m \in 0 .. Len(key)
        BY <1>1
    <2> QED BY <2>1, TakeProperties
<1>4. /\ Take(Take(key, n), m) \in Seq(S) /\ Len(Take(Take(key, n), m)) = m
      /\ \A i \in 1 .. m : Take(Take(key, n), m)[i] = Take(key, n)[i]
    BY <1>2, TakeProperties
<1> HIDE DEF Take
<1> QED BY <1>1, <1>2, <1>3, <1>4, SeqEqual

\* The prefixes of a key are non-empty sequences of its tokens.
LEMMA PrefixesOfType ==
    ASSUME NEW S, NEW key \in Seq(S), NEW p \in PrefixesOf(key)
    PROVE  /\ p \in Seq(S) \ {<<>>}
           /\ Len(p) \in 1 .. Len(key)
           /\ p = Take(key, Len(p))
<1>1. Len(key) \in Nat
    BY LenProperties
<1>2. PICK n \in 1 .. Len(key) : p = Take(key, n)
    BY DEF PrefixesOf
<1>3. p \in Seq(S) /\ Len(p) = n
    BY <1>1, <1>2, TakeProperties
<1>4. p # <<>>
    BY <1>2, <1>3, EmptySeq
<1> QED BY <1>2, <1>3, <1>4

\* The prefixes of a prefix of a key are prefixes of the key.
LEMMA PrefixesOfPrefix ==
    ASSUME NEW S, NEW key \in Seq(S), NEW p \in PrefixesOf(key)
    PROVE  PrefixesOf(p) \subseteq PrefixesOf(key)
<1>1. Len(key) \in Nat
    BY LenProperties
<1>2. Len(p) \in 1 .. Len(key) /\ p = Take(key, Len(p))
    BY PrefixesOfType
<1>3. ASSUME NEW m \in 1 .. Len(p) PROVE Take(p, m) = Take(key, m)
    <2>1. Len(p) \in 0 .. Len(key) /\ m \in 0 .. Len(p)
        BY <1>1, <1>2, <1>3
    <2> QED BY <1>2, <2>1, TakeOfTake
<1> QED BY <1>1, <1>2, <1>3 DEF PrefixesOf

\* A non-empty key is one of its own prefixes.
LEMMA KeyIsPrefixOfItself ==
    ASSUME NEW S, NEW key \in Seq(S), key # <<>>
    PROVE  key \in PrefixesOf(key)
<1>1. Len(key) \in Nat \ {0}
    BY EmptySeq
<1>2. key = Take(key, Len(key))
    BY SubSeqFull DEF Take
<1> QED BY <1>1, <1>2 DEF PrefixesOf

\* PrefixesOf is IsPrefix without the empty sequence.
LEMMA PrefixesOfIsPrefix ==
    ASSUME NEW S, NEW p \in Seq(S), NEW q \in Seq(S), p # <<>>
    PROVE  IsPrefix(p, q) <=> p \in PrefixesOf(q)
<1>1. Len(p) \in Nat \ {0} /\ Len(q) \in Nat
    BY EmptySeq, LenProperties
<1>2. SubSeq(p, 1, Len(p)) = p
    BY SubSeqFull
<1>3. ASSUME IsPrefix(p, q) PROVE p \in PrefixesOf(q)
    <2>1. p = Take(q, Len(p))
        BY <1>2, <1>3 DEF IsPrefix, Take
    <2>2. Len(p) \in 1 .. Len(q)
        BY <1>1, <1>3 DEF IsPrefix
    <2> QED BY <2>1, <2>2 DEF PrefixesOf
<1>4. ASSUME p \in PrefixesOf(q) PROVE IsPrefix(p, q)
    BY <1>1, <1>2, <1>4, PrefixesOfType DEF IsPrefix, Take
<1> QED BY <1>3, <1>4

-----------------------------------------------------------------------------
\* What a match finds: a cached prefix, with every prefix of its own cached,
\* and no longer one.
LEMMA MatchProperties ==
    ASSUME NEW S, NEW key \in Seq(S), NEW cached, IsPrefixClosed(cached)
    PROVE  /\ MatchLen(cached, key) \in 0 .. Len(key)
           /\ MatchedKey(cached, key) \in Seq(S)
           /\ Len(MatchedKey(cached, key)) = MatchLen(cached, key)
           /\ PrefixesOf(MatchedKey(cached, key)) \subseteq DOMAIN cached
           /\ \A n \in 1 .. Len(key) :
                Take(key, n) \in DOMAIN cached => n <= MatchLen(cached, key)
<1> DEFINE hits == {0} \union {n \in 1 .. Len(key) : Take(key, n) \in DOMAIN cached}
<1>1. Len(key) \in Nat
    BY LenProperties
<1>2. hits \in SUBSET (0 .. Len(key)) /\ hits # {}
    BY <1>1
<1>3. MatchLen(cached, key) \in hits /\ \A y \in hits : MatchLen(cached, key) >= y
    <2>1. MatchLen(cached, key) = Max(hits)
        BY DEF MatchLen
    <2> HIDE DEF hits
    <2> QED BY <1>1, <1>2, <2>1, MaxOfBoundedSet
<1>4. MatchLen(cached, key) \in 0 .. Len(key)
    BY <1>1, <1>3
<1>5. /\ MatchedKey(cached, key) \in Seq(S)
      /\ Len(MatchedKey(cached, key)) = MatchLen(cached, key)
    BY <1>4, TakeProperties DEF MatchedKey
<1>6. PrefixesOf(MatchedKey(cached, key)) \subseteq DOMAIN cached
    <2>1. CASE MatchLen(cached, key) = 0
        <3>1. 1 .. Len(MatchedKey(cached, key)) = {}
            BY <1>5, <2>1
        <3> QED BY <3>1 DEF PrefixesOf
    <2>2. CASE MatchLen(cached, key) # 0
        <3>1. MatchedKey(cached, key) \in DOMAIN cached
            BY <1>3, <2>2 DEF MatchedKey
        <3> QED BY <3>1 DEF IsPrefixClosed
    <2> QED BY <2>1, <2>2
<1>7. ASSUME NEW n \in 1 .. Len(key), Take(key, n) \in DOMAIN cached
      PROVE  n <= MatchLen(cached, key)
    <2>1. n \in hits
        BY <1>7
    <2> HIDE DEF hits
    <2> QED BY <1>1, <1>3, <1>4, <2>1
<1> HIDE DEF hits
<1> QED BY <1>4, <1>5, <1>6, <1>7

\* insert adds the prefixes of its key and keeps every slot already there.
LEMMA InsertProperties ==
    ASSUME NEW S, NEW V, NEW key \in Seq(S), NEW value \in Seq(V),
           Len(value) = Len(key), NEW cached, cached \in [DOMAIN cached -> V],
           DOMAIN cached \subseteq Seq(S) \ {<<>>}, IsPrefixClosed(cached)
    PROVE  LET result == Inserted(cached, key, value)
           IN  /\ DOMAIN result \subseteq Seq(S) \ {<<>>}
               /\ DOMAIN cached \subseteq DOMAIN result
               /\ result \in [DOMAIN result -> V]
               /\ IsPrefixClosed(result)
               /\ \A p \in DOMAIN cached : result[p] = cached[p]
<1> DEFINE result == Inserted(cached, key, value)
<1>1. /\ DOMAIN result = DOMAIN cached \union PrefixesOf(key)
      /\ \A p \in DOMAIN result :
            result[p] = IF p \in DOMAIN cached THEN cached[p] ELSE value[Len(p)]
    BY DEF Inserted
<1>2. DOMAIN result \subseteq Seq(S) \ {<<>>}
    BY <1>1, PrefixesOfType
<1>3. ASSUME NEW p \in DOMAIN result PROVE result[p] \in V
    <2>1. CASE p \in DOMAIN cached
        BY <1>1, <2>1
    <2>2. CASE p \notin DOMAIN cached
        <3>1. Len(p) \in 1 .. Len(value)
            BY <1>1, <2>2, PrefixesOfType
        <3>2. value[Len(p)] \in V
            BY <3>1, ElementOfSeq
        <3> QED BY <1>1, <2>2, <3>2
    <2> QED BY <2>1, <2>2
<1>4. result \in [DOMAIN result -> V]
    BY <1>1, <1>3 DEF Inserted
<1>5. ASSUME NEW p \in DOMAIN result PROVE PrefixesOf(p) \subseteq DOMAIN result
    <2>1. CASE p \in DOMAIN cached
        BY <1>1, <2>1 DEF IsPrefixClosed
    <2>2. CASE p \in PrefixesOf(key)
        BY <1>1, <2>2, PrefixesOfPrefix
    <2> QED BY <1>1, <2>1, <2>2
<1>6. IsPrefixClosed(result)
    BY <1>5 DEF IsPrefixClosed
<1>7. \A p \in DOMAIN cached : result[p] = cached[p]
    BY <1>1
<1> QED BY <1>1, <1>2, <1>4, <1>6, <1>7

\* An eviction leaves a prefix-closed map, in which what is left keeps its
\* slot, and drops nothing that a pin protects.
LEMMA EvictProperties ==
    ASSUME NEW S, NEW T, NEW cached, cached \in [DOMAIN cached -> T],
           DOMAIN cached \subseteq Seq(S) \ {<<>>}, IsPrefixClosed(cached),
           NEW pins, pins \subseteq Seq(S), NEW n, NEW V,
           V \in EvictionSets(cached, pins, n)
    PROVE  LET result == Evicted(cached, V)
           IN  /\ DOMAIN result = DOMAIN cached \ V
               /\ result \in [DOMAIN result -> T]
               /\ IsPrefixClosed(result)
               /\ \A p \in DOMAIN result : result[p] = cached[p]
               /\ \A q \in pins : PrefixesOf(q) \subseteq DOMAIN cached
                        => PrefixesOf(q) \subseteq DOMAIN result
<1> DEFINE result == Evicted(cached, V)
<1>1. /\ DOMAIN result = DOMAIN cached \ V
      /\ \A p \in DOMAIN result : result[p] = cached[p]
      /\ result \in [DOMAIN result -> T]
    BY DEF Evicted, Restrict
<1>2. /\ V \subseteq DOMAIN cached
      /\ V \intersect PinnedEntries(cached, pins) = {}
      /\ \A p \in V, q \in DOMAIN cached : IsPrefix(p, q) => q \in V
    BY DEF EvictionSets, EvictableEntries
<1>3. ASSUME NEW q \in DOMAIN result, NEW p \in PrefixesOf(q)
      PROVE  p \in DOMAIN result
    <2>1. q \in DOMAIN cached /\ q \notin V /\ q \in Seq(S)
        BY <1>1
    <2>2. p \in DOMAIN cached
        BY <2>1 DEF IsPrefixClosed
    <2>3. IsPrefix(p, q)
        BY <2>1, <2>2, PrefixesOfIsPrefix
    <2> QED BY <1>1, <1>2, <2>1, <2>2, <2>3
<1>4. IsPrefixClosed(result)
    BY <1>3 DEF IsPrefixClosed
<1>5. ASSUME NEW q \in pins, PrefixesOf(q) \subseteq DOMAIN cached,
             NEW p \in PrefixesOf(q)
      PROVE  p \in DOMAIN result
    <2>1. p \in DOMAIN cached /\ p \in Seq(S) /\ p # <<>>
        BY <1>5
    <2>2. IsPrefix(p, q)
        BY <2>1, PrefixesOfIsPrefix
    <2>3. p \in PinnedEntries(cached, pins)
        BY <2>1, <2>2 DEF PinnedEntries
    <2> QED BY <1>1, <1>2, <2>1, <2>3
<1> QED BY <1>1, <1>4, <1>5
=============================================================================
