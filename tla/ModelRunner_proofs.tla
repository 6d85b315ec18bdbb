-------------------------- MODULE ModelRunner_proofs --------------------------
(***************************************************************************)
(* The KV data of the cache and of every active request is right, for any  *)
(* number of slots, requests and tokens, any prompts and any length, with  *)
(* forward passes that may fail, provided nothing is evicted while a       *)
(* request is active.  (Without the proviso it is not: see the run         *)
(* runner_evict.)                                                          *)
(***************************************************************************)
EXTENDS ModelRunner, PrefixMap_lemmas

\* What holds of the cache whatever is evicted and whenever: its entries lead
\* to the right data, none of their slots is free, and it is prefix-closed, so
\* that every slot a match returns belongs to an entry.
CacheInv ==
    /\ TypeOK
    /\ IsPrefixClosed(cached)
    /\ CacheCoherent
    /\ free \intersect CacheSlots = {}

\* What holds of a request as long as no eviction has taken slots from it.
Intact(r) ==
    /\ r \in Active
    /\ ContextIntact(requests[r].all_slot_indices, Tokens(requests[r]),
                     Len(Tokens(requests[r])))
    /\ free \intersect UsedBy(r) = {}

\* The invariant.
IInv == CacheInv /\ \A r \in Active : Intact(r)

\* What a forward pass leaves in the pool, when what it reads is right and no
\* two of the tokens it computes go to one slot.
LEMMA ForwardProperties ==
    ASSUME kv \in [Slot -> Seq(Token)],
           NEW key \in Seq(Token), NEW slots \in Seq(Slot), Len(slots) = Len(key),
           NEW m \in 0 .. Len(key), ContextIntact(slots, key, m),
           \A i, j \in (m + 1) .. Len(key) : slots[i] = slots[j] => i = j
    PROVE  LET after == Forward(slots, key, m)
           IN  /\ after \in [Slot -> Seq(Token)]
               /\ \A i \in (m + 1) .. Len(key) : after[slots[i]] = Take(key, i)
               /\ \A s \in Slot : (\A i \in (m + 1) .. Len(key) : slots[i] # s)
                        => after[s] = kv[s]
<1> DEFINE new == (m + 1) .. Len(key)
           after == Forward(slots, key, m)
           Pick(s) == CHOOSE i \in new : slots[i] = s
<1>1. Len(key) \in Nat /\ \A i \in new : i \in 0 .. Len(key) /\ i \in 1 .. Len(slots)
    BY LenProperties
<1>2. \A i \in new : slots[i] \in Slot /\ Take(key, i) \in Seq(Token)
    BY <1>1, ElementOfSeq, TakeProperties
<1>3. after = [s \in Slot |-> IF \E i \in new : slots[i] = s
                              THEN Take(key, Pick(s)) ELSE kv[s]]
    BY DEF Forward
<1> HIDE DEF new, after
<1>4. ASSUME NEW i \in new PROVE after[slots[i]] = Take(key, i)
    <2>1. Pick(slots[i]) \in new /\ slots[Pick(slots[i])] = slots[i]
        OBVIOUS
    <2>2. Pick(slots[i]) = i
        BY <2>1 DEF new
    <2> QED BY <1>2, <1>3, <2>2
<1>5. ASSUME NEW s \in Slot, \A i \in new : slots[i] # s PROVE after[s] = kv[s]
    BY <1>3, <1>5
<1>6. ASSUME NEW s \in Slot PROVE after[s] \in Seq(Token)
    <2>1. CASE \E i \in new : slots[i] = s
        BY <1>2, <1>4, <2>1
    <2>2. CASE ~ \E i \in new : slots[i] = s
        BY <1>5, <2>2
    <2> QED BY <2>1, <2>2
<1>7. after \in [Slot -> Seq(Token)]
    <2>1. after = [s \in Slot |-> after[s]]
        BY <1>3
    <2> QED BY <1>6, <2>1
<1> QED BY <1>4, <1>5, <1>7 DEF new, after

\* The common part of a prefill and a decode: a forward pass over slots whose
\* first m are in use and right, and whose others were just allocated or are
\* written again with what they hold; then the insert of the key.
LEMMA StoreAndInsert ==
    ASSUME CacheInv,
           NEW key \in Seq(Token), NEW slots \in Seq(Slot), Len(slots) = Len(key),
           NEW m \in 0 .. Len(key), ContextIntact(slots, key, m),
           \A i \in 1 .. m : slots[i] \notin free,
           \A i \in (m + 1) .. Len(key) :
                slots[i] \in free \/ kv[slots[i]] = Take(key, i),
           \A i, j \in (m + 1) .. Len(key) : slots[i] = slots[j] => i = j,
           free' = free \ ToSet(slots),
           kv' = Forward(slots, key, m),
           cached' = Inserted(cached, key, slots)
    PROVE  /\ kv' \in [Slot -> Seq(Token)]
           /\ DOMAIN cached' \subseteq Seq(Token) \ {<<>>}
           /\ cached' \in [DOMAIN cached' -> Slot]
           /\ DOMAIN cached \subseteq DOMAIN cached'
           /\ PrefixesOf(key) \subseteq DOMAIN cached'
           /\ IsPrefixClosed(cached')
           /\ CacheCoherent'
           /\ \A s \in Slot \ free : kv'[s] = kv[s]
           /\ \A i \in 1 .. Len(key) : kv'[slots[i]] = Take(key, i)
           /\ free' \intersect CacheSlots' = {}
<1>1. /\ kv \in [Slot -> Seq(Token)]
      /\ DOMAIN cached \subseteq Seq(Token) \ {<<>>}
      /\ cached \in [DOMAIN cached -> Slot]
      /\ IsPrefixClosed(cached)
    BY DEF CacheInv, TypeOK
<1>2. /\ kv' \in [Slot -> Seq(Token)]
      /\ \A i \in (m + 1) .. Len(key) : kv'[slots[i]] = Take(key, i)
      /\ \A s \in Slot : (\A i \in (m + 1) .. Len(key) : slots[i] # s) => kv'[s] = kv[s]
    <2> DEFINE after == Forward(slots, key, m)
    <2>1. /\ after \in [Slot -> Seq(Token)]
          /\ \A i \in (m + 1) .. Len(key) : after[slots[i]] = Take(key, i)
          /\ \A s \in Slot : (\A i \in (m + 1) .. Len(key) : slots[i] # s)
                => after[s] = kv[s]
        BY <1>1, ForwardProperties
    <2>2. kv' = after
        OBVIOUS
    <2> HIDE DEF after
    <2> QED BY <2>1, <2>2
<1>3. Len(key) \in Nat
    BY LenProperties
<1>4. \A i \in 1 .. Len(key) : slots[i] \in Slot /\ slots[i] \in ToSet(slots)
    BY ElementOfSeq, LenProperties DEF ToSet
<1>5. ASSUME NEW s \in Slot \ free PROVE kv'[s] = kv[s]
    <2>1. CASE \E i \in (m + 1) .. Len(key) : slots[i] = s
        BY <1>2, <2>1
    <2>2. CASE \A i \in (m + 1) .. Len(key) : slots[i] # s
        BY <1>2, <2>2
    <2> QED BY <2>1, <2>2
<1>6. ASSUME NEW i \in 1 .. Len(key) PROVE kv'[slots[i]] = Take(key, i)
    <2>1. CASE i \in 1 .. m
        <3>1. kv[slots[i]] = Take(key, i)
            BY <2>1 DEF ContextIntact
        <3> QED BY <1>4, <1>5, <2>1, <3>1
    <2>2. CASE i \notin 1 .. m
        <3>1. i \in (m + 1) .. Len(key)
            BY <1>3, <2>2
        <3> QED BY <1>2, <3>1
    <2> QED BY <2>1, <2>2
<1>7. /\ DOMAIN cached' \subseteq Seq(Token) \ {<<>>}
      /\ DOMAIN cached \subseteq DOMAIN cached'
      /\ cached' \in [DOMAIN cached' -> Slot]
      /\ IsPrefixClosed(cached')
      /\ \A p \in DOMAIN cached : cached'[p] = cached[p]
    BY <1>1, InsertProperties, ZenonT(60)
<1>8. /\ PrefixesOf(key) \subseteq DOMAIN cached'
      /\ \A p \in DOMAIN cached' \ DOMAIN cached :
            p \in PrefixesOf(key) /\ cached'[p] = slots[Len(p)]
    BY DEF Inserted
<1>9. ASSUME NEW p \in DOMAIN cached'
      PROVE  kv'[cached'[p]] = p /\ cached'[p] \notin free'
    <2>1. CASE p \in DOMAIN cached
        <3>1. kv[cached[p]] = p /\ cached[p] \in Slot \ free
            BY <1>1, <2>1 DEF CacheInv, CacheCoherent, CacheSlots
        <3> QED BY <1>5, <1>7, <2>1, <3>1
    <2>2. CASE p \notin DOMAIN cached
        <3>1. p \in PrefixesOf(key) /\ cached'[p] = slots[Len(p)]
            BY <1>8, <2>2
        <3>2. Len(p) \in 1 .. Len(key) /\ p = Take(key, Len(p))
            BY <3>1, PrefixesOfType
        <3>3. slots[Len(p)] \in ToSet(slots)
            BY <1>4, <3>2
        <3> QED BY <1>6, <3>1, <3>2, <3>3
    <2> QED BY <2>1, <2>2
<1>10. CacheCoherent' /\ free' \intersect CacheSlots' = {}
    BY <1>9 DEF CacheCoherent, CacheSlots
<1> QED BY <1>2, <1>5, <1>6, <1>7, <1>8, <1>10

-----------------------------------------------------------------------------
\* The prefixes a match covers, one by one, with the slots it returns.
LEMMA MatchedEntries ==
    ASSUME CacheInv, NEW key \in Seq(Token)
    PROVE  /\ MatchLen(cached, key) \in 0 .. Len(key)
           /\ MatchedSlots(cached, key) \in Seq(Slot)
           /\ Len(MatchedSlots(cached, key)) = MatchLen(cached, key)
           /\ \A i \in 1 .. MatchLen(cached, key) :
                /\ kv[MatchedSlots(cached, key)[i]] = Take(key, i)
                /\ MatchedSlots(cached, key)[i] \notin free
<1> DEFINE m == MatchLen(cached, key)
           slots == MatchedSlots(cached, key)
<1>1. /\ m \in 0 .. Len(key)
      /\ Len(MatchedKey(cached, key)) = m
      /\ PrefixesOf(MatchedKey(cached, key)) \subseteq DOMAIN cached
    BY MatchProperties DEF CacheInv
<1>2. Len(key) \in Nat /\ m \in Nat
    BY <1>1, LenProperties
<1> HIDE DEF m
<1>3. ASSUME NEW i \in 1 .. m PROVE Take(key, i) \in DOMAIN cached
    <2>1. Take(Take(key, m), i) \in DOMAIN cached
        BY <1>1, <1>2 DEF m, MatchedKey, PrefixesOf
    <2>2. i \in 0 .. m
        BY <1>2
    <2> QED BY <1>1, <2>1, <2>2, TakeOfTake
<1>4. slots = [i \in 1 .. m |-> cached[Take(key, i)]]
    BY DEF MatchedSlots, m
<1> HIDE DEF slots
<1>5. ASSUME NEW i \in 1 .. m
      PROVE  slots[i] \in Slot /\ kv[slots[i]] = Take(key, i) /\ slots[i] \notin free
    BY <1>3, <1>4 DEF CacheInv, TypeOK, CacheCoherent, CacheSlots
<1>6. slots \in [1 .. m -> Slot]
    BY <1>4, <1>5
<1>7. slots \in Seq(Slot) /\ Len(slots) = m
    BY <1>2, <1>6
<1> QED BY <1>1, <1>5, <1>7 DEF m, slots

\* The slots of a prefill: what the match returned, which is in use and right,
\* then slots from the free list, all different.
LEMMA PrefillSlotsProperties ==
    CacheInv => \A prompt \in Seq(Token) \ {<<>>} : \A slots \in PrefillSlots(prompt) :
        LET k == ReusedLen(prompt)
        IN  /\ slots \in Seq(Slot)
            /\ Len(slots) = Len(prompt)
            /\ k \in 0 .. Len(prompt) - 1
            /\ \A i \in 1 .. k : slots[i] \notin free
            /\ ContextIntact(slots, prompt, k)
            /\ \A i \in (k + 1) .. Len(prompt) :
                    slots[i] \in free \/ kv[slots[i]] = Take(prompt, i)
            /\ \A i, j \in (k + 1) .. Len(prompt) : slots[i] = slots[j] => i = j
<1> SUFFICES ASSUME CacheInv, NEW prompt \in Seq(Token) \ {<<>>},
                    NEW slots \in PrefillSlots(prompt)
             PROVE  LET k == ReusedLen(prompt)
                    IN  /\ slots \in Seq(Slot)
                        /\ Len(slots) = Len(prompt)
                        /\ k \in 0 .. Len(prompt) - 1
                        /\ \A i \in 1 .. k : slots[i] \notin free
                        /\ ContextIntact(slots, prompt, k)
                        /\ \A i \in (k + 1) .. Len(prompt) :
                                slots[i] \in free \/ kv[slots[i]] = Take(prompt, i)
                        /\ \A i, j \in (k + 1) .. Len(prompt) :
                                slots[i] = slots[j] => i = j
    OBVIOUS
<1> DEFINE m == MatchLen(cached, prompt)
           matched == MatchedSlots(cached, prompt)
           L == Len(prompt)
<1>1. L \in Nat \ {0}
    BY EmptySeq
<1>2. /\ m \in 0 .. L
      /\ matched \in Seq(Slot) /\ Len(matched) = m
      /\ \A i \in 1 .. m : kv[matched[i]] = Take(prompt, i) /\ matched[i] \notin free
    BY MatchedEntries
<1>3. CASE FullHit(prompt)
    <2>1. slots = matched /\ m = L /\ ReusedLen(prompt) = L - 1
        BY <1>3 DEF PrefillSlots, FullHit, ReusedLen
    <2> HIDE DEF m, matched, L
    <2>2. \A i, j \in (L - 1 + 1) .. L : i = j
        BY <1>1
    <2>3. /\ \A i \in 1 .. L - 1 : i \in 1 .. L
          /\ \A i \in (L - 1 + 1) .. L : i \in 1 .. L
          /\ L - 1 \in 0 .. L - 1
        BY <1>1
    <2>4. ContextIntact(slots, prompt, L - 1)
        BY <1>2, <2>1, <2>3 DEF ContextIntact
    <2> QED BY <1>2, <2>1, <2>2, <2>3, <2>4 DEF L
<1>4. CASE ~FullHit(prompt)
    <2>1. PICK new \in Allocations(L - m) : slots = matched \o new
        BY <1>4 DEF PrefillSlots
    <2>2. ReusedLen(prompt) = m
        BY <1>2, <1>4 DEF ReusedLen
    <2>3. new \in [1 .. (L - m) -> free] /\ IsInjective(new)
        BY <2>1 DEF Allocations
    <2> HIDE DEF m, matched, L
    <2>4. L - m \in Nat /\ free \subseteq Slot
        BY <1>1, <1>2 DEF CacheInv, TypeOK
    <2>5. new \in Seq(Slot) /\ Len(new) = L - m /\ DOMAIN new = 1 .. L - m
        BY <2>3, <2>4
    <2>6. /\ slots \in Seq(Slot)
          /\ Len(slots) = m + (L - m)
          /\ \A i \in 1 .. m + (L - m) :
                slots[i] = IF i <= m THEN matched[i] ELSE new[i - m]
        <3>1. matched \in Seq(Slot) /\ Len(matched) = m
            BY <1>2
        <3>2. new \in Seq(Slot) /\ Len(new) = L - m
            BY <2>5
        <3>3. /\ matched \o new \in Seq(Slot)
              /\ Len(matched \o new) = Len(matched) + Len(new)
              /\ \A i \in 1 .. Len(matched) + Len(new) :
                    (matched \o new)[i] = IF i <= Len(matched)
                                          THEN matched[i]
                                          ELSE new[i - Len(matched)]
            BY <3>1, <3>2, ConcatProperties, ZenonT(60)
        <3> QED BY <2>1, <3>1, <3>2, <3>3
    <2>7. m + (L - m) = L /\ m \in Nat /\ m \in 0 .. L - 1
        <3>1. m # L
            BY <1>4 DEF FullHit, m, L
        <3> QED BY <1>1, <1>2, <3>1
    <2>8. \A i \in 1 .. m : slots[i] = matched[i]
        BY <1>1, <1>2, <2>6, <2>7
    <2>9. \A i \in (m + 1) .. L : i - m \in 1 .. L - m /\ slots[i] = new[i - m]
        BY <1>1, <1>2, <2>6, <2>7
    <2>10. \A i \in (m + 1) .. L : slots[i] \in free
        BY <2>3, <2>9
    <2>11. ASSUME NEW i \in (m + 1) .. L, NEW j \in (m + 1) .. L, slots[i] = slots[j]
           PROVE  i = j
        <3>1. i - m = j - m
            BY <2>3, <2>5, <2>9, <2>11 DEF IsInjective
        <3> QED BY <1>1, <2>7, <3>1
    <2>12. ContextIntact(slots, prompt, m)
        BY <1>2, <2>8 DEF ContextIntact
    <2> QED BY <1>2, <2>2, <2>6, <2>7, <2>8, <2>10, <2>11, <2>12 DEF L
<1> QED BY <1>3, <1>4

-----------------------------------------------------------------------------
LEMMA InitCacheInv == Init => CacheInv /\ Active = {}
<1> SUFFICES ASSUME Init PROVE CacheInv /\ Active = {}
    OBVIOUS
<1>1. DOMAIN cached = {} /\ Active = {} /\ CacheSlots = {}
    BY DEF Init, EmptyMap, Active, CacheSlots
<1>2. TypeOK
    <2>1. cached \in [DOMAIN cached -> Slot] /\ requests \in [Active -> RequestState]
        BY <1>1 DEF Init, EmptyMap, Active
    <2>2. kv \in [Slot -> Seq(Token)]
        BY EmptySeq DEF Init, Garbage
    <2> QED BY <1>1, <2>1, <2>2 DEF TypeOK, Init
<1>3. IsPrefixClosed(cached) /\ CacheCoherent
    BY <1>1 DEF IsPrefixClosed, CacheCoherent
<1> QED BY <1>1, <1>2, <1>3 DEF CacheInv

\* CacheInv from what it says of the cache, the pool and each request.
LEMMA CacheInvFromParts ==
    ASSUME free' \subseteq Slot,
           DOMAIN cached' \subseteq Seq(Token) \ {<<>>},
           cached' \in [DOMAIN cached' -> Slot],
           kv' \in [Slot -> Seq(Token)],
           IsPrefixClosed(cached'), CacheCoherent', free' \intersect CacheSlots' = {},
           Active' \subseteq Request,
           requests' = [q \in Active' |-> requests'[q]],
           \A q \in Active' :
              /\ requests'[q] \in RequestState
              /\ Len(requests'[q].all_slot_indices) = Len(Tokens(requests'[q]))
    PROVE  CacheInv'
<1>1. requests' \in [Active' -> RequestState]
    OBVIOUS
<1>2. TypeOK'
    BY <1>1 DEF TypeOK
<1> QED BY <1>2 DEF CacheInv

\* A request no action touches stays intact, as long as only free slots are
\* written and none of its own is freed.
LEMMA KeptRequest ==
    ASSUME CacheInv, NEW q, Intact(q), q \in Active', requests'[q] = requests[q],
           \A s \in Slot \ free : kv'[s] = kv[s],
           free' \subseteq free
    PROVE  Intact(q)'
<1> DEFINE slots == requests[q].all_slot_indices
           tokens == Tokens(requests[q])
<1>1. q \in Active /\ slots \in Seq(Slot) /\ Len(slots) = Len(tokens)
    BY DEF Intact, CacheInv, TypeOK, RequestState
<1>2. \A i \in 1 .. Len(tokens) : slots[i] \in Slot /\ slots[i] \in ToSet(slots)
    BY <1>1, ElementOfSeq, LenProperties DEF ToSet
<1>3. free \intersect ToSet(slots) = {}
    BY DEF Intact, UsedBy
<1>4. \A i \in 1 .. Len(tokens) : kv[slots[i]] = Take(tokens, i)
    BY DEF Intact, ContextIntact
<1> HIDE DEF slots, tokens
<1>5. \A i \in 1 .. Len(tokens) : kv'[slots[i]] = Take(tokens, i)
    BY <1>2, <1>3, <1>4
<1>6. free' \intersect ToSet(slots) = {}
    BY <1>3
<1>7. ContextIntact(slots, tokens, Len(tokens))'
    BY <1>5 DEF ContextIntact, slots, tokens
<1> QED BY <1>6, <1>7 DEF slots, tokens, UsedBy, Intact

\* A prefill makes an intact request of its prompt, caches all of it and
\* harms no request that was intact.
LEMMA PrefillStep ==
    ASSUME CacheInv, NEW r \in Request, NEW prompt \in Prompts, ForwardPrefill(r, prompt)
    PROVE  /\ CacheInv'
           /\ Intact(r)'
           /\ \A q : Intact(q) => Intact(q)'
           /\ requests'[r].prompt_tokens = prompt
           /\ requests'[r].output_tokens = <<>>
           /\ PrefixesOf(prompt) \subseteq DOMAIN cached'
           /\ DOMAIN cached \subseteq DOMAIN cached'
<1>1. prompt \in Seq(Token) /\ prompt # <<>> /\ r \notin Active
    BY PromptsAssumption DEF ForwardPrefill
<1>2. PICK slots \in PrefillSlots(prompt) :
        /\ free' = free \ ToSet(slots)
        /\ kv' = Forward(slots, prompt, ReusedLen(prompt))
        /\ cached' = Inserted(cached, prompt, slots)
        /\ requests' = [q \in Active \union {r} |->
                IF q = r THEN [prompt_tokens |-> prompt, output_tokens |-> <<>>,
                               all_slot_indices |-> slots,
                               radix_node |-> MatchedKey(cached', prompt)]
                ELSE requests[q]]
    BY DEF ForwardPrefill
<1> DEFINE k == ReusedLen(prompt)
           node == MatchedKey(cached', prompt)
           state == [prompt_tokens |-> prompt, output_tokens |-> <<>>,
                     all_slot_indices |-> slots, radix_node |-> node]
<1>3. /\ slots \in Seq(Slot)
      /\ Len(slots) = Len(prompt)
      /\ k \in 0 .. Len(prompt)
      /\ \A i \in 1 .. k : slots[i] \notin free
      /\ ContextIntact(slots, prompt, k)
      /\ \A i \in (k + 1) .. Len(prompt) :
            slots[i] \in free \/ kv[slots[i]] = Take(prompt, i)
      /\ \A i, j \in (k + 1) .. Len(prompt) : slots[i] = slots[j] => i = j
    BY <1>1, PrefillSlotsProperties
<1>4. /\ kv' \in [Slot -> Seq(Token)]
      /\ DOMAIN cached' \subseteq Seq(Token) \ {<<>>}
      /\ cached' \in [DOMAIN cached' -> Slot]
      /\ DOMAIN cached \subseteq DOMAIN cached'
      /\ PrefixesOf(prompt) \subseteq DOMAIN cached'
      /\ IsPrefixClosed(cached')
      /\ CacheCoherent'
      /\ \A s \in Slot \ free : kv'[s] = kv[s]
      /\ \A i \in 1 .. Len(prompt) : kv'[slots[i]] = Take(prompt, i)
      /\ free' \intersect CacheSlots' = {}
    <2> HIDE DEF k
    <2>1. kv' = Forward(slots, prompt, k)
        BY <1>2 DEF k
    <2> QED BY <1>1, <1>2, <1>3, <2>1, StoreAndInsert
<1>5. node \in Seq(Token)
    BY <1>1, <1>4, MatchProperties
<1> HIDE DEF k, node
<1>6. /\ Active' = Active \union {r}
      /\ requests' = [q \in Active' |-> IF q = r THEN state ELSE requests[q]]
    <2>1. requests' = [q \in Active \union {r} |->
                            IF q = r THEN state ELSE requests[q]]
        BY <1>2 DEF node
    <2> HIDE DEF state
    <2>2. Active' = Active \union {r}
        BY <2>1 DEF Active
    <2> QED BY <2>1, <2>2
<1>7. state \in RequestState
    BY <1>3, <1>5, EmptySeq DEF RequestState
<1>8. Tokens(state) = prompt
    BY <1>1, ConcatEmptySeq DEF Tokens
<1>9. /\ state.all_slot_indices = slots
      /\ state.prompt_tokens = prompt
      /\ state.output_tokens = <<>>
    OBVIOUS
<1> HIDE DEF state
<1>10. /\ requests'[r] = state
       /\ \A q \in Active : q # r /\ q \in Active' /\ requests'[q] = requests[q]
    BY <1>1, <1>6
<1>11. free' \subseteq free /\ free' \intersect ToSet(slots) = {}
    BY <1>2
<1>12. Intact(r)'
    <2>1. r \in Active'
        BY <1>6
    <2>2. free' \intersect UsedBy(r)' = {}
        BY <1>9, <1>10, <1>11 DEF UsedBy
    <2>3. ContextIntact(slots, prompt, Len(prompt))'
        BY <1>4 DEF ContextIntact
    <2> QED BY <1>8, <1>9, <1>10, <2>1, <2>2, <2>3 DEF Intact
<1>13. ASSUME NEW q, Intact(q) PROVE Intact(q)'
    <2>1. q \in Active' /\ requests'[q] = requests[q]
        BY <1>10, <1>13 DEF Intact
    <2> QED BY <1>4, <1>11, <1>13, <2>1, KeptRequest
<1>14. ASSUME NEW q \in Active'
       PROVE  /\ requests'[q] \in RequestState
              /\ Len(requests'[q].all_slot_indices) = Len(Tokens(requests'[q]))
    <2>1. CASE q = r
        BY <1>3, <1>7, <1>8, <1>9, <1>10, <2>1
    <2>2. CASE q # r
        <3>1. q \in Active /\ requests'[q] = requests[q]
            BY <1>6, <1>10, <2>2
        <3> QED BY <3>1 DEF CacheInv, TypeOK
    <2> QED BY <2>1, <2>2
<1>15. /\ Active' \subseteq Request
       /\ requests' = [q \in Active' |-> requests'[q]]
       /\ free' \subseteq Slot
    BY <1>6, <1>11 DEF CacheInv, TypeOK
<1>16. CacheInv'
    BY <1>4, <1>14, <1>15, CacheInvFromParts
<1>17. requests'[r].prompt_tokens = prompt /\ requests'[r].output_tokens = <<>>
    BY <1>9, <1>10
<1> QED BY <1>4, <1>12, <1>13, <1>16, <1>17

\* Appending to the second part of a concatenation.
LEMMA ConcatAppend ==
    \A s, t \in Seq(Token), e \in Token : Append(s \o t, e) = s \o Append(t, e)
<1> SUFFICES ASSUME NEW s \in Seq(Token), NEW t \in Seq(Token), NEW e \in Token
             PROVE  Append(s \o t, e) = s \o Append(t, e)
    OBVIOUS
<1> DEFINE u == <<e>>
<1>1. u \in Seq(Token)
    OBVIOUS
<1>2. Append(t, e) = t \o u /\ Append(s \o t, e) = (s \o t) \o u
    BY ConcatProperties, AppendIsConcat
<1> HIDE DEF u
<1>3. (s \o t) \o u = s \o (t \o u)
    BY <1>1, ConcatAssociative
<1> QED BY <1>2, <1>3

\* A decode of an intact request keeps it intact, with one token more, caches
\* all of it and harms no request that was intact.
LEMMA DecodeStep ==
    ASSUME CacheInv, NEW r \in Request, NEW token_id \in Token, Intact(r),
           ForwardDecode(r, token_id)
    PROVE  /\ CacheInv'
           /\ \A q : Intact(q) => Intact(q)'
           /\ requests'[r].prompt_tokens = requests[r].prompt_tokens
           /\ requests'[r].output_tokens = Append(requests[r].output_tokens, token_id)
           /\ PrefixesOf(Append(Tokens(requests[r]), token_id)) \subseteq DOMAIN cached'
           /\ DOMAIN cached \subseteq DOMAIN cached'
<1> DEFINE state == requests[r]
           old_slots == state.all_slot_indices
           all_tokens == Append(Tokens(state), token_id)
           m == Len(Tokens(state))
<1>1. /\ r \in Active
      /\ state \in RequestState
      /\ old_slots \in Seq(Slot) /\ Len(old_slots) = m
      /\ state.prompt_tokens \in Seq(Token) /\ state.output_tokens \in Seq(Token)
    BY PromptsAssumption
       DEF ForwardDecode, CacheInv, TypeOK, RequestState
<1>2. Tokens(state) \in Seq(Token) /\ m \in Nat
    BY <1>1, ConcatProperties, LenProperties DEF Tokens
<1>3. PICK new_slot \in free :
        LET slots == Append(old_slots, new_slot)
        IN  /\ free' = free \ {new_slot}
            /\ kv' = Forward(slots, all_tokens, Len(all_tokens) - 1)
            /\ cached' = Inserted(cached, all_tokens, slots)
            /\ requests' = [requests EXCEPT
                  ![r].output_tokens = Append(@, token_id),
                  ![r].all_slot_indices = slots]
    BY DEF ForwardDecode
<1> DEFINE slots == Append(old_slots, new_slot)
           next == [state EXCEPT !.output_tokens = Append(@, token_id),
                                 !.all_slot_indices = slots]
<1>4. new_slot \in Slot /\ new_slot \in free
    BY DEF CacheInv, TypeOK
<1>5. /\ all_tokens \in Seq(Token)
      /\ Len(all_tokens) = m + 1
      /\ \A i \in 1 .. m : all_tokens[i] = Tokens(state)[i]
    BY <1>2, AppendProperties
<1>6. /\ slots \in Seq(Slot)
      /\ Len(slots) = m + 1
      /\ \A i \in 1 .. m : slots[i] = old_slots[i]
      /\ slots[m + 1] = new_slot
    BY <1>1, <1>4, AppendProperties
<1>7. \A i \in 1 .. m : Take(all_tokens, i) = Take(Tokens(state), i)
    <2> HIDE DEF all_tokens, m
    <2>1. Take(all_tokens, m) = Tokens(state)
        <3>1. /\ Take(all_tokens, m) \in Seq(Token)
              /\ Len(Take(all_tokens, m)) = m
              /\ \A i \in 1 .. m : Take(all_tokens, m)[i] = all_tokens[i]
            BY <1>2, <1>5, TakeProperties
        <3>2. Len(Tokens(state)) = m
            BY DEF m
        <3> HIDE DEF state
        <3> QED BY <1>2, <1>5, <3>1, <3>2, SeqEqual
    <2>2. \A i \in 1 .. m : i \in 0 .. m /\ m \in 0 .. Len(all_tokens)
        BY <1>2, <1>5
    <2>3. \A i \in 1 .. m : Take(Take(all_tokens, m), i) = Take(all_tokens, i)
        BY <1>5, <2>2, TakeOfTake
    <2> QED BY <2>1, <2>3
<1>8. /\ \A i \in 1 .. m : kv[old_slots[i]] = Take(Tokens(state), i)
      /\ free \intersect ToSet(old_slots) = {}
    BY DEF Intact, ContextIntact, UsedBy
<1>9. \A i \in 1 .. m : old_slots[i] \in ToSet(old_slots)
    BY <1>1, <1>2 DEF ToSet
<1> HIDE DEF m, all_tokens, slots, old_slots
<1>10. /\ m \in 0 .. Len(all_tokens)
       /\ ContextIntact(slots, all_tokens, m)
       /\ \A i \in 1 .. m : slots[i] \notin free
       /\ \A i \in (m + 1) .. Len(all_tokens) : i = m + 1 /\ slots[i] \in free
       /\ Len(all_tokens) - 1 = m
    <2>1. \A i \in (m + 1) .. Len(all_tokens) : i = m + 1
        BY <1>2, <1>5
    <2>2. ContextIntact(slots, all_tokens, m)
        BY <1>6, <1>7, <1>8 DEF ContextIntact
    <2>3. \A i \in 1 .. m : slots[i] \notin free
        BY <1>6, <1>8, <1>9
    <2>4. m \in 0 .. Len(all_tokens) /\ Len(all_tokens) - 1 = m
        BY <1>2, <1>5
    <2> QED BY <1>4, <1>6, <2>1, <2>2, <2>3, <2>4
<1>11. free' = free \ ToSet(slots) /\ new_slot \in ToSet(slots)
    <2>1. ToSet(slots) = ToSet(old_slots) \union {new_slot}
        <3>1. DOMAIN slots = 1 .. m + 1 /\ DOMAIN old_slots = 1 .. m
            BY <1>1, <1>2, <1>6 DEF old_slots
        <3>2. \A i \in 1 .. m + 1 : i \in 1 .. m \/ i = m + 1
            BY <1>2
        <3>3. 1 .. m \subseteq 1 .. m + 1 /\ m + 1 \in 1 .. m + 1
            BY <1>2
        <3> QED BY <1>6, <3>1, <3>2, <3>3 DEF ToSet
    <2> QED BY <1>3, <1>8, <2>1
<1>12. /\ kv' \in [Slot -> Seq(Token)]
       /\ DOMAIN cached' \subseteq Seq(Token) \ {<<>>}
       /\ cached' \in [DOMAIN cached' -> Slot]
       /\ DOMAIN cached \subseteq DOMAIN cached'
       /\ PrefixesOf(all_tokens) \subseteq DOMAIN cached'
       /\ IsPrefixClosed(cached')
       /\ CacheCoherent'
       /\ \A s \in Slot \ free : kv'[s] = kv[s]
       /\ \A i \in 1 .. Len(all_tokens) : kv'[slots[i]] = Take(all_tokens, i)
       /\ free' \intersect CacheSlots' = {}
    <2>1. /\ kv' = Forward(slots, all_tokens, m)
          /\ cached' = Inserted(cached, all_tokens, slots)
        BY <1>3, <1>10 DEF slots, all_tokens
    <2>2. Len(slots) = Len(all_tokens)
        BY <1>5, <1>6
    <2>3. \A i, j \in (m + 1) .. Len(all_tokens) : slots[i] = slots[j] => i = j
        BY <1>10
    <2>4. \A i \in (m + 1) .. Len(all_tokens) :
            slots[i] \in free \/ kv[slots[i]] = Take(all_tokens, i)
        BY <1>10
    <2>5. /\ all_tokens \in Seq(Token) /\ slots \in Seq(Slot)
          /\ m \in 0 .. Len(all_tokens)
          /\ ContextIntact(slots, all_tokens, m)
          /\ \A i \in 1 .. m : slots[i] \notin free
          /\ free' = free \ ToSet(slots)
        BY <1>5, <1>6, <1>10, <1>11
    <2> QED BY <2>1, <2>2, <2>3, <2>4, <2>5, StoreAndInsert
<1>13. /\ Active' = Active
       /\ requests' = [q \in Active |-> IF q = r THEN next ELSE requests[q]]
    <2>1. requests' = [requests EXCEPT ![r] = next]
        BY <1>3 DEF slots, old_slots
    <2>2. requests = [q \in Active |-> requests[q]]
        BY DEF CacheInv, TypeOK
    <2> HIDE DEF next
    <2> QED BY <1>1, <2>1, <2>2 DEF Active
<1>14. /\ next \in RequestState
       /\ next.all_slot_indices = slots
       /\ next.prompt_tokens = state.prompt_tokens
       /\ next.output_tokens = Append(state.output_tokens, token_id)
    <2>1. Append(state.output_tokens, token_id) \in Seq(Token)
        BY <1>1, AppendProperties
    <2> QED BY <1>1, <1>6, <2>1 DEF RequestState
<1>15. Tokens(next) = all_tokens
    <2> HIDE DEF next
    <2>1. Append(Tokens(state), token_id)
            = state.prompt_tokens \o Append(state.output_tokens, token_id)
        BY <1>1, ConcatAppend DEF Tokens
    <2> HIDE DEF state
    <2> QED BY <1>14, <2>1 DEF Tokens, all_tokens
<1> HIDE DEF next
<1>16. free' \subseteq free /\ free' \intersect ToSet(slots) = {}
    BY <1>11
<1>17. ASSUME NEW q, Intact(q) PROVE Intact(q)'
    <2>1. CASE q = r
        <3>1. q \in Active' /\ requests'[q] = next
            BY <1>1, <1>13, <2>1
        <3>2. free' \intersect UsedBy(q)' = {}
            BY <1>14, <1>16, <3>1 DEF UsedBy
        <3>3. \A i \in 1 .. Len(all_tokens) : kv'[slots[i]] = Take(all_tokens, i)
            BY <1>12
        <3>4. \A i \in 1 .. Len(Tokens(requests'[q])) :
                kv'[requests'[q].all_slot_indices[i]] = Take(Tokens(requests'[q]), i)
            BY <1>14, <1>15, <3>1, <3>3
        <3> QED BY <3>1, <3>2, <3>4 DEF Intact, ContextIntact
    <2>2. CASE q # r
        <3>1. q \in Active' /\ requests'[q] = requests[q]
            BY <1>13, <1>17, <2>2 DEF Intact
        <3> QED BY <1>12, <1>16, <1>17, <3>1, KeptRequest
    <2> QED BY <2>1, <2>2
<1>18. ASSUME NEW q \in Active'
       PROVE  /\ requests'[q] \in RequestState
              /\ Len(requests'[q].all_slot_indices) = Len(Tokens(requests'[q]))
    <2>1. CASE q = r
        <3>1. requests'[q] = next
            BY <1>1, <1>13, <2>1
        <3> QED BY <1>5, <1>6, <1>14, <1>15, <3>1
    <2>2. CASE q # r
        <3>1. q \in Active /\ requests'[q] = requests[q]
            BY <1>13, <2>2
        <3> QED BY <3>1 DEF CacheInv, TypeOK
    <2> QED BY <2>1, <2>2
<1>19. /\ Active' \subseteq Request
       /\ requests' = [q \in Active' |-> requests'[q]]
       /\ free' \subseteq Slot
    BY <1>13, <1>16 DEF CacheInv, TypeOK
<1>20. CacheInv'
    BY <1>12, <1>18, <1>19, CacheInvFromParts
<1>21. /\ requests'[r].prompt_tokens = state.prompt_tokens
       /\ requests'[r].output_tokens = Append(state.output_tokens, token_id)
    BY <1>1, <1>13, <1>14
<1> QED BY <1>12, <1>17, <1>20, <1>21 DEF all_tokens

\* A forward pass that fails takes slots from the free list and writes only
\* those.
LEMMA FailedPass ==
    ASSUME CacheInv, kv' \in [Slot -> Seq(Token)],
           \A s \in Slot \ free : kv'[s] = kv[s],
           free' \subseteq free, UNCHANGED <<cached, requests>>
    PROVE  CacheInv' /\ \A q : Intact(q) => Intact(q)'
<1>1. Active' = Active
    BY DEF Active
<1>2. ASSUME NEW q, Intact(q) PROVE Intact(q)'
    <2>1. q \in Active'
        BY <1>1, <1>2 DEF Intact
    <2> QED BY <1>2, <2>1, KeptRequest
<1>3. ASSUME NEW p \in DOMAIN cached
      PROVE  cached[p] \notin free /\ kv'[cached[p]] = p
    <2>1. cached[p] \in Slot /\ cached[p] \notin free /\ kv[cached[p]] = p
        BY DEF CacheInv, TypeOK, CacheCoherent, CacheSlots
    <2> QED BY <2>1
<1>4. CacheCoherent' /\ free' \intersect CacheSlots' = {}
    BY <1>3 DEF CacheCoherent, CacheSlots
<1>5. /\ Active' \subseteq Request
      /\ requests' = [q \in Active' |-> requests'[q]]
      /\ free' \subseteq Slot
      /\ DOMAIN cached' \subseteq Seq(Token) \ {<<>>}
      /\ cached' \in [DOMAIN cached' -> Slot]
      /\ IsPrefixClosed(cached')
      /\ \A q \in Active' :
            /\ requests'[q] \in RequestState
            /\ Len(requests'[q].all_slot_indices) = Len(Tokens(requests'[q]))
    BY <1>1 DEF CacheInv, TypeOK
<1>6. CacheInv'
    BY <1>4, <1>5, CacheInvFromParts
<1> QED BY <1>2, <1>6

LEMMA PrefillFailsStep ==
    ASSUME CacheInv, NEW r \in Request, NEW prompt \in Prompts, PrefillFails(r, prompt)
    PROVE  CacheInv' /\ \A q : Intact(q) => Intact(q)'
<1>1. PICK slots \in PrefillSlots(prompt) :
        /\ free' = free \ ToSet(slots)
        /\ kv' = [s \in Slot |-> IF s \in free \intersect ToSet(slots)
                                 THEN Garbage ELSE kv[s]]
    BY DEF PrefillFails
<1>2. Garbage \in Seq(Token) /\ kv \in [Slot -> Seq(Token)]
    BY EmptySeq DEF Garbage, CacheInv, TypeOK
<1>3. kv' \in [Slot -> Seq(Token)] /\ \A s \in Slot \ free : kv'[s] = kv[s]
    BY <1>1, <1>2
<1>4. UNCHANGED <<cached, requests>> /\ free' \subseteq free
    BY <1>1 DEF PrefillFails
<1> QED BY <1>3, <1>4, FailedPass

LEMMA DecodeFailsStep ==
    ASSUME CacheInv, NEW r \in Request, DecodeFails(r)
    PROVE  CacheInv' /\ \A q : Intact(q) => Intact(q)'
<1>1. PICK new_slot \in free : free' = free \ {new_slot}
                               /\ kv' = [kv EXCEPT ![new_slot] = Garbage]
    BY DEF DecodeFails
<1>2. Garbage \in Seq(Token) /\ kv \in [Slot -> Seq(Token)]
    BY EmptySeq DEF Garbage, CacheInv, TypeOK
<1>3. kv' \in [Slot -> Seq(Token)] /\ \A s \in Slot \ free : kv'[s] = kv[s]
    BY <1>1, <1>2
<1>4. UNCHANGED <<cached, requests>> /\ free' \subseteq free
    BY <1>1 DEF DecodeFails
<1> QED BY <1>3, <1>4, FailedPass

LEMMA NothingChangedStep ==
    ASSUME CacheInv, UNCHANGED vars
    PROVE  CacheInv' /\ \A q : Intact(q) => Intact(q)'
<1>1. UNCHANGED <<free, cached, kv, requests>>
    BY DEF vars
<1> QED BY <1>1, FailedPass DEF CacheInv, TypeOK

LEMMA FinishRequestStep ==
    ASSUME CacheInv, NEW r \in Request, FinishRequest(r)
    PROVE  /\ CacheInv'
           /\ \A q : q # r /\ Intact(q) => Intact(q)'
<1>1. requests' = [q \in Active \ {r} |-> requests[q]] /\ UNCHANGED <<free, cached, kv>>
    BY DEF FinishRequest, Restrict
<1>2. Active' = Active \ {r} /\ \A q \in Active' : q \in Active /\ requests'[q] = requests[q]
    BY <1>1 DEF Active
<1>3. ASSUME NEW q, q # r, Intact(q) PROVE Intact(q)'
    <2>1. q \in Active' /\ requests'[q] = requests[q]
        BY <1>2, <1>3 DEF Intact
    <2> QED BY <1>1, <1>3, <2>1, KeptRequest
<1>4. CacheCoherent' /\ free' \intersect CacheSlots' = {}
    BY <1>1 DEF CacheInv, CacheCoherent, CacheSlots
<1>5. /\ Active' \subseteq Request
      /\ requests' = [q \in Active' |-> requests'[q]]
      /\ free' \subseteq Slot
      /\ DOMAIN cached' \subseteq Seq(Token) \ {<<>>}
      /\ cached' \in [DOMAIN cached' -> Slot]
      /\ kv' \in [Slot -> Seq(Token)]
      /\ IsPrefixClosed(cached')
      /\ \A q \in Active' :
            /\ requests'[q] \in RequestState
            /\ Len(requests'[q].all_slot_indices) = Len(Tokens(requests'[q]))
    BY <1>1, <1>2 DEF CacheInv, TypeOK
<1>6. CacheInv'
    BY <1>4, <1>5, CacheInvFromParts
<1> QED BY <1>3, <1>6

\* The cache survives any eviction, with requests active or not: the entries
\* that stay lead to other slots than those given back, because each slot
\* holds one prefix.
LEMMA EvictStep ==
    ASSUME CacheInv, NEW n \in EvictSizes, Evict(n)
    PROVE  CacheInv'
<1>1. UNCHANGED <<kv, requests>>
    BY DEF Evict
<1>2. PICK V \in EvictionSets(cached, Pins, n) :
        /\ cached' = Evicted(cached, V)
        /\ free' = free \union {cached[p] : p \in V}
    BY DEF Evict
<1>3. Pins \subseteq Seq(Token)
    BY DEF CacheInv, TypeOK, RequestState, Pins
<1>4. /\ cached \in [DOMAIN cached -> Slot]
      /\ DOMAIN cached \subseteq Seq(Token) \ {<<>>}
      /\ IsPrefixClosed(cached)
    BY DEF CacheInv, TypeOK
<1>5. /\ DOMAIN cached' = DOMAIN cached \ V
      /\ cached' \in [DOMAIN cached' -> Slot]
      /\ IsPrefixClosed(cached')
      /\ \A p \in DOMAIN cached' : cached'[p] = cached[p]
    BY <1>2, <1>3, <1>4, EvictProperties
<1>6. V \subseteq DOMAIN cached
    BY DEF EvictionSets, EvictableEntries
<1>7. CacheCoherent'
    BY <1>1, <1>5 DEF CacheInv, CacheCoherent
<1>8. ASSUME NEW p \in DOMAIN cached' PROVE cached'[p] \notin free'
    <2>1. p \in DOMAIN cached /\ p \notin V /\ cached'[p] = cached[p]
        BY <1>5
    <2>2. cached[p] \notin free
        BY <2>1 DEF CacheInv, CacheSlots
    <2>3. \A q \in V : cached[q] # cached[p]
        BY <1>6, <2>1 DEF CacheInv, CacheCoherent
    <2> QED BY <1>2, <2>1, <2>2, <2>3
<1>9. free' \intersect CacheSlots' = {}
    BY <1>8 DEF CacheSlots
<1>10. free' \subseteq Slot
    BY <1>2, <1>4, <1>6 DEF CacheInv, TypeOK
<1>11. /\ Active' \subseteq Request
       /\ requests' = [q \in Active' |-> requests'[q]]
       /\ \A q \in Active' :
            /\ requests'[q] \in RequestState
            /\ Len(requests'[q].all_slot_indices) = Len(Tokens(requests'[q]))
    BY <1>1 DEF Active, CacheInv, TypeOK
<1>12. DOMAIN cached' \subseteq Seq(Token) \ {<<>>} /\ kv' \in [Slot -> Seq(Token)]
    BY <1>1, <1>4, <1>5 DEF CacheInv, TypeOK
<1> QED BY <1>5, <1>7, <1>9, <1>10, <1>11, <1>12, CacheInvFromParts

\* Nothing is evicted while a request is active: all of them stay intact.
LEMMA NextIInv == IInv /\ EvictWhileActive = FALSE /\ [Next]_vars => IInv'
<1> SUFFICES ASSUME IInv, EvictWhileActive = FALSE, [Next]_vars
             PROVE  IInv'
    OBVIOUS
<1>1. CacheInv /\ \A q : q \in Active <=> Intact(q)
    BY DEF IInv, Intact
<1>2. ASSUME NEW r \in Request, NEW prompt \in Prompts, ForwardPrefill(r, prompt)
      PROVE  IInv'
    <2>1. CacheInv' /\ Intact(r)' /\ \A q : Intact(q) => Intact(q)'
        BY <1>1, <1>2, PrefillStep
    <2>2. Active' = Active \union {r}
        BY <1>2 DEF ForwardPrefill, Active
    <2> QED BY <1>1, <2>1, <2>2 DEF IInv
<1>3. ASSUME NEW r \in Request, NEW token_id \in Token, ForwardDecode(r, token_id)
      PROVE  IInv'
    <2>1. r \in Active
        BY <1>3 DEF ForwardDecode
    <2>2. CacheInv' /\ \A q : Intact(q) => Intact(q)'
        BY <1>1, <1>3, <2>1, DecodeStep
    <2>3. Active' = Active
        BY <1>3 DEF ForwardDecode, Active
    <2> QED BY <1>1, <2>2, <2>3 DEF IInv
<1>4. ASSUME CacheInv', \A q : Intact(q) => Intact(q)', UNCHANGED requests
      PROVE  IInv'
    <2>1. Active' = Active
        BY <1>4 DEF Active
    <2> QED BY <1>1, <1>4, <2>1 DEF IInv
<1>5. ASSUME NEW r \in Request, NEW prompt \in Prompts, PrefillFails(r, prompt)
      PROVE  IInv'
    BY <1>1, <1>4, <1>5, PrefillFailsStep DEF PrefillFails
<1>6. ASSUME NEW r \in Request, DecodeFails(r) PROVE IInv'
    BY <1>1, <1>4, <1>6, DecodeFailsStep DEF DecodeFails
<1>7. ASSUME NEW r \in Request, FinishRequest(r) PROVE IInv'
    <2>1. CacheInv' /\ \A q : q # r /\ Intact(q) => Intact(q)'
        BY <1>1, <1>7, FinishRequestStep
    <2>2. Active' = Active \ {r}
        BY <1>7 DEF FinishRequest, Restrict, Active
    <2> QED BY <1>1, <2>1, <2>2 DEF IInv
<1>8. ASSUME NEW n \in EvictSizes, Evict(n) PROVE IInv'
    <2>1. CacheInv'
        BY <1>1, <1>8, EvictStep
    <2>2. Active' = {}
        BY <1>8 DEF Evict, Active
    <2> QED BY <2>1, <2>2 DEF IInv
<1>9. ASSUME UNCHANGED vars PROVE IInv'
    BY <1>1, <1>4, <1>9, NothingChangedStep DEF vars
<1>10. ASSUME NEW r \in Request, NEW prompt \in Prompts, PrefillRaises(r, prompt)
       PROVE  IInv'
    BY <1>9, <1>10 DEF PrefillRaises
<1>11. ASSUME NEW r \in Request, DecodeRaises(r) PROVE IInv'
    BY <1>9, <1>11 DEF DecodeRaises
<1> QED BY <1>2, <1>3, <1>5, <1>6, <1>7, <1>8, <1>9, <1>10, <1>11 DEF Next

-----------------------------------------------------------------------------
LEMMA InitIInv == Init => IInv
BY InitCacheInv DEF IInv

LEMMA Invariance == ASSUME EvictWhileActive = FALSE PROVE Spec => []IInv
<1>1. Init => IInv
    BY InitIInv
<1>2. IInv /\ [Next]_vars => IInv'
    BY NextIInv
<1> QED BY <1>1, <1>2, PTL DEF Spec

\* The types of the runner's state, and as many slots as tokens in every
\* request, whatever forward_prefill, forward_decode and evict do.
THEOREM TypeCorrect == ASSUME EvictWhileActive = FALSE PROVE Spec => []TypeOK
<1>1. IInv => TypeOK
    BY DEF IInv, CacheInv
<1> QED BY <1>1, Invariance, PTL

\* Whoever matches a cached prefix in forward_prefill reads the KV data of
\* exactly that prefix.
THEOREM CacheIsCoherent ==
    ASSUME EvictWhileActive = FALSE PROVE Spec => []CacheCoherent
<1>1. IInv => CacheCoherent
    BY DEF IInv, CacheInv
<1> QED BY <1>1, Invariance, PTL

\* forward_decode always finds the context of its request intact, whatever
\* the other requests did since its last step.
THEOREM ContextStaysIntact ==
    ASSUME EvictWhileActive = FALSE PROVE Spec => []RequestCoherent
<1>1. IInv => RequestCoherent
    BY DEF IInv, Intact, RequestCoherent
<1> QED BY <1>1, Invariance, PTL

\* The allocator never gives out a slot that the cache or an active request
\* still reaches.
THEOREM SlotsInUseAreNotFree ==
    ASSUME EvictWhileActive = FALSE PROVE Spec => []NoSlotInUseIsFree
<1>1. IInv => NoSlotInUseIsFree
    BY DEF IInv, CacheInv, Intact, NoSlotInUseIsFree
<1> QED BY <1>1, Invariance, PTL
-----------------------------------------------------------------------------
(***************************************************************************)
(* What the lock taken by forward_prefill protects, with evictions at any  *)
(* time: the prompt of every active request stays cached, at the slots the *)
(* request decodes with, for any pool, prompts, lengths and failures.      *)
(***************************************************************************)

\* What a request's state must be for its slots to be a value insert accepts,
\* and the lock: its node is the one its whole prompt ends at.
RequestOK(state) ==
    /\ state \in RequestState
    /\ Len(state.all_slot_indices) = Len(Tokens(state))
    /\ state.radix_node = state.prompt_tokens

CacheOK ==
    /\ DOMAIN cached \subseteq Seq(Token) \ {<<>>}
    /\ cached \in [DOMAIN cached -> Slot]
    /\ IsPrefixClosed(cached)

\* The prompt of a request is cached at its slots.
PromptCached(map, state) ==
    \A n \in 1 .. Len(state.prompt_tokens) :
        /\ Take(state.prompt_tokens, n) \in DOMAIN map
        /\ map[Take(state.prompt_tokens, n)] = state.all_slot_indices[n]

\* The invariant.  That the cache is prefix-closed makes every match a path;
\* that radix_node is the prompt makes eviction spare all of its prefixes.
LockInv ==
    /\ free \subseteq Slot
    /\ CacheOK
    /\ requests = [r \in Active |-> requests[r]]
    /\ \A r \in Active : RequestOK(requests[r]) /\ PromptCached(cached, requests[r])

\* A prompt ends up in a cache that has it whole, at the slots of the prefill:
\* those the match returned, then the new ones.
LEMMA PrefillCaches ==
    ASSUME LockInv, NEW prompt \in Prompts, NEW slots \in PrefillSlots(prompt)
    PROVE  LET after == Inserted(cached, prompt, slots)
           IN  /\ slots \in Seq(Slot)
               /\ Len(slots) = Len(prompt)
               /\ \A n \in 1 .. Len(prompt) : after[Take(prompt, n)] = slots[n]
<1> DEFINE m == MatchLen(cached, prompt)
           matched == MatchedSlots(cached, prompt)
           L == Len(prompt)
           after == Inserted(cached, prompt, slots)
<1>1. prompt \in Seq(Token) /\ prompt # <<>> /\ L \in Nat
    BY PromptsAssumption, LenProperties
<1>2. /\ m \in 0 .. L
      /\ Len(MatchedKey(cached, prompt)) = m
      /\ PrefixesOf(MatchedKey(cached, prompt)) \subseteq DOMAIN cached
      /\ \A n \in 1 .. L : Take(prompt, n) \in DOMAIN cached => n <= m
    BY <1>1, MatchProperties DEF LockInv, CacheOK
<1>3. m \in Nat
    BY <1>1, <1>2
<1>4. ASSUME NEW n \in 1 .. m PROVE Take(prompt, n) \in DOMAIN cached
    <2> HIDE DEF m
    <2>1. Take(Take(prompt, m), n) \in DOMAIN cached
        BY <1>2, <1>3 DEF m, MatchedKey, PrefixesOf
    <2>2. n \in 0 .. m
        BY <1>3
    <2> QED BY <1>1, <1>2, <2>1, <2>2, TakeOfTake
<1>5. matched = [n \in 1 .. m |-> cached[Take(prompt, n)]]
    BY DEF MatchedSlots
<1> HIDE DEF m, matched
<1>6. matched \in Seq(Slot) /\ Len(matched) = m
    <2>1. \A n \in 1 .. m : cached[Take(prompt, n)] \in Slot
        BY <1>4 DEF LockInv, CacheOK
    <2>2. matched \in [1 .. m -> Slot]
        BY <1>5, <2>1
    <2> QED BY <1>3, <2>2
<1>7. /\ slots \in Seq(Slot) /\ Len(slots) = L
      /\ \A n \in 1 .. m : slots[n] = matched[n]
    <2>1. CASE FullHit(prompt)
        <3>1. slots = matched /\ m = L
            BY <2>1 DEF PrefillSlots, FullHit, m, matched
        <3> QED BY <1>6, <3>1
    <2>2. CASE ~FullHit(prompt)
        <3>1. PICK new \in Allocations(L - m) : slots = matched \o new
            BY <2>2 DEF PrefillSlots, m, matched
        <3>2. L - m \in Nat /\ new \in [1 .. L - m -> Slot]
            BY <1>1, <1>2, <3>1 DEF Allocations, LockInv
        <3>3. new \in Seq(Slot) /\ Len(new) = L - m
            BY <3>2
        <3>4. /\ matched \o new \in Seq(Slot)
              /\ Len(matched \o new) = Len(matched) + Len(new)
              /\ \A n \in 1 .. Len(matched) + Len(new) :
                    (matched \o new)[n] = IF n <= Len(matched)
                                          THEN matched[n]
                                          ELSE new[n - Len(matched)]
            BY <1>6, <3>3, ConcatProperties, ZenonT(60)
        <3>5. m + (L - m) = L /\ \A n \in 1 .. m : n \in 1 .. L /\ n <= m
            BY <1>1, <1>2, <1>3
        <3> HIDE DEF L
        <3> QED BY <1>6, <3>1, <3>3, <3>4, <3>5
    <2> QED BY <2>1, <2>2
<1>8. ASSUME NEW n \in 1 .. L PROVE after[Take(prompt, n)] = slots[n]
    <2>1. Take(prompt, n) \in PrefixesOf(prompt) /\ Len(Take(prompt, n)) = n
        BY <1>1, TakeProperties DEF PrefixesOf
    <2>2. after[Take(prompt, n)] = IF Take(prompt, n) \in DOMAIN cached
                                   THEN cached[Take(prompt, n)] ELSE slots[n]
        BY <2>1 DEF Inserted
    <2>3. CASE n \in 1 .. m
        BY <1>4, <1>5, <1>7, <2>2, <2>3
    <2>4. CASE n \notin 1 .. m
        <3>1. Take(prompt, n) \notin DOMAIN cached
            BY <1>2, <1>3, <2>4
        <3> QED BY <2>2, <3>1
    <2> QED BY <2>3, <2>4
<1> QED BY <1>7, <1>8

\* An insert keeps the prompts that are cached where they are.
LEMMA InsertKeeps ==
    ASSUME LockInv, NEW key \in Seq(Token), NEW slots \in Seq(Slot),
           Len(slots) = Len(key), cached' = Inserted(cached, key, slots)
    PROVE  /\ CacheOK'
           /\ PrefixesOf(key) \subseteq DOMAIN cached'
           /\ \A r \in Active : PromptCached(cached', requests[r])
<1>1. /\ DOMAIN cached' \subseteq Seq(Token) \ {<<>>}
      /\ DOMAIN cached \subseteq DOMAIN cached'
      /\ cached' \in [DOMAIN cached' -> Slot]
      /\ IsPrefixClosed(cached')
      /\ \A p \in DOMAIN cached : cached'[p] = cached[p]
    BY InsertProperties, ZenonT(60) DEF LockInv, CacheOK
<1>2. PrefixesOf(key) \subseteq DOMAIN cached'
    BY DEF Inserted
<1>3. \A r \in Active : PromptCached(cached', requests[r])
    BY <1>1 DEF LockInv, PromptCached
<1> QED BY <1>1, <1>2, <1>3 DEF CacheOK

\* The match after the insert finds the whole prompt.
LEMMA WholePromptMatched ==
    ASSUME NEW map, IsPrefixClosed(map), NEW prompt \in Seq(Token), prompt # <<>>,
           PrefixesOf(prompt) \subseteq DOMAIN map
    PROVE  MatchedKey(map, prompt) = prompt
<1>1. Len(prompt) \in Nat \ {0}
    BY EmptySeq
<1>2. prompt = Take(prompt, Len(prompt)) /\ prompt \in DOMAIN map
    BY SubSeqFull, KeyIsPrefixOfItself DEF Take
<1>3. /\ MatchLen(map, prompt) \in 0 .. Len(prompt)
      /\ \A n \in 1 .. Len(prompt) :
            Take(prompt, n) \in DOMAIN map => n <= MatchLen(map, prompt)
    BY MatchProperties
<1>4. MatchLen(map, prompt) = Len(prompt)
    BY <1>1, <1>2, <1>3
<1> QED BY <1>2, <1>4 DEF MatchedKey

\* What has to be shown of a step.
LEMMA LockInvFromParts ==
    ASSUME free' \subseteq Slot, CacheOK',
           requests' = [q \in Active' |-> requests'[q]],
           \A q \in Active' : RequestOK(requests'[q]) /\ PromptCached(cached', requests'[q])
    PROVE  LockInv'
BY DEF LockInv, RequestOK, Tokens, PromptCached

LEMMA InitLockInv == Init => LockInv
<1> SUFFICES ASSUME Init PROVE LockInv
    OBVIOUS
<1>1. DOMAIN cached = {} /\ DOMAIN requests = {} /\ free = Slot
    BY DEF Init, EmptyMap
<1>2. cached \in [DOMAIN cached -> Slot]
    BY <1>1 DEF Init, EmptyMap
<1> QED BY <1>1, <1>2 DEF LockInv, CacheOK, IsPrefixClosed, Active

LEMMA PrefillLock ==
    ASSUME LockInv, NEW r \in Request, NEW prompt \in Prompts, ForwardPrefill(r, prompt)
    PROVE  LockInv'
<1>1. PICK slots \in PrefillSlots(prompt) :
        /\ free' = free \ ToSet(slots)
        /\ cached' = Inserted(cached, prompt, slots)
        /\ requests' = [q \in Active \union {r} |->
                IF q = r THEN [prompt_tokens |-> prompt, output_tokens |-> <<>>,
                               all_slot_indices |-> slots,
                               radix_node |-> MatchedKey(cached', prompt)]
                ELSE requests[q]]
    BY DEF ForwardPrefill
<1>2. prompt \in Seq(Token) /\ prompt # <<>>
    BY PromptsAssumption
<1>3. /\ slots \in Seq(Slot) /\ Len(slots) = Len(prompt)
      /\ \A n \in 1 .. Len(prompt) : cached'[Take(prompt, n)] = slots[n]
    BY <1>1, PrefillCaches
<1>4. /\ CacheOK'
      /\ PrefixesOf(prompt) \subseteq DOMAIN cached'
      /\ \A q \in Active : PromptCached(cached', requests[q])
    BY <1>1, <1>2, <1>3, InsertKeeps
<1>5. MatchedKey(cached', prompt) = prompt
    BY <1>2, <1>4, WholePromptMatched DEF CacheOK
<1>6. RequestOK(requests'[r]) /\ PromptCached(cached', requests'[r])
    <2> DEFINE state == [prompt_tokens |-> prompt, output_tokens |-> <<>>,
                         all_slot_indices |-> slots, radix_node |-> prompt]
    <2>1. requests'[r] = state
        BY <1>1, <1>5
    <2>2. Tokens(state) = prompt
        BY <1>2, ConcatEmptySeq DEF Tokens
    <2>3. RequestOK(state)
        BY <1>2, <1>3, <2>2, EmptySeq DEF RequestOK, RequestState
    <2>4. PromptCached(cached', state)
        BY <1>3, <1>4 DEF PromptCached, PrefixesOf
    <2> QED BY <2>1, <2>3, <2>4
<1>7. Active' = Active \union {r} /\ \A q \in Active' \ {r} :
        q \in Active /\ requests'[q] = requests[q]
    BY <1>1 DEF Active
<1>8. requests' = [q \in Active' |-> requests'[q]]
    BY <1>1, <1>7
<1>9. \A q \in Active' : RequestOK(requests'[q]) /\ PromptCached(cached', requests'[q])
    BY <1>4, <1>6, <1>7 DEF LockInv
<1>10. free' \subseteq Slot
    BY <1>1 DEF LockInv
<1> QED BY <1>4, <1>8, <1>9, <1>10, LockInvFromParts

LEMMA DecodeLock ==
    ASSUME LockInv, NEW r \in Request, NEW token_id \in Token, ForwardDecode(r, token_id)
    PROVE  LockInv'
<1> DEFINE state == requests[r]
           old_slots == state.all_slot_indices
           all_tokens == Append(Tokens(state), token_id)
           m == Len(Tokens(state))
<1>1. /\ r \in Active /\ state \in RequestState
      /\ RequestOK(state) /\ PromptCached(cached, state)
      /\ old_slots \in Seq(Slot) /\ Len(old_slots) = m
      /\ state.prompt_tokens \in Seq(Token) /\ state.output_tokens \in Seq(Token)
    BY PromptsAssumption DEF ForwardDecode, LockInv, RequestOK, RequestState
<1>2. /\ Tokens(state) \in Seq(Token) /\ m \in Nat
      /\ Len(state.prompt_tokens) \in Nat /\ Len(state.prompt_tokens) <= m
    <2> DEFINE prompt == state.prompt_tokens
               output == state.output_tokens
    <2>1. prompt \in Seq(Token) /\ output \in Seq(Token)
        BY <1>1
    <2>2. Tokens(state) = prompt \o output
        BY DEF Tokens
    <2> HIDE DEF state, prompt, output
    <2>3. Len(prompt) \in Nat /\ Len(output) \in Nat
        BY <2>1, LenProperties
    <2>4. prompt \o output \in Seq(Token)
          /\ Len(prompt \o output) = Len(prompt) + Len(output)
        BY <2>1, ConcatProperties
    <2> QED BY <2>2, <2>3, <2>4 DEF prompt
<1>3. PICK new_slot \in free :
        /\ free' = free \ {new_slot}
        /\ cached' = Inserted(cached, all_tokens, Append(old_slots, new_slot))
        /\ requests' = [requests EXCEPT
              ![r].output_tokens = Append(@, token_id),
              ![r].all_slot_indices = Append(old_slots, new_slot)]
    BY DEF ForwardDecode
<1> DEFINE slots == Append(old_slots, new_slot)
           next == [state EXCEPT !.output_tokens = Append(@, token_id),
                                 !.all_slot_indices = slots]
<1>4. all_tokens \in Seq(Token) /\ Len(all_tokens) = m + 1
    BY <1>2, AppendProperties
<1>5. /\ slots \in Seq(Slot) /\ Len(slots) = m + 1
      /\ \A i \in 1 .. m : slots[i] = old_slots[i]
    BY <1>1, AppendProperties DEF LockInv
<1> HIDE DEF m, all_tokens, slots, old_slots
<1>6. /\ CacheOK'
      /\ \A q \in Active : PromptCached(cached', requests[q])
    <2>1. cached' = Inserted(cached, all_tokens, slots)
        BY <1>3 DEF slots
    <2> QED BY <1>4, <1>5, <2>1, InsertKeeps
<1>7. /\ Active' = Active
      /\ requests' = [q \in Active |-> IF q = r THEN next ELSE requests[q]]
    <2>1. requests' = [requests EXCEPT ![r] = next]
        BY <1>3 DEF slots, old_slots
    <2>2. requests = [q \in Active |-> requests[q]]
        BY DEF LockInv
    <2> HIDE DEF next
    <2> QED BY <1>1, <2>1, <2>2 DEF Active
<1>8. /\ next \in RequestState
      /\ next.all_slot_indices = slots
      /\ next.prompt_tokens = state.prompt_tokens
      /\ next.radix_node = state.radix_node
      /\ next.output_tokens = Append(state.output_tokens, token_id)
    <2>1. Append(state.output_tokens, token_id) \in Seq(Token)
        BY <1>1, AppendProperties
    <2> QED BY <1>1, <1>5, <2>1 DEF RequestState
<1>9. Tokens(next) = all_tokens
    <2> HIDE DEF next
    <2>1. Append(Tokens(state), token_id)
            = state.prompt_tokens \o Append(state.output_tokens, token_id)
        BY <1>1, ConcatAppend DEF Tokens
    <2> HIDE DEF state
    <2> QED BY <1>8, <2>1 DEF Tokens, all_tokens
<1> HIDE DEF next
<1>10. RequestOK(next)
    BY <1>1, <1>4, <1>5, <1>8, <1>9 DEF RequestOK
<1>11. PromptCached(cached', next)
    <2>1. PromptCached(cached', state)
        BY <1>1, <1>6
    <2>2. \A n \in 1 .. Len(state.prompt_tokens) : n \in 1 .. m
        BY <1>2
    <2> HIDE DEF state
    <2> QED BY <1>5, <1>8, <2>1, <2>2 DEF PromptCached, old_slots
<1>12. \A q \in Active' : RequestOK(requests'[q]) /\ PromptCached(cached', requests'[q])
    BY <1>6, <1>7, <1>10, <1>11 DEF LockInv
<1>13. free' \subseteq Slot /\ requests' = [q \in Active' |-> requests'[q]]
    BY <1>3, <1>7 DEF LockInv
<1> QED BY <1>6, <1>12, <1>13, LockInvFromParts

\* Any eviction, requests active or not, spares the prefixes of every prompt.
LEMMA EvictLock ==
    ASSUME LockInv, NEW n \in EvictSizes, Evict(n)
    PROVE  LockInv'
<1>1. PICK V \in EvictionSets(cached, Pins, n) :
        /\ cached' = Evicted(cached, V)
        /\ free' = free \union {cached[p] : p \in V}
    BY DEF Evict
<1>2. UNCHANGED requests /\ Active' = Active
    BY DEF Evict, Active
<1>3. \A r \in Active :
        /\ requests[r].radix_node = requests[r].prompt_tokens
        /\ requests[r].radix_node \in Seq(Token)
    BY DEF LockInv, RequestOK, RequestState
<1>4. Pins \subseteq Seq(Token)
    BY <1>3 DEF Pins
<1>5. /\ cached \in [DOMAIN cached -> Slot]
      /\ DOMAIN cached \subseteq Seq(Token) \ {<<>>}
      /\ IsPrefixClosed(cached)
    BY DEF LockInv, CacheOK
<1>6. /\ DOMAIN cached' = DOMAIN cached \ V
      /\ cached' \in [DOMAIN cached' -> Slot]
      /\ IsPrefixClosed(cached')
      /\ \A p \in DOMAIN cached' : cached'[p] = cached[p]
      /\ \A q \in Pins : PrefixesOf(q) \subseteq DOMAIN cached
                => PrefixesOf(q) \subseteq DOMAIN cached'
    BY <1>1, <1>4, <1>5, EvictProperties, ZenonT(60)
<1>7. ASSUME NEW r \in Active PROVE PromptCached(cached', requests[r])
    <2> DEFINE prompt == requests[r].prompt_tokens
    <2>1. PromptCached(cached, requests[r]) /\ prompt \in Pins
        BY <1>3 DEF LockInv, Pins
    <2>2. PrefixesOf(prompt) \subseteq DOMAIN cached'
        BY <1>6, <2>1 DEF PromptCached, PrefixesOf
    <2> QED BY <1>6, <2>1, <2>2 DEF PromptCached, PrefixesOf
<1>8. V \subseteq DOMAIN cached
    BY DEF EvictionSets, EvictableEntries
<1>9. free' \subseteq Slot /\ CacheOK'
    BY <1>1, <1>5, <1>6, <1>8 DEF LockInv, CacheOK
<1>10. \A q \in Active' : RequestOK(requests'[q]) /\ PromptCached(cached', requests'[q])
    BY <1>2, <1>7 DEF LockInv
<1>11. requests' = [q \in Active' |-> requests'[q]]
    BY <1>2 DEF LockInv
<1> QED BY <1>9, <1>10, <1>11, LockInvFromParts

LEMMA FinishLock ==
    ASSUME LockInv, NEW r \in Request, FinishRequest(r)
    PROVE  LockInv'
<1>1. requests' = [q \in Active \ {r} |-> requests[q]] /\ UNCHANGED <<free, cached>>
    BY DEF FinishRequest, Restrict
<1>2. Active' = Active \ {r} /\ \A q \in Active' : q \in Active /\ requests'[q] = requests[q]
    BY <1>1 DEF Active
<1>3. \A q \in Active' : RequestOK(requests'[q]) /\ PromptCached(cached', requests'[q])
    BY <1>1, <1>2 DEF LockInv
<1>4. requests' = [q \in Active' |-> requests'[q]]
    BY <1>1, <1>2
<1>5. free' \subseteq Slot /\ CacheOK'
    BY <1>1 DEF LockInv, CacheOK
<1> QED BY <1>3, <1>4, <1>5, LockInvFromParts

\* A pass that fails, and a call that changes nothing.
LEMMA NothingRecorded ==
    ASSUME LockInv, free' \subseteq free, UNCHANGED <<cached, requests>>
    PROVE  LockInv'
<1>1. Active' = Active
    BY DEF Active
<1>2. \A q \in Active' : RequestOK(requests'[q]) /\ PromptCached(cached', requests'[q])
    BY <1>1 DEF LockInv
<1>3. free' \subseteq Slot /\ CacheOK' /\ requests' = [q \in Active' |-> requests'[q]]
    BY <1>1 DEF LockInv, CacheOK
<1> QED BY <1>2, <1>3, LockInvFromParts

LEMMA NextLockInv == LockInv /\ [Next]_vars => LockInv'
<1> SUFFICES ASSUME LockInv, [Next]_vars PROVE LockInv'
    OBVIOUS
<1>1. ASSUME NEW r \in Request, NEW prompt \in Prompts, ForwardPrefill(r, prompt)
      PROVE  LockInv'
    BY <1>1, PrefillLock
<1>2. ASSUME NEW r \in Request, NEW prompt \in Prompts, PrefillFails(r, prompt)
      PROVE  LockInv'
    BY <1>2, NothingRecorded DEF PrefillFails
<1>3. ASSUME NEW r \in Request, NEW token_id \in Token, ForwardDecode(r, token_id)
      PROVE  LockInv'
    BY <1>3, DecodeLock
<1>4. ASSUME NEW r \in Request, DecodeFails(r) PROVE LockInv'
    BY <1>4, NothingRecorded DEF DecodeFails
<1>5. ASSUME NEW r \in Request, FinishRequest(r) PROVE LockInv'
    BY <1>5, FinishLock
<1>6. ASSUME NEW n \in EvictSizes, Evict(n) PROVE LockInv'
    BY <1>6, EvictLock
<1>7. ASSUME UNCHANGED vars PROVE LockInv'
    BY <1>7, NothingRecorded DEF vars
<1>8. ASSUME NEW r \in Request, NEW prompt \in Prompts, PrefillRaises(r, prompt)
      PROVE  LockInv'
    BY <1>7, <1>8 DEF PrefillRaises
<1>9. ASSUME NEW r \in Request, DecodeRaises(r) PROVE LockInv'
    BY <1>7, <1>9 DEF DecodeRaises
<1> QED BY <1>1, <1>2, <1>3, <1>4, <1>5, <1>6, <1>7, <1>8, <1>9 DEF Next

\* With evictions at any time, while a request is active its prompt stays
\* cached at the slots it uses: forward_prefill locks the right node.
THEOREM LockedPromptStaysCached == Spec => []PromptStaysCached
<1>1. LockInv => PromptStaysCached
    BY DEF LockInv, PromptCached, PromptStaysCached
<1> QED BY InitLockInv, NextLockInv, <1>1, PTL DEF Spec
=============================================================================
