-------------------------- MODULE ForwardPass_proofs --------------------------
(***************************************************************************)
(* A runner whose passes are cut into layers and may break off anywhere    *)
(* implements ModelRunner, and every layer of every pass sees exactly the  *)
(* context of its request, for any number of layers, slots and requests    *)
(* and any prompts, provided nothing is evicted while a request is active. *)
(***************************************************************************)
EXTENDS ForwardPass, PrefixMap_lemmas

\* What is proved of ModelRunner, for the runner as it was before the pass.
P == INSTANCE ModelRunner_proofs WITH
    free <- FreeBefore, kv <- KvBefore, requests <- States

\* The slots the pass has allocated.
Taken == pass.before.free \ free

\* Slots for tokens of which the first `done` are in use and right, and the
\* others are from the free list or hold already what they will be given.
Planned(slots, tokens, done, from, kv) ==
    /\ tokens \in Seq(Token) /\ slots \in Seq(Slot) /\ Len(slots) = Len(tokens)
    /\ done \in 0 .. Len(tokens) - 1
    /\ \A i \in 1 .. done : slots[i] \notin from /\ kv[slots[i]] = Take(tokens, i)
    /\ \A i \in (done + 1) .. Len(tokens) :
            slots[i] \in from \/ kv[slots[i]] = Take(tokens, i)
    /\ \A i, j \in (done + 1) .. Len(tokens) : slots[i] = slots[j] => i = j

\* PrefillSlots and ReusedLen of ModelRunner.
SlotChoices(map, from, prompt) ==
    IF MatchLen(map, prompt) = Len(prompt) THEN {MatchedSlots(map, prompt)}
    ELSE {MatchedSlots(map, prompt) \o new :
            new \in {f \in [1 .. Len(prompt) - MatchLen(map, prompt) -> from] : IsInjective(f)}}
ReusedIn(map, prompt) ==
    MatchLen(map, prompt) - (IF MatchLen(map, prompt) = Len(prompt) THEN 1 ELSE 0)

PooledKVCache ==
    [prefix_indices: Seq(Slot), new_indices: Seq(Slot), store_offset: Nat]

StateWithCaches ==
    [prompt_tokens: Seq(Token), output_tokens: Seq(Token), all_slot_indices: Seq(Slot),
     radix_node: Seq(Token), kv_caches: [Layer -> PooledKVCache]]

RunningPass ==
    [kind: {"prefill", "decode"}, request: Request, tokens: Seq(Token), done: Nat,
     kv_caches: [Layer -> PooledKVCache], layer: 1 .. NumLayers + 1, sound: {TRUE},
     before: [free: SUBSET Slot, kv: [Slot -> Seq(Token)]]]

\* How the layers of the pass are set up: alike, the first ones having stored
\* all new tokens.
CachesOK ==
    \A l \in Layer :
        /\ pass.kv_caches[l].prefix_indices = pass.kv_caches[1].prefix_indices
        /\ pass.kv_caches[l].new_indices = pass.kv_caches[1].new_indices
        /\ pass.kv_caches[l].store_offset
                = IF l < pass.layer THEN Len(pass.tokens) - pass.done ELSE 0

\* The tokens of an active request.
Context(r) == requests[r].prompt_tokens \o requests[r].output_tokens

\* The call the pass belongs to.
PrefillOK ==
    /\ pass.request \notin Active /\ pass.tokens \in Prompts
    /\ PassSlots \in SlotChoices(cached, pass.before.free, pass.tokens)
    /\ pass.done = ReusedIn(cached, pass.tokens)

DecodeOK ==
    /\ pass.request \in Active
    /\ Len(pass.tokens) <= MaxLen
    /\ pass.done = Len(pass.tokens) - 1
    /\ \E token_id \in Token, new_slot \in pass.before.free :
        /\ pass.tokens = Append(Context(pass.request), token_id)
        /\ PassSlots = Append(requests[pass.request].all_slot_indices, new_slot)

\* What the pass has done to the buffers: the layers it passed hold the new
\* tokens, and nothing but the slots it took has changed.
BuffersOK ==
    /\ \A s \in Slot \ Taken : Content(s) = pass.before.kv[s]
    /\ \A l \in Layer : l < pass.layer =>
        \A i \in (pass.done + 1) .. Len(pass.tokens) :
            buffer[l][PassSlots[i]] = Take(pass.tokens, i)

PassOK ==
    /\ pass \in RunningPass
    /\ Len(pass.kv_caches[1].prefix_indices) = pass.done
    /\ Planned(PassSlots, pass.tokens, pass.done, pass.before.free, pass.before.kv)
    /\ free = pass.before.free \ ToSet(PassSlots)
    /\ CachesOK
    /\ pass.kind = "prefill" => PrefillOK
    /\ pass.kind = "decode" => DecodeOK
    /\ BuffersOK

\* What ties the parts of a pass to the runner before it.
Link ==
    /\ buffer \in [Layer -> [Slot -> Seq(Token)]]
    /\ requests \in [Active -> StateWithCaches]
    /\ lost \subseteq Slot /\ lost \intersect FreeBefore = {}
    /\ pass # Idle => PassOK

\* The invariant.
FInv == P!IInv /\ Link

-----------------------------------------------------------------------------
LEMMA RunnerAssumptions ==
    /\ P!IsFiniteSet(Slot)
    /\ Prompts \subseteq Seq(Token) \ {<<>>}
    /\ MaxLen \in Nat
    /\ EvictSizes \subseteq Nat
    /\ EvictWhileActive \in BOOLEAN /\ ModelMayRaise \in BOOLEAN
BY RunnerAssumption DEF IsFiniteSet, P!IsFiniteSet

LEMMA SameMatch ==
    ASSUME NEW map, NEW key
    PROVE  /\ P!Take(key, 1) = Take(key, 1)
           /\ P!MatchLen(map, key) = MatchLen(map, key)
           /\ R!MatchLen(map, key) = MatchLen(map, key)
           /\ P!MatchedKey(map, key) = MatchedKey(map, key)
           /\ R!MatchedKey(map, key) = MatchedKey(map, key)
           /\ P!MatchedSlots(map, key) = MatchedSlots(map, key)
           /\ R!MatchedSlots(map, key) = MatchedSlots(map, key)
BY DEF P!MatchLen, R!MatchLen, MatchLen, P!Take, R!Take, Take, P!Max, R!Max, Max,
   P!MatchedKey, R!MatchedKey, MatchedKey, P!MatchedSlots, R!MatchedSlots, MatchedSlots

LEMMA SamePrefill == 
    ASSUME NEW prompt
    PROVE R!PrefillSlots(prompt) = P!PrefillSlots(prompt)
         /\ R!ReusedLen(prompt) = P!ReusedLen(prompt)
BY SameMatch DEF R!PrefillSlots, P!PrefillSlots, R!ReusedLen, P!ReusedLen, R!FullHit, P!FullHit, R!Allocations, P!Allocations, R!IsInjective, P!IsInjective

LEMMA SameHelpers ==
    ASSUME NEW slots, NEW tokens, NEW m, NEW n, NEW map, NEW key, NEW pins
    PROVE  /\ P!Forward(slots, tokens, m) = R!Forward(slots, tokens, m)
           /\ P!Inserted(map, key, slots) = R!Inserted(map, key, slots)
           /\ R!Inserted(map, key, slots) = Inserted(map, key, slots)
           /\ P!Evicted(map, key) = R!Evicted(map, key)
           /\ P!EvictionSets(map, pins, n) = R!EvictionSets(map, pins, n)
           /\ P!ToSet(slots) = R!ToSet(slots)
           /\ P!Restrict(slots, tokens) = R!Restrict(slots, tokens)
           /\ P!Tokens(slots) = R!Tokens(slots)
<1>1. P!Forward(slots, tokens, m) = R!Forward(slots, tokens, m)
    BY DEF P!Forward, R!Forward, P!ContextIntact, R!ContextIntact, P!Take, R!Take, P!Garbage, R!Garbage
<1>2. /\ P!Inserted(map, key, slots) = R!Inserted(map, key, slots)
      /\ R!Inserted(map, key, slots) = Inserted(map, key, slots)
    BY DEF P!Inserted, R!Inserted, Inserted, P!PrefixesOf, R!PrefixesOf, PrefixesOf, P!Take, R!Take, Take
<1>3. /\ P!Evicted(map, key) = R!Evicted(map, key)
      /\ P!ToSet(slots) = R!ToSet(slots)
      /\ P!Restrict(slots, tokens) = R!Restrict(slots, tokens)
      /\ P!Tokens(slots) = R!Tokens(slots)
    BY DEF P!Evicted, R!Evicted, P!ToSet, R!ToSet, P!Restrict, R!Restrict, P!Tokens, R!Tokens
<1>4. P!EvictionSets(map, pins, n) = R!EvictionSets(map, pins, n)
    BY DEF P!EvictionSets, R!EvictionSets, P!EvictableEntries, R!EvictableEntries,
       P!PinnedEntries, R!PinnedEntries, P!IsPrefix, R!IsPrefix, P!Cardinality, R!Cardinality, P!Take, R!Take
<1> QED BY <1>1, <1>2, <1>3, <1>4

LEMMA SameNext == [R!Next]_R!vars => [P!Next]_P!vars
<1>1. R!Active = P!Active /\ R!vars = P!vars /\ R!vars' = P!vars'
    BY DEF R!Active, P!Active, R!vars, P!vars
<1>2. R!Pins = P!Pins
    BY <1>1 DEF R!Pins, P!Pins
<1>3. ASSUME NEW r, NEW prompt, R!ForwardPrefill(r, prompt)
      PROVE  P!ForwardPrefill(r, prompt)
    <2>1. P!MatchedKey(cached', prompt) = R!MatchedKey(cached', prompt)
        BY SameMatch
    <2>2. P!PrefillSlots(prompt) = R!PrefillSlots(prompt)
          /\ P!ReusedLen(prompt) = R!ReusedLen(prompt)
        BY SamePrefill
    <2>3. \A slots : /\ P!ToSet(slots) = R!ToSet(slots)
                     /\ P!Forward(slots, prompt, P!ReusedLen(prompt))
                            = R!Forward(slots, prompt, R!ReusedLen(prompt))
                     /\ P!Inserted(cached, prompt, slots) = R!Inserted(cached, prompt, slots)
        BY <2>2, SameHelpers
    <2> QED BY <1>1, <1>3, <2>1, <2>2, <2>3, Zenon DEF R!ForwardPrefill, P!ForwardPrefill
<1>4. ASSUME NEW r, NEW prompt, R!PrefillFails(r, prompt)
      PROVE  P!PrefillFails(r, prompt)
    BY <1>1, <1>4, SamePrefill, SameHelpers, SameMatch
    DEF R!PrefillFails, P!PrefillFails, R!Garbage, P!Garbage
<1>5. ASSUME NEW r, NEW prompt, R!PrefillRaises(r, prompt)
      PROVE  P!PrefillRaises(r, prompt)
    BY <1>1, <1>5, SameMatch DEF R!PrefillRaises, P!PrefillRaises, R!Cardinality, P!Cardinality
<1>6. ASSUME NEW r, NEW token_id, R!ForwardDecode(r, token_id)
      PROVE  P!ForwardDecode(r, token_id)
    <2>1. P!Tokens(States[r]) = R!Tokens(States[r])
        BY SameHelpers
    <2>2. \A slots, tokens, m :
            /\ P!Forward(slots, tokens, m) = R!Forward(slots, tokens, m)
            /\ P!Inserted(cached, tokens, slots) = R!Inserted(cached, tokens, slots)
        BY SameHelpers
    <2> QED BY <1>1, <1>6, <2>1, <2>2, Zenon DEF R!ForwardDecode, P!ForwardDecode
<1>7. ASSUME NEW r, R!DecodeFails(r) \/ R!DecodeRaises(r) \/ R!FinishRequest(r)
      PROVE  P!DecodeFails(r) \/ P!DecodeRaises(r) \/ P!FinishRequest(r)
    BY <1>1, <1>7, SameHelpers
    DEF R!DecodeFails, P!DecodeFails, R!Garbage, P!Garbage, R!DecodeRaises, P!DecodeRaises, R!FinishRequest, P!FinishRequest
<1>8. ASSUME NEW n, R!Evict(n) PROVE P!Evict(n)
    BY <1>1, <1>2, <1>8, SameHelpers DEF R!Evict, P!Evict
<1> QED BY <1>1, <1>3, <1>4, <1>5, <1>6, <1>7, <1>8 DEF R!Next, P!Next

LEMMA SameChoices ==
    ASSUME NEW prompt
    PROVE  /\ R!PrefillSlots(prompt) = SlotChoices(cached, FreeBefore, prompt)
           /\ R!ReusedLen(prompt) = ReusedIn(cached, prompt)
<1>1. /\ R!MatchLen(cached, prompt) = MatchLen(cached, prompt)
      /\ R!MatchedSlots(cached, prompt) = MatchedSlots(cached, prompt)
    BY SameMatch
<1> QED BY <1>1 DEF R!PrefillSlots, SlotChoices, R!ReusedLen, ReusedIn, R!FullHit,
                    R!Allocations, R!IsInjective, IsInjective

-----------------------------------------------------------------------------
\* What the invariant of ModelRunner says here.
LEMMA CacheFacts ==
    ASSUME FInv
    PROVE  /\ FreeBefore \subseteq Slot
           /\ KvBefore \in [Slot -> Seq(Token)]
           /\ Active \subseteq Request
           /\ cached \in [DOMAIN cached -> Slot]
           /\ DOMAIN cached \subseteq Seq(Token) \ {<<>>}
           /\ IsPrefixClosed(cached)
           /\ \A p \in DOMAIN cached :
                KvBefore[cached[p]] = p /\ cached[p] \in Slot \ FreeBefore
<1>1. P!CacheInv
    BY DEF FInv, P!IInv
<1>2. P!TypeOK /\ P!CacheCoherent /\ FreeBefore \intersect P!CacheSlots = {}
    BY <1>1 DEF P!CacheInv
<1>3. IsPrefixClosed(cached)
    BY <1>1 DEF P!CacheInv, P!IsPrefixClosed, P!PrefixesOf, P!Take,
                IsPrefixClosed, PrefixesOf, Take
<1>4. P!Active = Active
    BY DEF P!Active, States
<1>5. /\ FreeBefore \subseteq Slot
      /\ KvBefore \in [Slot -> Seq(Token)]
      /\ Active \subseteq Request
      /\ cached \in [DOMAIN cached -> Slot]
      /\ DOMAIN cached \subseteq Seq(Token) \ {<<>>}
    BY <1>2, <1>4 DEF P!TypeOK
<1>6. \A p \in DOMAIN cached : KvBefore[cached[p]] = p /\ cached[p] \in Slot \ FreeBefore
    BY <1>2, <1>5 DEF P!CacheCoherent, P!CacheSlots
<1> QED BY <1>3, <1>5, <1>6

LEMMA RequestFacts ==
    ASSUME FInv, NEW r \in Active
    PROVE  /\ requests[r] \in StateWithCaches
           /\ Context(r) \in Seq(Token)
           /\ Len(requests[r].all_slot_indices) = Len(Context(r))
           /\ \A i \in 1 .. Len(Context(r)) :
                LET s == requests[r].all_slot_indices[i]
                IN  s \in Slot \ FreeBefore /\ KvBefore[s] = Take(Context(r), i)
<1>1. requests[r] \in StateWithCaches
    BY DEF FInv, Link
<1>2. Context(r) \in Seq(Token)
    BY <1>1, ConcatProperties DEF Context, StateWithCaches
<1>3. /\ P!Active = Active
      /\ States[r].all_slot_indices = requests[r].all_slot_indices
      /\ P!Tokens(States[r]) = Context(r)
    BY DEF P!Active, States, P!Tokens, Context
<1>4. P!TypeOK /\ P!Intact(r)
    BY <1>3 DEF FInv, P!IInv, P!CacheInv
<1>5. Len(requests[r].all_slot_indices) = Len(Context(r))
    BY <1>3, <1>4 DEF P!TypeOK
<1> DEFINE slots == requests[r].all_slot_indices
<1>6. slots \in Seq(Slot) /\ DOMAIN slots = 1 .. Len(Context(r))
    BY <1>1, <1>5 DEF StateWithCaches
<1>7. \A i \in 1 .. Len(Context(r)) : KvBefore[slots[i]] = Take(Context(r), i)
    BY <1>3, <1>4 DEF P!Intact, P!ContextIntact, P!Take, Take
<1>8. FreeBefore \intersect {slots[i] : i \in 1 .. Len(Context(r))} = {}
    BY <1>3, <1>4, <1>6 DEF P!Intact, P!UsedBy, P!ToSet
<1> HIDE DEF slots
<1>9. \A i \in 1 .. Len(Context(r)) : slots[i] \in Slot \ FreeBefore
    BY <1>6, <1>8
<1> QED BY <1>1, <1>2, <1>5, <1>7, <1>9 DEF slots

\* A slot in use holds, in every layer, what the runner takes it to hold.
LEMMA UsedSlots ==
    ASSUME FInv, NEW s \in Slot \ FreeBefore, KvBefore[s] # <<>>
    PROVE  s \notin lost /\ \A l \in Layer : buffer[l][s] = KvBefore[s]
<1>1. Content(s) = KvBefore[s]
    <2>1. CASE pass = Idle
        BY <2>1 DEF KvBefore, Contents
    <2>2. CASE pass # Idle
        <3>1. s \notin Taken /\ KvBefore = pass.before.kv
            BY <2>2 DEF Taken, FreeBefore, KvBefore
        <3> QED BY <2>2, <3>1 DEF FInv, Link, PassOK, BuffersOK
    <2> QED BY <2>1, <2>2
<1> QED BY <1>1 DEF Content, Garbage

LEMMA TakeNotEmpty ==
    ASSUME NEW S, NEW key \in Seq(S), NEW n \in 1 .. Len(key)
    PROVE  Take(key, n) \in Seq(S) \ {<<>>} /\ Len(Take(key, n)) = n
<1>1. n \in 0 .. Len(key) /\ n # 0
    BY LenProperties
<1>2. Take(key, n) \in Seq(S) /\ Len(Take(key, n)) = n
    BY <1>1, TakeProperties
<1> QED BY <1>1, <1>2, EmptySeq

LEMMA CoherentLayers == FInv => LayersCoherent
<1> SUFFICES ASSUME FInv, NEW l \in Layer
             PROVE  /\ \A p \in DOMAIN cached : buffer[l][cached[p]] = p
                    /\ \A r \in Active :
                        Fetched(buffer[l], requests[r].all_slot_indices)
                            = [i \in DOMAIN Context(r) |-> Take(Context(r), i)]
    BY DEF LayersCoherent, Context
<1>1. ASSUME NEW p \in DOMAIN cached PROVE buffer[l][cached[p]] = p
    <2>1. KvBefore[cached[p]] = p /\ cached[p] \in Slot \ FreeBefore /\ p # <<>>
        BY CacheFacts
    <2> QED BY <2>1, UsedSlots
<1>2. ASSUME NEW r \in Active
      PROVE  Fetched(buffer[l], requests[r].all_slot_indices)
                = [i \in DOMAIN Context(r) |-> Take(Context(r), i)]
    <2> DEFINE slots == requests[r].all_slot_indices
               tokens == Context(r)
    <2>1. /\ tokens \in Seq(Token) /\ slots \in Seq(Slot) /\ Len(slots) = Len(tokens)
          /\ \A i \in 1 .. Len(tokens) :
                slots[i] \in Slot \ FreeBefore /\ KvBefore[slots[i]] = Take(tokens, i)
        BY RequestFacts DEF StateWithCaches
    <2> HIDE DEF slots, tokens
    <2>2. \A i \in 1 .. Len(tokens) : buffer[l][slots[i]] = Take(tokens, i)
        BY <2>1, UsedSlots, TakeNotEmpty
    <2>3. DOMAIN slots = 1 .. Len(tokens) /\ DOMAIN tokens = 1 .. Len(tokens)
        BY <2>1
    <2>4. Fetched(buffer[l], slots) = [i \in DOMAIN tokens |-> Take(tokens, i)]
        BY <2>2, <2>3 DEF Fetched
    <2> QED BY <2>4 DEF slots, tokens
<1> QED BY <1>1, <1>2

-----------------------------------------------------------------------------
\* What a prefill is given: the slots the match returned, then new ones.
LEMMA PrefillIsPlanned ==
    ASSUME FInv, NEW prompt \in Prompts,
           NEW slots \in SlotChoices(cached, FreeBefore, prompt)
    PROVE  Planned(slots, prompt, ReusedIn(cached, prompt), FreeBefore, KvBefore)
<1>1. prompt \in Seq(Token) \ {<<>>} /\ Len(prompt) \in Nat
    BY RunnerAssumptions, LenProperties
<1>2. /\ slots \in P!PrefillSlots(prompt)
      /\ P!ReusedLen(prompt) = ReusedIn(cached, prompt)
      /\ P!CacheInv
    BY SameChoices, SamePrefill DEF FInv, P!IInv
<1>3. LET k == P!ReusedLen(prompt)
      IN  /\ slots \in Seq(Slot)
          /\ Len(slots) = Len(prompt)
          /\ k \in 0 .. Len(prompt) - 1
          /\ \A i \in 1 .. k : slots[i] \notin FreeBefore
          /\ P!ContextIntact(slots, prompt, k)
          /\ \A i \in (k + 1) .. Len(prompt) :
                    slots[i] \in FreeBefore \/ KvBefore[slots[i]] = P!Take(prompt, i)
          /\ \A i, j \in (k + 1) .. Len(prompt) : slots[i] = slots[j] => i = j
    BY <1>1, <1>2, RunnerAssumptions, P!PrefillSlotsProperties
<1> QED BY <1>1, <1>2, <1>3 DEF Planned, P!ContextIntact, P!Take, Take

\* What a decode is given: the request's slots, then a new one.
LEMMA DecodeIsPlanned ==
    ASSUME FInv, NEW r \in Active, NEW token_id \in Token, NEW new_slot \in FreeBefore
    PROVE  LET tokens == Append(Context(r), token_id)
               slots == Append(requests[r].all_slot_indices, new_slot)
           IN  /\ Len(tokens) - 1 = Len(requests[r].all_slot_indices)
               /\ Planned(slots, tokens, Len(tokens) - 1, FreeBefore, KvBefore)
<1> DEFINE tokens == Append(Context(r), token_id)
           old == requests[r].all_slot_indices
           slots == Append(old, new_slot)
           n == Len(old)
           context == Context(r)
<1>1. /\ old \in Seq(Slot) /\ context \in Seq(Token) /\ Len(context) = n /\ n \in Nat
      /\ \A i \in 1 .. n : old[i] \in Slot \ FreeBefore /\ KvBefore[old[i]] = Take(context, i)
    <2>1. old \in Seq(Slot)
        BY RequestFacts DEF StateWithCaches
    <2> QED BY <2>1, RequestFacts, LenProperties
<1>2. new_slot \in Slot
    BY CacheFacts
<1> HIDE DEF old, context
<1>3. /\ slots \in Seq(Slot) /\ Len(slots) = n + 1
      /\ \A i \in 1 .. n : slots[i] = old[i]
      /\ slots[n + 1] = new_slot
    BY <1>1, <1>2, AppendProperties
<1>4. /\ tokens \in Seq(Token) /\ Len(tokens) = n + 1
      /\ \A i \in 1 .. n : tokens[i] = context[i]
    BY <1>1, AppendProperties DEF context
<1>5. ASSUME NEW i \in 1 .. n PROVE Take(tokens, i) = Take(context, i)
    BY <1>1, <1>4, <1>5 DEF Take
<1>6. n + 1 - 1 = n /\ n \in 0 .. n + 1 - 1 /\ \A i \in (n + 1) .. n + 1 : i = n + 1
    BY <1>1
<1> HIDE DEF slots, tokens
<1>7. Planned(slots, tokens, n, FreeBefore, KvBefore)
    BY <1>1, <1>3, <1>4, <1>5, <1>6 DEF Planned
<1> QED BY <1>4, <1>6, <1>7 DEF slots, tokens, old, context

-----------------------------------------------------------------------------
LEMMA SameContent ==
    ASSUME UNCHANGED <<buffer, lost>>
    PROVE  Contents' = Contents /\ \A s : Content(s)' = Content(s)
BY DEF Contents, Content, Garbage

\* A step of ModelRunner, with the parts of the pass still in their places.
LEMMA StepIsSafe ==
    FInv /\ EvictWhileActive = FALSE /\ [R!Next]_R!vars /\ Link' => FInv'
<1> SUFFICES ASSUME FInv, EvictWhileActive = FALSE, [R!Next]_R!vars, Link' PROVE FInv'
    OBVIOUS
<1>1. [P!Next]_P!vars
    BY SameNext
<1>2. P!IInv'
    BY <1>1, RunnerAssumptions, P!NextIInv DEF FInv
<1> QED BY <1>2 DEF FInv

\* A pass that begins changes nothing the runner would be asked about.
LEMMA BeginPass ==
    ASSUME FInv, pass = Idle,
           NEW kind \in {"prefill", "decode"}, NEW r \in Request, NEW tokens, NEW done,
           NEW prefix \in Seq(Slot), NEW new \in Seq(Slot), Len(prefix) = done,
           Planned(prefix \o new, tokens, done, FreeBefore, KvBefore),
           free' = free \ ToSet(prefix \o new),
           pass' = Pass(kind, r, tokens, done,
                        [l \in Layer |-> [prefix_indices |-> prefix, new_indices |-> new,
                                          store_offset |-> 0]]),
           UNCHANGED <<cached, buffer, requests, lost>>,
           kind = "prefill" => /\ r \notin Active /\ tokens \in Prompts
                               /\ prefix \o new \in SlotChoices(cached, FreeBefore, tokens)
                               /\ done = ReusedIn(cached, tokens),
           kind = "decode" =>
                /\ r \in Active /\ Len(tokens) <= MaxLen /\ done = Len(tokens) - 1
                /\ \E token_id \in Token, new_slot \in FreeBefore :
                    /\ tokens = Append(Context(r), token_id)
                    /\ prefix \o new = Append(requests[r].all_slot_indices, new_slot)
    PROVE  UNCHANGED R!vars /\ Link'
<1> DEFINE cache == [prefix_indices |-> prefix, new_indices |-> new, store_offset |-> 0]
           before == [free |-> free, kv |-> Contents]
           next == [kind |-> kind, request |-> r, tokens |-> tokens, done |-> done,
                    kv_caches |-> [l \in Layer |-> cache], layer |-> 1, sound |-> TRUE,
                    before |-> before]
<1>1. FreeBefore = free /\ KvBefore = Contents
    BY DEF FreeBefore, KvBefore
<1>2. pass' = next
    BY DEF Pass
<1>3. next # Idle
    <2>1. next.kind # Idle.kind
        BY DEF Idle
    <2> QED BY <2>1
<1>4. pass'.before = before /\ pass' # Idle
    BY <1>2, <1>3
<1>5. FreeBefore' = free /\ KvBefore' = Contents
    BY <1>4 DEF FreeBefore, KvBefore, Idle
<1>6. Active' = Active /\ States' = States
    BY DEF Active, States
<1>7. UNCHANGED R!vars
    BY <1>1, <1>5, <1>6 DEF R!vars
<1>8. 1 \in Layer
    BY NumLayersAssumption DEF Layer
<1>9. /\ pass'.kv_caches[1] = cache /\ PassSlots' = prefix \o new
      /\ \A l \in Layer : pass'.kv_caches[l] = cache
    <2>1. pass'.kv_caches = [l \in Layer |-> cache]
        BY <1>2
    <2>2. \A l \in Layer : pass'.kv_caches[l] = cache
        BY <2>1
    <2>3. cache.prefix_indices = prefix /\ cache.new_indices = new
        OBVIOUS
    <2> HIDE DEF cache
    <2>4. pass'.kv_caches[1] = cache
        BY <1>8, <2>2
    <2>5. PassSlots' = prefix \o new
        BY <2>3, <2>4, Zenon DEF PassSlots
    <2> QED BY <2>2, <2>4, <2>5
<1>10. Len(tokens) \in Nat /\ done \in Nat /\ tokens \in Seq(Token)
    BY LenProperties DEF Planned
<1>11. pass' \in RunningPass
    <2>1. cache \in PooledKVCache /\ 1 \in 1 .. NumLayers + 1
        BY NumLayersAssumption DEF PooledKVCache
    <2>2. [l \in Layer |-> cache] \in [Layer -> PooledKVCache]
        BY <2>1
    <2>3. before \in [free: SUBSET Slot, kv: [Slot -> Seq(Token)]]
        BY <1>1, CacheFacts
    <2> HIDE DEF cache, before
    <2>4. next \in RunningPass
        BY <1>10, <2>1, <2>2, <2>3 DEF RunningPass
    <2> QED BY <1>2, <2>4
<1>12. CachesOK'
    <2>1. pass'.layer = 1 /\ \A l \in Layer : ~(l < 1)
        BY <1>2 DEF Layer
    <2> QED BY <1>9, <2>1 DEF CachesOK
<1>13. BuffersOK'
    <2>1. \A s \in Slot : Content(s)' = pass'.before.kv[s]
        BY <1>4, SameContent DEF Contents
    <2>2. pass'.layer = 1 /\ \A l \in Layer : ~(l < 1)
        BY <1>2 DEF Layer
    <2> QED BY <2>1, <2>2 DEF BuffersOK
<1>14. /\ pass'.kind = kind /\ pass'.request = r /\ pass'.tokens = tokens
       /\ pass'.done = done
    BY <1>2
<1> HIDE DEF next, cache, before
<1>15. ASSUME kind = "prefill" PROVE PrefillOK'
    BY <1>1, <1>4, <1>6, <1>9, <1>14, <1>15 DEF PrefillOK, before
<1>16. ASSUME kind = "decode" PROVE DecodeOK'
    <2>1. pass'.before.free = FreeBefore /\ requests' = requests /\ Context(r)' = Context(r)
        BY <1>1, <1>4 DEF before, Context
    <2>2. PICK token_id \in Token, new_slot \in FreeBefore :
            /\ tokens = Append(Context(r), token_id)
            /\ prefix \o new = Append(requests[r].all_slot_indices, new_slot)
        BY <1>16
    <2>3. Context(pass.request)' = Context(r)
        BY <1>14, <2>1 DEF Context
    <2>4. /\ pass'.tokens = Append(Context(pass.request)', token_id)
          /\ PassSlots' = Append(requests'[pass'.request].all_slot_indices, new_slot)
        BY <1>9, <1>14, <2>1, <2>2, <2>3
    <2> QED BY <1>6, <1>14, <1>16, <2>1, <2>4 DEF DecodeOK
<1>17. PassOK'
    <2>1. pass'.before.free = free /\ pass'.before.kv = Contents
        BY <1>4 DEF before
    <2>2. /\ Len(pass'.kv_caches[1].prefix_indices) = pass'.done
          /\ free' = pass'.before.free \ ToSet(PassSlots')
        BY <1>9, <1>14, <2>1 DEF cache
    <2>3. Planned(PassSlots', pass'.tokens, pass'.done, pass'.before.free, pass'.before.kv)
        BY <1>1, <1>9, <1>14, <2>1
    <2> QED BY <1>11, <1>12, <1>13, <1>14, <1>15, <1>16, <2>2, <2>3 DEF PassOK
<1>18. /\ buffer' \in [Layer -> [Slot -> Seq(Token)]]
       /\ requests' \in [Active' -> StateWithCaches]
       /\ lost' \subseteq Slot /\ lost' \intersect FreeBefore' = {}
    BY <1>1, <1>5, <1>6 DEF FInv, Link
<1> QED BY <1>7, <1>17, <1>18 DEF Link

\* s[:n] and s[n:].
LEMMA SliceProperties ==
    ASSUME NEW S, NEW s \in Seq(S), NEW n \in 0 .. Len(s)
    PROVE  /\ Take(s, n) \in Seq(S) /\ Len(Take(s, n)) = n
           /\ Slice(s, n, Len(s)) \in Seq(S)
           /\ Take(s, n) \o Slice(s, n, Len(s)) = s
           /\ Slice(s, 0, Len(s)) = s
<1>1. Len(s) \in Nat /\ n \in Nat
    BY LenProperties
<1>2. Slice(s, n, Len(s)) = SubSeq(s, n + 1, Len(s))
    BY <1>1 DEF Slice
<1>3. \A i \in n + 1 .. Len(s) : s[i] \in S
    BY <1>1, ElementOfSeq
<1>4. SubSeq(s, n + 1, Len(s)) \in Seq(S)
    BY <1>1, <1>3, SubSeqProperties
<1>5. SubSeq(s, 1, n) \o SubSeq(s, n + 1, Len(s)) = s
    <2>1. 1 \in 1 .. Len(s) + 1 /\ n \in 1 - 1 .. Len(s) /\ Len(s) \in n .. Len(s)
        BY <1>1
    <2> QED BY <2>1, ConcatAdjacentSubSeq, SubSeqFull
<1>6. Slice(s, 0, Len(s)) = s
    BY <1>1, SubSeqFull DEF Slice
<1>7. Take(s, n) \in Seq(S) /\ Len(Take(s, n)) = n
    BY TakeProperties
<1> QED BY <1>2, <1>4, <1>5, <1>6, <1>7 DEF Take

\* set_indices forgets all that the cache was.
LEMMA IndicesAreSet ==
    ASSUME NEW cache \in PooledKVCache, NEW prefix, NEW new
    PROVE  SetIndices(cache, prefix, new)
            = [prefix_indices |-> prefix, new_indices |-> new, store_offset |-> 0]
<1> DEFINE old == cache.new_indices
           offset == cache.store_offset
           first == [prefix_indices |-> prefix, new_indices |-> old, store_offset |-> offset]
           second == [prefix_indices |-> prefix, new_indices |-> new, store_offset |-> offset]
<1>1. SetIndices(cache, prefix, new)
        = [[[cache EXCEPT !.prefix_indices = prefix] EXCEPT !.new_indices = new]
                   EXCEPT !.store_offset = 0]
    BY DEF SetIndices
<1>2. [cache EXCEPT !.prefix_indices = prefix] = first
    <2>1. cache = [prefix_indices |-> cache.prefix_indices, new_indices |-> old,
                   store_offset |-> offset]
        BY DEF PooledKVCache
    <2> QED BY <2>1
<1> HIDE DEF old, offset
<1>3. [first EXCEPT !.new_indices = new] = second
    OBVIOUS
<1>4. [second EXCEPT !.store_offset = 0]
        = [prefix_indices |-> prefix, new_indices |-> new, store_offset |-> 0]
    OBVIOUS
<1> HIDE DEF first, second
<1> QED BY <1>1, <1>2, <1>3, <1>4

LEMMA BeginPrefillStep ==
    ASSUME FInv, NEW r \in Request, NEW prompt \in Prompts, BeginPrefill(r, prompt)
    PROVE  UNCHANGED R!vars /\ Link'
<1>1. pass = Idle /\ r \notin Active /\ FreeBefore = free
    BY DEF BeginPrefill, FreeBefore
<1>2. /\ R!PrefillSlots(prompt) = SlotChoices(cached, FreeBefore, prompt)
      /\ R!ReusedLen(prompt) = ReusedIn(cached, prompt)
    BY SameChoices
<1> DEFINE done == ReusedIn(cached, prompt)
<1>3. PICK slots \in SlotChoices(cached, FreeBefore, prompt) :
        /\ free' = free \ ToSet(slots)
        /\ pass' = Pass("prefill", r, prompt, done,
                [l \in Layer |-> SetIndices(NewCache, Take(slots, done),
                                            Slice(slots, done, Len(slots)))])
    BY <1>2 DEF BeginPrefill
<1>4. Planned(slots, prompt, done, FreeBefore, KvBefore)
    BY PrefillIsPlanned
<1> DEFINE prefix == Take(slots, done)
           new == Slice(slots, done, Len(slots))
<1>5. /\ prefix \in Seq(Slot) /\ new \in Seq(Slot)
      /\ Len(prefix) = done /\ prefix \o new = slots
    <2>1. slots \in Seq(Slot) /\ done \in 0 .. Len(slots)
        BY <1>4, LenProperties DEF Planned
    <2> QED BY <2>1, SliceProperties
<1>6. UNCHANGED <<cached, buffer, requests, lost>>
    BY DEF BeginPrefill
<1>7. SetIndices(NewCache, prefix, new)
        = [prefix_indices |-> prefix, new_indices |-> new, store_offset |-> 0]
    <2>1. NewCache \in PooledKVCache
        BY EmptySeq DEF NewCache, PooledKVCache
    <2> QED BY <2>1, IndicesAreSet
<1> HIDE DEF prefix, new, done
<1>8. pass' = Pass("prefill", r, prompt, done,
                   [l \in Layer |-> [prefix_indices |-> prefix, new_indices |-> new,
                                     store_offset |-> 0]])
    BY <1>3, <1>7 DEF prefix, new
<1> DEFINE kind == "prefill"
<1>9. /\ kind = "prefill" => /\ r \notin Active /\ prompt \in Prompts
                             /\ prefix \o new \in SlotChoices(cached, FreeBefore, prompt)
                             /\ done = ReusedIn(cached, prompt)
      /\ kind # "decode" /\ kind \in {"prefill", "decode"}
    BY <1>1, <1>5 DEF done
<1> HIDE DEF kind
<1>10. pass' = Pass(kind, r, prompt, done,
                    [l \in Layer |-> [prefix_indices |-> prefix, new_indices |-> new,
                                      store_offset |-> 0]])
    BY <1>8 DEF kind
<1> QED BY <1>1, <1>3, <1>4, <1>5, <1>6, <1>9, <1>10, BeginPass

LEMMA BeginDecodeStep ==
    ASSUME FInv, NEW r \in Request, NEW token_id \in Token, BeginDecode(r, token_id)
    PROVE  UNCHANGED R!vars /\ Link'
<1>1. pass = Idle /\ r \in Active /\ FreeBefore = free
    BY DEF BeginDecode, FreeBefore
<1> DEFINE tokens == Append(Context(r), token_id)
           prefix == requests[r].all_slot_indices
           done == Len(tokens) - 1
<1>2. PICK new_slot \in FreeBefore :
        /\ free' = free \ {new_slot}
        /\ pass' = Pass("decode", r, tokens, done,
                [l \in Layer |-> SetIndices(requests[r].kv_caches[l], prefix, <<new_slot>>)])
    BY <1>1 DEF BeginDecode, Context
<1>3. Len(tokens) <= MaxLen /\ UNCHANGED <<cached, buffer, requests, lost>>
    BY DEF BeginDecode, Context
<1> DEFINE slots == Append(prefix, new_slot)
           new == <<new_slot>>
<1>4. done = Len(prefix) /\ Planned(slots, tokens, done, FreeBefore, KvBefore)
    BY <1>1, DecodeIsPlanned
<1>5. prefix \in Seq(Slot) /\ new_slot \in Slot /\ new \in Seq(Slot)
    <2>1. new_slot \in Slot
        BY CacheFacts
    <2> QED BY <1>1, <2>1, RequestFacts DEF StateWithCaches
<1>6. prefix \o new = slots
    <2> HIDE DEF prefix
    <2> QED BY <1>5, AppendIsConcat
<1>7. free' = free \ ToSet(slots)
    <2>1. \A i \in 1 .. done : slots[i] \notin FreeBefore
        BY <1>4 DEF Planned
    <2>2. Len(slots) = done + 1 /\ slots \in Seq(Slot) /\ done \in Nat /\ slots[done + 1] = new_slot
        <3> HIDE DEF prefix, done
        <3> QED BY <1>4, <1>5, LenProperties, AppendProperties
    <2> HIDE DEF slots, done
    <2>3. ToSet(slots) = {slots[i] : i \in 1 .. done + 1}
        BY <2>2 DEF ToSet
    <2>4. \A i \in 1 .. done + 1 : i \in 1 .. done \/ i = done + 1
        BY <2>2
    <2>5. done + 1 \in 1 .. done + 1
        BY <2>2
    <2> QED BY <1>1, <1>2, <2>1, <2>2, <2>3, <2>4, <2>5
<1>8. ASSUME NEW l \in Layer
      PROVE  SetIndices(requests[r].kv_caches[l], prefix, new)
                = [prefix_indices |-> prefix, new_indices |-> new, store_offset |-> 0]
    <2>1. requests[r].kv_caches[l] \in PooledKVCache
        BY <1>1, RequestFacts DEF StateWithCaches
    <2> QED BY <2>1, IndicesAreSet
<1> HIDE DEF prefix, done, tokens
<1>9. pass' = Pass("decode", r, tokens, done,
                   [l \in Layer |-> [prefix_indices |-> prefix, new_indices |-> new,
                                     store_offset |-> 0]])
    BY <1>2, <1>8
<1> DEFINE kind == "decode"
<1>10. /\ kind = "decode" =>
            /\ r \in Active /\ Len(tokens) <= MaxLen /\ done = Len(tokens) - 1
            /\ \E t \in Token, s \in FreeBefore :
                /\ tokens = Append(Context(r), t)
                /\ prefix \o new = Append(requests[r].all_slot_indices, s)
       /\ kind # "prefill" /\ kind \in {"prefill", "decode"}
    BY <1>1, <1>3, <1>6 DEF tokens, done, prefix
<1> HIDE DEF kind, new, slots
<1>11. pass' = Pass(kind, r, tokens, done,
                    [l \in Layer |-> [prefix_indices |-> prefix, new_indices |-> new,
                                      store_offset |-> 0]])
    BY <1>9 DEF kind
<1> QED BY <1>1, <1>3, <1>4, <1>5, <1>6, <1>7, <1>10, <1>11, BeginPass DEF new

-----------------------------------------------------------------------------
Prefix == pass.kv_caches[1].prefix_indices
New == pass.kv_caches[1].new_indices

\* A running pass, spelled out.
LEMMA PassFacts ==
    ASSUME FInv, pass # Idle
    PROVE  /\ PassOK /\ FreeBefore = pass.before.free /\ KvBefore = pass.before.kv
           /\ pass.tokens \in Seq(Token) /\ Len(pass.tokens) \in Nat
           /\ pass.done \in 0 .. Len(pass.tokens) - 1
           /\ Prefix \in Seq(Slot) /\ Len(Prefix) = pass.done
           /\ New \in Seq(Slot) /\ Len(New) = Len(pass.tokens) - pass.done
           /\ PassSlots = Prefix \o New
           /\ \A i \in 1 .. Len(New) : New[i] = PassSlots[pass.done + i] /\ New[i] \in Slot
           /\ PassSlots \in Seq(Slot) /\ Len(PassSlots) = Len(pass.tokens)
           /\ \A l \in Layer : pass.kv_caches[l] \in PooledKVCache
<1>1. PassOK /\ FreeBefore = pass.before.free /\ KvBefore = pass.before.kv
    BY DEF FInv, Link, FreeBefore, KvBefore
<1>2. /\ pass.tokens \in Seq(Token) /\ Len(pass.tokens) \in Nat
      /\ pass.done \in 0 .. Len(pass.tokens) - 1
      /\ PassSlots \in Seq(Slot) /\ Len(PassSlots) = Len(pass.tokens)
    BY <1>1, LenProperties DEF PassOK, Planned
<1>3. \A l \in Layer : pass.kv_caches[l] \in PooledKVCache
    BY <1>1 DEF PassOK, RunningPass
<1>4. 1 \in Layer
    BY NumLayersAssumption DEF Layer
<1>5. Prefix \in Seq(Slot) /\ New \in Seq(Slot)
    BY <1>3, <1>4 DEF PooledKVCache, Prefix, New
<1>6. PassSlots = Prefix \o New
    BY DEF PassSlots, Prefix, New
<1>7. Len(Prefix) = pass.done
    BY <1>1 DEF PassOK, Prefix
<1>8. /\ Len(PassSlots) = Len(Prefix) + Len(New)
      /\ \A i \in 1 .. Len(Prefix) + Len(New) :
            PassSlots[i] = IF i <= Len(Prefix) THEN Prefix[i] ELSE New[i - Len(Prefix)]
    BY <1>5, <1>6, ConcatProperties
<1>9. Len(New) = Len(pass.tokens) - pass.done
    BY <1>2, <1>5, <1>7, <1>8, LenProperties
<1>10. ASSUME NEW i \in 1 .. Len(New)
       PROVE  New[i] = PassSlots[pass.done + i] /\ New[i] \in Slot
    <2>1. /\ pass.done + i \in 1 .. Len(Prefix) + Len(New) /\ ~(pass.done + i <= Len(Prefix))
          /\ (pass.done + i) - Len(Prefix) = i
        BY <1>2, <1>5, <1>7, LenProperties
    <2>2. New[i] \in Slot
        BY <1>5, ElementOfSeq
    <2>3. PassSlots[pass.done + i] = New[(pass.done + i) - Len(Prefix)]
        BY <1>8, <2>1
    <2> QED BY <2>1, <2>2, <2>3
<1> QED BY <1>1, <1>2, <1>3, <1>5, <1>6, <1>7, <1>9, <1>10

\* The slots the new tokens go to are distinct.  The pass took them, or they
\* hold already what the tokens' data will be.
LEMMA NewSlots ==
    ASSUME FInv, pass # Idle
    PROVE  /\ \A i, j \in 1 .. Len(New) : New[i] = New[j] => i = j
           /\ Taken \subseteq Slot
           /\ \A s \in Taken : s \notin lost /\ \E i \in 1 .. Len(New) : New[i] = s
           /\ \A i \in 1 .. Len(New) : New[i] \notin Taken =>
                /\ New[i] \notin lost
                /\ \A l \in Layer : buffer[l][New[i]] = Take(pass.tokens, pass.done + i)
<1>1. /\ PassOK /\ FreeBefore = pass.before.free /\ KvBefore = pass.before.kv
      /\ pass.tokens \in Seq(Token) /\ Len(pass.tokens) \in Nat
      /\ pass.done \in 0 .. Len(pass.tokens) - 1
      /\ Len(New) = Len(pass.tokens) - pass.done
      /\ PassSlots \in Seq(Slot) /\ Len(PassSlots) = Len(pass.tokens)
      /\ \A i \in 1 .. Len(New) : New[i] = PassSlots[pass.done + i] /\ New[i] \in Slot
    BY PassFacts
<1>2. /\ free = FreeBefore \ ToSet(PassSlots)
      /\ \A i \in 1 .. pass.done : PassSlots[i] \notin FreeBefore
      /\ \A i \in (pass.done + 1) .. Len(pass.tokens) :
            PassSlots[i] \in FreeBefore \/ KvBefore[PassSlots[i]] = Take(pass.tokens, i)
      /\ \A i, j \in (pass.done + 1) .. Len(pass.tokens) : PassSlots[i] = PassSlots[j] => i = j
    BY <1>1 DEF PassOK, Planned
<1>3. \A i \in 1 .. Len(New) : pass.done + i \in (pass.done + 1) .. Len(pass.tokens)
                              /\ pass.done + i \in 1 .. Len(pass.tokens)
    BY <1>1
<1>4. ASSUME NEW i \in 1 .. Len(New), NEW j \in 1 .. Len(New), New[i] = New[j] PROVE i = j
    <2>1. PassSlots[pass.done + i] = PassSlots[pass.done + j]
        BY <1>1, <1>4
    <2>2. pass.done + i = pass.done + j
        BY <1>2, <1>3, <2>1
    <2> QED BY <1>1, <2>2
<1>5. Taken = FreeBefore \intersect ToSet(PassSlots)
    BY <1>1, <1>2 DEF Taken
<1>6. Taken \subseteq Slot
    BY <1>5, CacheFacts
<1>7. ASSUME NEW s \in Taken PROVE s \notin lost /\ \E i \in 1 .. Len(New) : New[i] = s
    <2>1. s \in FreeBefore
        BY <1>5
    <2>2. PICK k \in 1 .. Len(pass.tokens) : PassSlots[k] = s
        BY <1>1, <1>5 DEF ToSet
    <2>3. k \notin 1 .. pass.done
        BY <1>2, <2>1, <2>2
    <2>4. k - pass.done \in 1 .. Len(New) /\ pass.done + (k - pass.done) = k
        BY <1>1, <2>3
    <2>5. s \notin lost
        BY <2>1 DEF FInv, Link
    <2> QED BY <1>1, <2>2, <2>4, <2>5
<1>8. ASSUME NEW i \in 1 .. Len(New), New[i] \notin Taken
      PROVE  /\ New[i] \notin lost
             /\ \A l \in Layer : buffer[l][New[i]] = Take(pass.tokens, pass.done + i)
    <2>1. New[i] \in ToSet(PassSlots)
        BY <1>1, <1>3 DEF ToSet
    <2>2. New[i] \in Slot \ FreeBefore
        BY <1>1, <1>5, <1>8, <2>1
    <2>3. KvBefore[New[i]] = Take(pass.tokens, pass.done + i)
        BY <1>1, <1>2, <1>3, <2>2
    <2>4. Take(pass.tokens, pass.done + i) # <<>>
        BY <1>1, <1>3, TakeNotEmpty
    <2> QED BY <2>2, <2>3, <2>4, UsedSlots
<1> QED BY <1>4, <1>6, <1>7, <1>8

\* The tokens a pass does not compute are found in their slots, in every layer,
\* and no new token goes to one of these.
LEMMA OldTokens ==
    ASSUME FInv, pass # Idle, NEW i \in 1 .. pass.done
    PROVE  /\ PassSlots[i] \in Slot \ Taken
           /\ \A l \in Layer : buffer[l][PassSlots[i]] = Take(pass.tokens, i)
           /\ \A j \in 1 .. Len(New) : New[j] # PassSlots[i]
<1>1. /\ PassOK /\ FreeBefore = pass.before.free /\ KvBefore = pass.before.kv
      /\ pass.tokens \in Seq(Token) /\ Len(pass.tokens) \in Nat
      /\ pass.done \in 0 .. Len(pass.tokens) - 1
      /\ Len(New) = Len(pass.tokens) - pass.done
      /\ PassSlots \in Seq(Slot) /\ Len(PassSlots) = Len(pass.tokens)
    BY PassFacts
<1>2. PassSlots[i] \notin FreeBefore /\ KvBefore[PassSlots[i]] = Take(pass.tokens, i)
    BY <1>1 DEF PassOK, Planned
<1>3. i \in 1 .. Len(pass.tokens)
    BY <1>1
<1>4. PassSlots[i] \in Slot
    BY <1>1, <1>3, ElementOfSeq
<1>5. Take(pass.tokens, i) # <<>> /\ Len(Take(pass.tokens, i)) = i
    BY <1>1, <1>3, TakeNotEmpty
<1>6. \A l \in Layer : buffer[l][PassSlots[i]] = Take(pass.tokens, i)
    BY <1>2, <1>4, <1>5, UsedSlots
<1>7. PassSlots[i] \notin Taken
    BY <1>1, <1>2 DEF Taken
<1>8. ASSUME NEW j \in 1 .. Len(New), New[j] = PassSlots[i] PROVE FALSE
    <2>1. buffer[1][New[j]] = Take(pass.tokens, pass.done + j)
        <3>1. 1 \in Layer
            BY NumLayersAssumption DEF Layer
        <3> QED BY <1>7, <1>8, <3>1, NewSlots
    <2>2. buffer[1][New[j]] = Take(pass.tokens, i)
        BY <1>6, <1>8, NumLayersAssumption DEF Layer
    <2>3. pass.done + j \in 1 .. Len(pass.tokens)
        BY <1>1
    <2>4. Len(Take(pass.tokens, pass.done + j)) = pass.done + j
        BY <1>1, <2>3, TakeNotEmpty
    <2>5. pass.done + j = i
        BY <1>5, <2>1, <2>2, <2>4
    <2> QED BY <1>1, <2>5
<1> QED BY <1>4, <1>6, <1>7, <1>8

\* What a layer's call leaves of the pass.
LEMMA PassAfterLayer ==
    ASSUME pass \in RunningPass, pass.layer \in Layer, NEW cache \in PooledKVCache,
           pass' = [pass EXCEPT !.kv_caches[pass.layer] = cache, !.layer = @ + 1,
                                !.sound = TRUE]
    PROVE  /\ pass' \in RunningPass
           /\ pass'.kind = pass.kind /\ pass'.request = pass.request
           /\ pass'.tokens = pass.tokens /\ pass'.done = pass.done
           /\ pass'.layer = pass.layer + 1 /\ pass'.before = pass.before
           /\ \A l \in Layer : pass'.kv_caches[l] =
                    IF l = pass.layer THEN cache ELSE pass.kv_caches[l]
<1> DEFINE caches == [pass.kv_caches EXCEPT ![pass.layer] = cache]
           first == [pass EXCEPT !.kv_caches = caches]
           second == [first EXCEPT !.layer = @ + 1]
<1>1. pass' = [second EXCEPT !.sound = TRUE]
    BY DEF RunningPass
<1>2. pass.kv_caches \in [Layer -> PooledKVCache]
    BY DEF RunningPass
<1>3. /\ caches \in [Layer -> PooledKVCache]
      /\ \A l \in Layer : caches[l] = IF l = pass.layer THEN cache ELSE pass.kv_caches[l]
    BY <1>2
<1> HIDE DEF caches
<1>4. /\ first \in RunningPass
      /\ first.kind = pass.kind /\ first.request = pass.request
      /\ first.tokens = pass.tokens /\ first.done = pass.done
      /\ first.layer = pass.layer /\ first.before = pass.before
      /\ first.kv_caches = caches
    BY <1>3 DEF RunningPass
<1> HIDE DEF first
<1>5. pass.layer + 1 \in 1 .. NumLayers + 1
    BY NumLayersAssumption DEF Layer
<1>6. /\ second \in RunningPass
      /\ second.kind = pass.kind /\ second.request = pass.request
      /\ second.tokens = pass.tokens /\ second.done = pass.done
      /\ second.layer = pass.layer + 1 /\ second.before = pass.before
      /\ second.kv_caches = caches
    BY <1>4, <1>5 DEF RunningPass
<1> HIDE DEF second
<1> QED BY <1>1, <1>3, <1>6 DEF RunningPass

\* One layer's call writes each new token's data into its slot of that layer,
\* changes nothing else, and finds the tokens of the request in order.
LEMMA LayerIsRight ==
    ASSUME FInv, UpdateAndFetch
    PROVE  /\ \A k \in Layer, s \in Slot :
                (k # pass.layer \/ s \notin Taken) => buffer'[k][s] = buffer[k][s]
           /\ \A i \in 1 .. Len(New) :
                buffer'[pass.layer][New[i]] = Take(pass.tokens, pass.done + i)
           /\ buffer' \in [Layer -> [Slot -> Seq(Token)]]
           /\ pass' = [pass EXCEPT
                !.kv_caches[pass.layer] = [prefix_indices |-> Prefix, new_indices |-> New,
                                           store_offset |-> Len(New)],
                !.layer = @ + 1, !.sound = TRUE]
<1>1. /\ pass # Idle /\ pass.layer \in Layer
      /\ PassOK
    BY DEF UpdateAndFetch, FInv, Link
<1>2. /\ pass.tokens \in Seq(Token) /\ Len(pass.tokens) \in Nat
      /\ pass.done \in 0 .. Len(pass.tokens) - 1
      /\ Prefix \in Seq(Slot) /\ Len(Prefix) = pass.done
      /\ New \in Seq(Slot) /\ Len(New) = Len(pass.tokens) - pass.done
      /\ PassSlots = Prefix \o New
      /\ \A i \in 1 .. Len(New) : New[i] = PassSlots[pass.done + i] /\ New[i] \in Slot
      /\ PassSlots \in Seq(Slot) /\ Len(PassSlots) = Len(pass.tokens)
      /\ pass.kv_caches[pass.layer] \in PooledKVCache
    BY <1>1, PassFacts
<1> DEFINE layer == pass.layer
           cache == pass.kv_caches[layer]
           n == Len(pass.tokens) - pass.done
           advanced == [prefix_indices |-> Prefix, new_indices |-> New,
                        store_offset |-> Len(New)]
           data == [i \in 1 .. n |-> Take(pass.tokens, pass.done + i)]
<1>3. /\ cache.prefix_indices = Prefix /\ cache.new_indices = New /\ cache.store_offset = 0
      /\ pass.sound
    <2>1. ~(layer < layer)
        BY <1>1 DEF Layer
    <2> QED BY <1>1, <2>1 DEF PassOK, CachesOK, Prefix, New, RunningPass
<1>4. Offset(cache) = pass.done
    BY <1>2, <1>3 DEF Offset
<1>5. n = Len(New) /\ n \in Nat /\ 0 + n = n
    BY <1>2
<1>6. Slice(New, 0, n) = New
    BY <1>2, <1>5, SliceProperties
<1>7. StoreIndices(cache, n) = New
    BY <1>3, <1>5, <1>6 DEF StoreIndices
<1>8. Advanced(cache, n) = advanced
    <2>1. cache = [prefix_indices |-> Prefix, new_indices |-> New, store_offset |-> 0]
        BY <1>2, <1>3 DEF PooledKVCache
    <2>2. [[prefix_indices |-> Prefix, new_indices |-> New, store_offset |-> 0]
                EXCEPT !.store_offset = @ + n] = advanced
        BY <1>5
    <2> HIDE DEF cache, n, advanced
    <2> QED BY <2>1, <2>2 DEF Advanced
<1>9. AllIndices(advanced) = PassSlots
    <2>1. advanced.prefix_indices = Prefix /\ advanced.new_indices = New
          /\ advanced.store_offset = n
        BY <1>5
    <2> HIDE DEF advanced, n
    <2> QED BY <1>2, <1>6, <2>1 DEF AllIndices
<1>10. /\ buffer' = [buffer EXCEPT ![layer] = Stored(buffer[layer], New, data)]
       /\ pass' = [pass EXCEPT
            !.kv_caches[layer] = advanced, !.layer = @ + 1,
            !.sound = Fetched(buffer'[layer], PassSlots)
                        = [i \in DOMAIN pass.tokens |-> Take(pass.tokens, i)]]
    <2>1. (pass.sound /\ Offset(cache) = pass.done) = TRUE
        BY <1>1, <1>3, <1>4 DEF PassOK, RunningPass
    <2> HIDE DEF advanced
    <2> QED BY <1>7, <1>8, <1>9, <2>1 DEF UpdateAndFetch
<1>11. buffer \in [Layer -> [Slot -> Seq(Token)]]
    BY DEF FInv, Link
<1>12. DOMAIN New = 1 .. n
    BY <1>2, <1>5
<1> DEFINE stored == Stored(buffer[layer], New, data)
<1>13. ASSUME NEW i \in 1 .. n PROVE stored[New[i]] = Take(pass.tokens, pass.done + i)
    <2> DEFINE k == CHOOSE j \in DOMAIN New : New[j] = New[i]
    <2>1. k \in DOMAIN New /\ New[k] = New[i]
        BY <1>12
    <2>2. k = i
        BY <1>1, <1>5, <1>12, <2>1, NewSlots
    <2>3. New[i] \in Slot /\ New[i] \in ToSet(New)
        BY <1>2, <1>5, <1>12 DEF ToSet
    <2>4. stored[New[i]] = data[k]
        BY <2>3 DEF Stored
    <2> QED BY <2>2, <2>4
<1>14. ASSUME NEW s \in Slot, s \notin ToSet(New) PROVE stored[s] = buffer[layer][s]
    BY <1>14 DEF Stored
<1>15. stored \in [Slot -> Seq(Token)]
    <2>1. ASSUME NEW s \in Slot PROVE stored[s] \in Seq(Token)
        <3>1. CASE s \in ToSet(New)
            <4>1. PICK i \in 1 .. n : New[i] = s
                BY <1>12, <3>1 DEF ToSet
            <4>2. pass.done + i \in 1 .. Len(pass.tokens)
                BY <1>2
            <4>3. Take(pass.tokens, pass.done + i) \in Seq(Token)
                BY <1>2, <4>2, TakeNotEmpty
            <4>4. stored[New[i]] = Take(pass.tokens, pass.done + i)
                BY <1>13
            <4> HIDE DEF stored
            <4> QED BY <4>1, <4>3, <4>4
        <3>2. CASE s \notin ToSet(New)
            BY <1>1, <1>11, <1>14, <3>2
        <3> QED BY <3>1, <3>2
    <2>2. stored = [s \in Slot |-> stored[s]]
        BY DEF Stored
    <2> HIDE DEF stored
    <2> QED BY <2>1, <2>2
<1> HIDE DEF stored
<1>16. /\ buffer' \in [Layer -> [Slot -> Seq(Token)]]
       /\ buffer'[layer] = stored
       /\ \A k \in Layer : k # layer => buffer'[k] = buffer[k]
    BY <1>1, <1>10, <1>11, <1>15 DEF stored
<1>17. \A i \in 1 .. Len(New) : buffer'[layer][New[i]] = Take(pass.tokens, pass.done + i)
    BY <1>5, <1>13, <1>16
<1>18. ASSUME NEW k \in Layer, NEW s \in Slot, k # layer \/ s \notin Taken
       PROVE  buffer'[k][s] = buffer[k][s]
    <2>1. CASE k # layer
        BY <1>16, <2>1
    <2>2. CASE k = layer /\ s \notin ToSet(New)
        BY <1>14, <1>16, <2>2
    <2>3. CASE k = layer /\ s \in ToSet(New)
        <3>1. PICK i \in 1 .. n : New[i] = s
            BY <1>12, <2>3 DEF ToSet
        <3>2. buffer[k][s] = Take(pass.tokens, pass.done + i)
            BY <1>1, <1>5, <1>18, <2>3, <3>1, NewSlots
        <3> QED BY <1>5, <1>17, <2>3, <3>1, <3>2
    <2> QED BY <2>1, <2>2, <2>3
<1>19. Fetched(buffer'[layer], PassSlots) = [i \in DOMAIN pass.tokens |-> Take(pass.tokens, i)]
    <2>1. DOMAIN PassSlots = 1 .. Len(pass.tokens) /\ DOMAIN pass.tokens = 1 .. Len(pass.tokens)
        BY <1>2
    <2>2. ASSUME NEW i \in 1 .. Len(pass.tokens)
          PROVE  buffer'[layer][PassSlots[i]] = Take(pass.tokens, i)
        <3>1. CASE i \in 1 .. pass.done
            <4>1. PassSlots[i] \in Slot \ Taken /\ buffer[layer][PassSlots[i]] = Take(pass.tokens, i)
                BY <1>1, <3>1, OldTokens
            <4> QED BY <1>1, <1>18, <4>1
        <3>2. CASE i \notin 1 .. pass.done
            <4>1. i - pass.done \in 1 .. Len(New) /\ pass.done + (i - pass.done) = i
                BY <1>2, <3>2
            <4> QED BY <1>2, <1>17, <4>1
        <3> QED BY <3>1, <3>2
    <2> QED BY <2>1, <2>2 DEF Fetched
<1>20. pass' = [pass EXCEPT !.kv_caches[layer] = advanced, !.layer = @ + 1, !.sound = TRUE]
    BY <1>10, <1>19
<1> QED BY <1>16, <1>17, <1>18, <1>20

LEMMA UpdateAndFetchStep ==
    ASSUME FInv, UpdateAndFetch
    PROVE  UNCHANGED R!vars /\ Link'
<1> DEFINE cache == [prefix_indices |-> Prefix, new_indices |-> New,
                     store_offset |-> Len(New)]
<1>1. /\ pass # Idle /\ pass.layer \in Layer
      /\ UNCHANGED <<free, cached, requests, lost>>
    BY DEF UpdateAndFetch
<1>2. /\ PassOK /\ FreeBefore = pass.before.free /\ KvBefore = pass.before.kv
      /\ pass.tokens \in Seq(Token) /\ Len(pass.tokens) \in Nat
      /\ pass.done \in 0 .. Len(pass.tokens) - 1
      /\ Prefix \in Seq(Slot) /\ Len(Prefix) = pass.done
      /\ New \in Seq(Slot) /\ Len(New) = Len(pass.tokens) - pass.done
      /\ \A i \in 1 .. Len(New) : New[i] = PassSlots[pass.done + i] /\ New[i] \in Slot
    BY <1>1, PassFacts
<1>3. /\ cache \in PooledKVCache
      /\ cache.prefix_indices = Prefix /\ cache.new_indices = New
      /\ cache.store_offset = Len(pass.tokens) - pass.done
    BY <1>2 DEF PooledKVCache
<1>4. /\ \A k \in Layer, s \in Slot :
            (k # pass.layer \/ s \notin Taken) => buffer'[k][s] = buffer[k][s]
      /\ \A i \in 1 .. Len(New) :
            buffer'[pass.layer][New[i]] = Take(pass.tokens, pass.done + i)
      /\ buffer' \in [Layer -> [Slot -> Seq(Token)]]
      /\ pass' = [pass EXCEPT !.kv_caches[pass.layer] = cache,
                              !.layer = @ + 1, !.sound = TRUE]
    BY LayerIsRight
<1> HIDE DEF cache
<1>5. /\ pass' \in RunningPass
      /\ pass'.kind = pass.kind /\ pass'.request = pass.request
      /\ pass'.tokens = pass.tokens /\ pass'.done = pass.done
      /\ pass'.layer = pass.layer + 1 /\ pass'.before = pass.before
      /\ \A l \in Layer : pass'.kv_caches[l] =
                IF l = pass.layer THEN cache ELSE pass.kv_caches[l]
    BY <1>1, <1>2, <1>3, <1>4, PassAfterLayer DEF PassOK
<1>6. pass' # Idle
    <2>1. pass'.kind # Idle.kind
        BY <1>5 DEF RunningPass, Idle
    <2> QED BY <2>1
<1>7. FreeBefore' = FreeBefore /\ KvBefore' = KvBefore /\ Taken' = Taken
    BY <1>1, <1>5, <1>6 DEF FreeBefore, KvBefore, Taken, Idle
<1>8. Active' = Active /\ States' = States /\ Context(pass.request)' = Context(pass.request)
    BY <1>1, <1>5 DEF Active, States, Context
<1>9. UNCHANGED R!vars
    BY <1>1, <1>7, <1>8 DEF R!vars
<1>10. /\ Prefix' = Prefix /\ New' = New /\ PassSlots' = PassSlots
       /\ pass'.kv_caches[1].prefix_indices = Prefix /\ pass'.kv_caches[1].new_indices = New
    <2>1. 1 \in Layer
        BY NumLayersAssumption DEF Layer
    <2>2. pass'.kv_caches[1].prefix_indices = Prefix /\ pass'.kv_caches[1].new_indices = New
        BY <1>3, <1>5, <2>1 DEF Prefix, New
    <2> QED BY <2>2 DEF PassSlots, Prefix, New
<1>11. CachesOK'
    <2>1. ASSUME NEW l \in Layer
          PROVE  /\ pass'.kv_caches[l].prefix_indices = Prefix
                 /\ pass'.kv_caches[l].new_indices = New
                 /\ pass'.kv_caches[l].store_offset
                        = IF l < pass.layer + 1 THEN Len(pass.tokens) - pass.done ELSE 0
        <3>1. CASE l = pass.layer
            <4>1. l < pass.layer + 1
                BY <3>1 DEF Layer
            <4> QED BY <1>3, <1>5, <3>1, <4>1
        <3>2. CASE l # pass.layer
            <4>1. l < pass.layer + 1 <=> l < pass.layer
                BY <1>1, <3>2 DEF Layer
            <4>2. /\ pass.kv_caches[l].prefix_indices = Prefix
                  /\ pass.kv_caches[l].new_indices = New
                  /\ pass.kv_caches[l].store_offset
                        = IF l < pass.layer THEN Len(pass.tokens) - pass.done ELSE 0
                BY <1>2 DEF PassOK, CachesOK, Prefix, New
            <4>3. pass'.kv_caches[l] = pass.kv_caches[l]
                BY <1>5, <3>2
            <4> QED BY <4>1, <4>2, <4>3
        <3> QED BY <3>1, <3>2
    <2> QED BY <1>5, <1>10, <2>1 DEF CachesOK
<1>12. ASSUME NEW s \in Slot \ Taken PROVE Content(s)' = Content(s)
    <2>1. \A l \in Layer : buffer'[l][s] = buffer[l][s]
        BY <1>4
    <2>2. 1 \in Layer
        BY NumLayersAssumption DEF Layer
    <2> QED BY <1>1, <2>1, <2>2 DEF Content, Garbage
<1>13. BuffersOK'
    <2>1. \A s \in Slot \ Taken : Content(s)' = pass.before.kv[s]
        BY <1>2, <1>12 DEF PassOK, BuffersOK
    <2>2. ASSUME NEW l \in Layer, l < pass.layer + 1,
                 NEW i \in (pass.done + 1) .. Len(pass.tokens)
          PROVE  buffer'[l][PassSlots[i]] = Take(pass.tokens, i)
        <3>1. i - pass.done \in 1 .. Len(New) /\ pass.done + (i - pass.done) = i
            BY <1>2
        <3>2. New[i - pass.done] = PassSlots[i] /\ PassSlots[i] \in Slot
            BY <1>2, <3>1
        <3>3. CASE l = pass.layer
            BY <1>4, <3>1, <3>2, <3>3
        <3>4. CASE l # pass.layer
            <4>1. l < pass.layer
                BY <1>1, <2>2, <3>4 DEF Layer
            <4> QED BY <1>2, <1>4, <3>2, <3>4, <4>1 DEF PassOK, BuffersOK
        <3> QED BY <3>3, <3>4
    <2> QED BY <1>5, <1>7, <1>10, <2>1, <2>2 DEF BuffersOK
<1>14. /\ Planned(PassSlots', pass'.tokens, pass'.done, pass'.before.free, pass'.before.kv)
       /\ free' = pass'.before.free \ ToSet(PassSlots')
       /\ Len(pass'.kv_caches[1].prefix_indices) = pass'.done
    BY <1>1, <1>2, <1>5, <1>10 DEF PassOK
<1>15. pass'.kind = "prefill" => PrefillOK'
    BY <1>1, <1>2, <1>5, <1>8, <1>10 DEF PassOK, PrefillOK
<1>16. pass'.kind = "decode" => DecodeOK'
    <2> SUFFICES ASSUME pass.kind = "decode" PROVE DecodeOK'
        BY <1>5
    <2>1. DecodeOK
        BY <1>2 DEF PassOK
    <2>2. \E token_id \in Token, new_slot \in pass.before.free :
            /\ pass.tokens = Append(Context(pass.request), token_id)
            /\ PassSlots = Append(requests[pass.request].all_slot_indices, new_slot)
        BY <2>1 DEF DecodeOK
    <2>3. \E token_id \in Token, new_slot \in pass'.before.free :
            /\ pass'.tokens = Append(Context(pass.request)', token_id)
            /\ PassSlots' = Append(requests'[pass'.request].all_slot_indices, new_slot)
        BY <1>1, <1>5, <1>8, <1>10, <2>2
    <2> QED BY <1>5, <1>8, <2>1, <2>3 DEF DecodeOK
<1>17. PassOK'
    BY <1>5, <1>11, <1>13, <1>14, <1>15, <1>16 DEF PassOK
<1>18. /\ requests' \in [Active' -> StateWithCaches]
       /\ lost' \subseteq Slot /\ lost' \intersect FreeBefore' = {}
    BY <1>1, <1>7, <1>8 DEF FInv, Link
<1> QED BY <1>4, <1>9, <1>17, <1>18 DEF Link

-----------------------------------------------------------------------------
\* Once all layers are through, the buffers are what the one step of
\* ModelRunner makes of them.
LEMMA PassIsForward ==
    ASSUME FInv, pass # Idle, pass.layer \notin Layer
    PROVE  Contents = R!Forward(PassSlots, pass.tokens, pass.done)
<1>1. /\ PassOK /\ FreeBefore = pass.before.free /\ KvBefore = pass.before.kv
      /\ pass.tokens \in Seq(Token) /\ Len(pass.tokens) \in Nat
      /\ pass.done \in 0 .. Len(pass.tokens) - 1
      /\ Len(New) = Len(pass.tokens) - pass.done
      /\ \A i \in 1 .. Len(New) : New[i] = PassSlots[pass.done + i] /\ New[i] \in Slot
    BY PassFacts
<1> DEFINE new == (pass.done + 1) .. Len(pass.tokens)
           Written(s) == \E i \in new : PassSlots[i] = s
           Pick(s) == CHOOSE i \in new : PassSlots[i] = s
<1>2. R!ContextIntact(PassSlots, pass.tokens, pass.done)
    BY <1>1 DEF PassOK, Planned, R!ContextIntact, R!Take, Take
<1>3. R!Forward(PassSlots, pass.tokens, pass.done)
        = [s \in Slot |-> IF Written(s) THEN Take(pass.tokens, Pick(s)) ELSE KvBefore[s]]
    BY <1>2 DEF R!Forward, R!Take, Take
<1>4. \A l \in Layer : l < pass.layer
    <2>1. pass.layer \in 1 .. NumLayers + 1
        BY <1>1 DEF PassOK, RunningPass
    <2> QED BY <2>1, NumLayersAssumption DEF Layer
<1>5. ASSUME NEW s \in Slot
      PROVE  Content(s) = IF Written(s) THEN Take(pass.tokens, Pick(s)) ELSE KvBefore[s]
    <2>1. CASE ~Written(s)
        <3>1. s \notin Taken
            <4>1. ASSUME s \in Taken PROVE FALSE
                <5>1. PICK i \in 1 .. Len(New) : New[i] = s
                    BY <4>1, NewSlots
                <5>2. pass.done + i \in new
                    BY <1>1
                <5> QED BY <1>1, <2>1, <5>1, <5>2
            <4> QED BY <4>1
        <3> QED BY <1>1, <2>1, <3>1 DEF PassOK, BuffersOK
    <2>2. CASE Written(s)
        <3>1. Pick(s) \in new /\ PassSlots[Pick(s)] = s
            BY <2>2
        <3> DEFINE i == Pick(s)
        <3> HIDE DEF i
        <3>2. \A l \in Layer : buffer[l][s] = Take(pass.tokens, i)
            BY <1>1, <1>4, <3>1 DEF PassOK, BuffersOK, i
        <3>3. s \notin lost
            <4>1. i \in (pass.done + 1) .. Len(pass.tokens) /\ PassSlots[i] = s
                BY <3>1 DEF i
            <4>2. i - pass.done \in 1 .. Len(New) /\ pass.done + (i - pass.done) = i
                BY <1>1, <4>1
            <4>3. New[i - pass.done] = s
                BY <1>1, <4>1, <4>2
            <4> QED BY <4>2, <4>3, NewSlots
        <3>4. 1 \in Layer
            BY NumLayersAssumption DEF Layer
        <3>5. Content(s) = Take(pass.tokens, i)
            BY <3>2, <3>3, <3>4 DEF Content
        <3> QED BY <2>2, <3>5 DEF i
    <2> QED BY <2>1, <2>2
<1> HIDE DEF Written, Pick
<1> QED BY <1>3, <1>5 DEF Contents

-----------------------------------------------------------------------------
\* What is recorded, of a prefill and of a decode.
LEMMA RecordPrefillStep ==
    ASSUME FInv, RecordPrefill
    PROVE  [R!Next]_R!vars /\ Link'
<1> DEFINE r == pass.request
           prompt == pass.tokens
           slots == PassSlots
<1>1. /\ pass # Idle /\ pass.kind = "prefill" /\ pass.layer \notin Layer /\ pass' = Idle
      /\ cached' = Inserted(cached, prompt, slots)
      /\ UNCHANGED <<free, buffer, lost>>
    BY DEF RecordPrefill
<1>2. /\ PassOK /\ FreeBefore = pass.before.free /\ PassSlots \in Seq(Slot)
      /\ pass.tokens \in Seq(Token) /\ Len(PassSlots) = Len(pass.tokens)
    BY <1>1, PassFacts
<1>3. PrefillOK /\ free = FreeBefore \ ToSet(slots) /\ pass \in RunningPass
    BY <1>1, <1>2 DEF PassOK
<1>4. r \in Request /\ r \notin Active /\ prompt \in Prompts
      /\ pass.kv_caches \in [Layer -> PooledKVCache]
    BY <1>3 DEF PrefillOK, RunningPass
<1>5. slots \in R!PrefillSlots(prompt) /\ pass.done = R!ReusedLen(prompt)
    BY <1>2, <1>3, SameChoices DEF PrefillOK
<1>6. FreeBefore' = free /\ KvBefore' = Contents
    BY <1>1, SameContent DEF FreeBefore, KvBefore
<1>7. Contents = R!Forward(slots, prompt, R!ReusedLen(prompt))
    BY <1>1, <1>5, PassIsForward
<1> DEFINE new == [prompt_tokens |-> prompt, output_tokens |-> <<>>,
                   all_slot_indices |-> slots, radix_node |-> MatchedKey(cached', prompt),
                   kv_caches |-> pass.kv_caches]
<1>8. requests' = [q \in Active \union {r} |-> IF q = r THEN new ELSE requests[q]]
    BY DEF RecordPrefill
<1>9. new \in StateWithCaches
    <2>1. IsPrefixClosed(cached')
        BY <1>1, <1>2, CacheFacts, InsertProperties
    <2>2. MatchedKey(cached', prompt) \in Seq(Token)
        BY <1>2, <2>1, MatchProperties
    <2>3. <<>> \in Seq(Token)
        BY EmptySeq
    <2> QED BY <1>2, <1>4, <2>2, <2>3 DEF StateWithCaches
<1>10. R!Active = Active
    BY DEF R!Active, States
<1>11. States' = [q \in Active \union {r} |->
                    IF q = r THEN [prompt_tokens |-> prompt, output_tokens |-> <<>>,
                                   all_slot_indices |-> slots,
                                   radix_node |-> R!MatchedKey(cached', prompt)]
                    ELSE States[q]]
    <2>1. R!MatchedKey(cached', prompt) = MatchedKey(cached', prompt)
        BY SameMatch
    <2>2. /\ new.prompt_tokens = prompt /\ new.output_tokens = <<>>
          /\ new.all_slot_indices = slots /\ new.radix_node = MatchedKey(cached', prompt)
        OBVIOUS
    <2>3. Active' = Active \union {r} /\ requests'[r] = new
          /\ \A q \in Active : requests'[q] = requests[q]
        BY <1>4, <1>8 DEF Active
    <2> HIDE DEF new
    <2> QED BY <2>1, <2>2, <2>3 DEF States
<1> HIDE DEF new
<1>12. R!ForwardPrefill(r, prompt)
    <2>1. FreeBefore' = FreeBefore \ R!ToSet(slots)
        BY <1>3, <1>6 DEF R!ToSet, ToSet
    <2>2. cached' = R!Inserted(cached, prompt, slots)
        BY <1>1, SameHelpers
    <2>3. KvBefore' = R!Forward(slots, prompt, R!ReusedLen(prompt))
        BY <1>6, <1>7
    <2> HIDE DEF r, prompt, slots
    <2> QED BY <1>4, <1>5, <1>10, <1>11, <2>1, <2>2, <2>3, Zenon DEF R!ForwardPrefill
<1>13. R!Next
    BY <1>4, <1>12 DEF R!Next
<1>14. /\ buffer' \in [Layer -> [Slot -> Seq(Token)]]
       /\ lost' \subseteq Slot /\ lost' \intersect FreeBefore' = {}
    BY <1>1, <1>3, <1>6 DEF FInv, Link
<1>15. requests' \in [Active' -> StateWithCaches]
    <2>1. \A q \in Active : requests[q] \in StateWithCaches
        BY RequestFacts
    <2> QED BY <1>8, <1>9, <2>1 DEF Active
<1> QED BY <1>1, <1>13, <1>14, <1>15 DEF Link

\* A decode takes one slot.
LEMMA OneSlotTaken ==
    ASSUME FInv, pass # Idle, pass.request \in Active, NEW new_slot \in FreeBefore,
           PassSlots = Append(requests[pass.request].all_slot_indices, new_slot)
    PROVE  FreeBefore \ ToSet(PassSlots) = FreeBefore \ {new_slot}
<1> DEFINE old == requests[pass.request].all_slot_indices
           n == Len(old)
<1>1. /\ old \in Seq(Slot) /\ n \in Nat /\ new_slot \in Slot
      /\ \A i \in 1 .. n : old[i] \notin FreeBefore
    <2>1. old \in Seq(Slot)
        BY RequestFacts DEF StateWithCaches
    <2> QED BY <2>1, RequestFacts, CacheFacts, LenProperties
<1> HIDE DEF old
<1>2. /\ PassSlots \in Seq(Slot) /\ Len(PassSlots) = n + 1
      /\ \A i \in 1 .. n : PassSlots[i] = old[i]
      /\ PassSlots[n + 1] = new_slot
    BY <1>1, AppendProperties DEF old
<1>3. ToSet(PassSlots) = {PassSlots[i] : i \in 1 .. n + 1}
    BY <1>1, <1>2 DEF ToSet
<1>4. \A i \in 1 .. n + 1 : i \in 1 .. n \/ i = n + 1
    BY <1>1
<1>5. n + 1 \in 1 .. n + 1
    BY <1>1
<1> QED BY <1>1, <1>2, <1>3, <1>4, <1>5

LEMMA RecordDecodeStep ==
    ASSUME FInv, RecordDecode
    PROVE  [R!Next]_R!vars /\ Link'
<1> DEFINE r == pass.request
           tokens == pass.tokens
           slots == PassSlots
<1>1. /\ pass # Idle /\ pass.kind = "decode" /\ pass.layer \notin Layer /\ pass' = Idle
      /\ cached' = Inserted(cached, tokens, slots)
      /\ UNCHANGED <<free, buffer, lost>>
    BY DEF RecordDecode
<1>2. /\ PassOK /\ FreeBefore = pass.before.free /\ PassSlots \in Seq(Slot)
      /\ pass.tokens \in Seq(Token) /\ Len(pass.tokens) \in Nat
      /\ pass.done = Len(pass.tokens) - 1
    BY <1>1, PassFacts DEF PassOK, DecodeOK
<1>3. DecodeOK /\ free = FreeBefore \ ToSet(slots) /\ pass \in RunningPass
    BY <1>1, <1>2 DEF PassOK
<1>4. r \in Active /\ r \in Request /\ Len(tokens) <= MaxLen
      /\ pass.kv_caches \in [Layer -> PooledKVCache]
    BY <1>3 DEF DecodeOK, RunningPass
<1> DEFINE state == requests[r]
<1>5. PICK token_id \in Token, new_slot \in FreeBefore :
        tokens = Append(Context(r), token_id) /\ slots = Append(state.all_slot_indices, new_slot)
    BY <1>2, <1>3 DEF DecodeOK
<1>6. state \in StateWithCaches /\ Context(r) \in Seq(Token)
    BY <1>4, RequestFacts
<1>7. Last(tokens) = token_id
    <2>1. Len(tokens) = Len(Context(r)) + 1 /\ tokens[Len(Context(r)) + 1] = token_id
        BY <1>5, <1>6, AppendProperties
    <2> QED BY <2>1 DEF Last
<1>8. free = FreeBefore \ {new_slot}
    BY <1>1, <1>3, <1>4, <1>5, OneSlotTaken
<1>9. FreeBefore' = free /\ KvBefore' = Contents
    BY <1>1, SameContent DEF FreeBefore, KvBefore
<1>10. Contents = R!Forward(slots, tokens, Len(tokens) - 1)
    BY <1>1, <1>2, PassIsForward
<1> DEFINE new == [state EXCEPT !.output_tokens = Append(@, token_id),
                                !.all_slot_indices = slots,
                                !.kv_caches = pass.kv_caches]
<1>11. /\ new \in StateWithCaches
       /\ new.prompt_tokens = state.prompt_tokens
       /\ new.output_tokens = Append(state.output_tokens, token_id)
       /\ new.all_slot_indices = slots /\ new.radix_node = state.radix_node
    <2> DEFINE output == Append(state.output_tokens, token_id)
               first == [state EXCEPT !.output_tokens = output]
               second == [first EXCEPT !.all_slot_indices = slots]
    <2>1. output \in Seq(Token)
        BY <1>6, AppendProperties DEF StateWithCaches
    <2>2. new = [second EXCEPT !.kv_caches = pass.kv_caches]
        BY <1>6 DEF StateWithCaches
    <2> HIDE DEF output, state, slots
    <2>3. /\ first \in StateWithCaches /\ first.prompt_tokens = state.prompt_tokens
          /\ first.output_tokens = output /\ first.radix_node = state.radix_node
        BY <1>6, <2>1 DEF StateWithCaches
    <2> HIDE DEF first
    <2>4. /\ second \in StateWithCaches /\ second.prompt_tokens = state.prompt_tokens
          /\ second.output_tokens = output /\ second.radix_node = state.radix_node
          /\ second.all_slot_indices = slots
        BY <1>2, <2>3 DEF StateWithCaches, slots
    <2> HIDE DEF second, new
    <2> QED BY <1>4, <2>2, <2>4 DEF StateWithCaches, output
<1>12. requests' = [requests EXCEPT ![r] = new]
    BY <1>7 DEF RecordDecode
<1> HIDE DEF new
<1>13. R!Active = Active /\ DOMAIN States = Active
    BY DEF R!Active, States
<1>14. States' = [States EXCEPT ![r].output_tokens = Append(@, token_id),
                                ![r].all_slot_indices = slots]
    <2>1. Active' = Active /\ requests'[r] = new
          /\ \A q \in Active : q # r => requests'[q] = requests[q]
        BY <1>4, <1>12 DEF Active
    <2> DEFINE old == [prompt_tokens |-> state.prompt_tokens,
                       output_tokens |-> state.output_tokens,
                       all_slot_indices |-> state.all_slot_indices,
                       radix_node |-> state.radix_node]
               updated == [prompt_tokens |-> state.prompt_tokens,
                           output_tokens |-> Append(state.output_tokens, token_id),
                           all_slot_indices |-> slots,
                           radix_node |-> state.radix_node]
    <2>2. States'[r] = updated /\ States[r] = old
        BY <1>4, <1>11, <2>1 DEF States
    <2>3. [old EXCEPT !.output_tokens = Append(@, token_id), !.all_slot_indices = slots]
            = updated
        <3> DEFINE output == Append(state.output_tokens, token_id)
                   first == [prompt_tokens |-> state.prompt_tokens, output_tokens |-> output,
                             all_slot_indices |-> state.all_slot_indices,
                             radix_node |-> state.radix_node]
        <3>1. old.output_tokens = state.output_tokens
            OBVIOUS
        <3> HIDE DEF output
        <3>2. [old EXCEPT !.output_tokens = output] = first
            OBVIOUS
        <3> DEFINE second == [prompt_tokens |-> state.prompt_tokens, output_tokens |-> output,
                              all_slot_indices |-> slots, radix_node |-> state.radix_node]
        <3> HIDE DEF slots
        <3>3. [first EXCEPT !.all_slot_indices = slots] = second
            OBVIOUS
        <3>4. second = updated
            BY DEF output
        <3> HIDE DEF old, first, second, updated
        <3> QED BY <3>1, <3>2, <3>3, <3>4 DEF output
    <2>4. \A q \in Active : q # r => States'[q] = States[q]
        BY <2>1 DEF States
    <2>5. States' = [q \in Active |-> States'[q]]
        BY <2>1 DEF States
    <2> HIDE DEF old, updated
    <2>6. [States EXCEPT ![r].output_tokens = Append(@, token_id),
                         ![r].all_slot_indices = slots]
            = [States EXCEPT ![r] = updated]
        BY <1>4, <1>13, <2>2, <2>3
    <2>7. States = [q \in Active |-> States[q]]
        BY DEF States
    <2> HIDE DEF state, slots, r
    <2> QED BY <1>13, <2>2, <2>4, <2>5, <2>6, <2>7
<1>15. R!Tokens(States[r]) = Context(r)
    BY <1>4 DEF R!Tokens, States, Context
<1>16. States[r].all_slot_indices = state.all_slot_indices
    BY <1>4 DEF States
<1>17. R!ForwardDecode(r, token_id)
    <2>1. cached' = R!Inserted(cached, tokens, slots)
        BY <1>1, SameHelpers
    <2>2. FreeBefore' = FreeBefore \ {new_slot}
          /\ KvBefore' = R!Forward(slots, tokens, Len(tokens) - 1)
        BY <1>8, <1>9, <1>10
    <2> HIDE DEF r, tokens, slots, state
    <2> QED BY <1>4, <1>5, <1>13, <1>14, <1>15, <1>16, <2>1, <2>2, Zenon DEF R!ForwardDecode
<1>18. R!Next
    BY <1>4, <1>17 DEF R!Next
<1>19. /\ buffer' \in [Layer -> [Slot -> Seq(Token)]]
       /\ lost' \subseteq Slot /\ lost' \intersect FreeBefore' = {}
    BY <1>1, <1>3, <1>9 DEF FInv, Link
<1>20. requests' \in [Active' -> StateWithCaches]
    <2>1. requests \in [Active -> StateWithCaches]
        BY DEF FInv, Link
    <2> QED BY <1>11, <1>12, <2>1 DEF Active
<1> QED BY <1>1, <1>18, <1>19, <1>20 DEF Link

\* The model raises: all that is left of the pass is that its slots are lost.
LEMMA PassRaisesStep ==
    ASSUME FInv, PassRaises
    PROVE  [R!Next]_R!vars /\ Link'
<1> DEFINE r == pass.request
<1>1. /\ ModelMayRaise /\ pass # Idle /\ pass' = Idle
      /\ UNCHANGED <<free, cached, buffer>>
      /\ lost' = lost \union Taken
      /\ requests' = IF pass.kind = "decode"
                     THEN [requests EXCEPT ![r].kv_caches = pass.kv_caches]
                     ELSE requests
    BY DEF PassRaises, Failed, Taken
<1>2. /\ PassOK /\ FreeBefore = pass.before.free /\ KvBefore = pass.before.kv
      /\ pass.tokens \in Seq(Token) /\ Len(pass.tokens) \in Nat
    BY <1>1, PassFacts
<1>3. /\ free = FreeBefore \ ToSet(PassSlots) /\ pass \in RunningPass
      /\ pass.kind = "prefill" => PrefillOK
      /\ pass.kind = "decode" => DecodeOK
    BY <1>2 DEF PassOK
<1>4. /\ r \in Request /\ pass.kind \in {"prefill", "decode"}
      /\ pass.kv_caches \in [Layer -> PooledKVCache]
    BY <1>3 DEF RunningPass
<1>5. FreeBefore' = free /\ KvBefore' = Contents'
    BY <1>1 DEF FreeBefore, KvBefore
<1>6. Taken = FreeBefore \intersect ToSet(PassSlots) /\ Taken \subseteq Slot
    BY <1>1, <1>2, <1>3, NewSlots DEF Taken
<1>7. Contents' = [s \in Slot |-> IF s \in Taken THEN <<>> ELSE KvBefore[s]]
    <2>1. ASSUME NEW s \in Slot
          PROVE  Content(s)' = IF s \in Taken THEN <<>> ELSE KvBefore[s]
        <3>1. CASE s \in Taken
            BY <1>1, <3>1 DEF Content, Garbage
        <3>2. CASE s \notin Taken
            <4>1. Content(s)' = Content(s)
                BY <1>1, <3>2 DEF Content, Garbage
            <4> QED BY <1>2, <3>2, <4>1 DEF PassOK, BuffersOK
        <3> QED BY <3>1, <3>2
    <2> QED BY <2>1 DEF Contents
<1>8. requests \in [Active -> StateWithCaches]
    BY DEF FInv, Link
<1>9. /\ requests' \in [Active' -> StateWithCaches]
      /\ Active' = Active /\ States' = States
    <2>1. CASE pass.kind = "prefill"
        BY <1>1, <1>8, <2>1 DEF Active, States
    <2>2. CASE pass.kind = "decode"
        <3> DEFINE state == requests[r]
                   new == [state EXCEPT !.kv_caches = pass.kv_caches]
        <3>1. r \in Active
            BY <1>3, <2>2 DEF DecodeOK
        <3>2. /\ new \in StateWithCaches
              /\ new.prompt_tokens = state.prompt_tokens
              /\ new.output_tokens = state.output_tokens
              /\ new.all_slot_indices = state.all_slot_indices
              /\ new.radix_node = state.radix_node
            <4>1. state \in StateWithCaches
                BY <1>8, <3>1
            <4> HIDE DEF state
            <4> QED BY <1>4, <4>1 DEF StateWithCaches
        <3>3. requests' = [requests EXCEPT ![r] = new]
            BY <1>1, <2>2
        <3> HIDE DEF new
        <3>4. /\ Active' = Active /\ requests'[r] = new
              /\ \A q \in Active : q # r => requests'[q] = requests[q]
            BY <1>8, <3>1, <3>3 DEF Active
        <3>5. requests' \in [Active' -> StateWithCaches]
            BY <1>8, <3>2, <3>3, <3>4
        <3>6. States' = States
            BY <3>2, <3>4 DEF States
        <3> QED BY <3>4, <3>5, <3>6
    <2> QED BY <1>4, <2>1, <2>2
<1>10. R!Active = Active /\ R!Garbage = <<>>
    BY DEF R!Active, States, R!Garbage
<1>11. ASSUME pass.kind = "prefill" PROVE R!Next
    <2>1. /\ r \notin Active /\ pass.tokens \in Prompts
          /\ PassSlots \in R!PrefillSlots(pass.tokens)
        BY <1>2, <1>3, <1>11, SameChoices DEF PrefillOK
    <2>2. R!ToSet(PassSlots) = ToSet(PassSlots)
        BY DEF R!ToSet, ToSet
    <2>3. FreeBefore' = FreeBefore \ R!ToSet(PassSlots)
        BY <1>3, <1>5, <2>2
    <2>4. KvBefore' = [s \in Slot |-> IF s \in FreeBefore \intersect R!ToSet(PassSlots)
                                      THEN R!Garbage ELSE KvBefore[s]]
        BY <1>5, <1>6, <1>7, <1>10, <2>2
    <2> HIDE DEF r
    <2>5. R!PrefillFails(r, pass.tokens)
        BY <1>1, <1>9, <1>10, <2>1, <2>3, <2>4, Zenon DEF R!PrefillFails
    <2> QED BY <1>4, <2>1, <2>5 DEF R!Next
<1>12. ASSUME pass.kind = "decode" PROVE R!Next
    <2>1. r \in Active /\ Len(pass.tokens) <= MaxLen
        BY <1>3, <1>12 DEF DecodeOK
    <2>2. PICK token_id \in Token, new_slot \in FreeBefore :
            /\ pass.tokens = Append(Context(r), token_id)
            /\ PassSlots = Append(requests[r].all_slot_indices, new_slot)
        BY <1>2, <1>3, <1>12 DEF DecodeOK
    <2>3. FreeBefore \ ToSet(PassSlots) = FreeBefore \ {new_slot}
        BY <1>1, <2>1, <2>2, OneSlotTaken
    <2>4. Taken = {new_slot}
        BY <1>6, <2>3
    <2>5. R!Tokens(States[r]) = Context(r)
        BY <2>1 DEF R!Tokens, States, Context
    <2>6. Len(R!Tokens(States[r])) < MaxLen
        <3>1. Context(r) \in Seq(Token) /\ Len(Context(r)) \in Nat
            BY <2>1, RequestFacts, LenProperties
        <3>2. Len(pass.tokens) = Len(Context(r)) + 1
            BY <2>2, <3>1, AppendProperties
        <3> QED BY <1>2, <2>1, <2>5, <3>1, <3>2, RunnerAssumptions
    <2>7. KvBefore' = [KvBefore EXCEPT ![new_slot] = R!Garbage]
        <3>1. KvBefore \in [Slot -> Seq(Token)]
            BY CacheFacts
        <3> QED BY <1>5, <1>6, <1>7, <1>10, <2>4, <3>1
    <2>8. FreeBefore' = FreeBefore \ {new_slot}
        BY <1>3, <1>5, <2>3
    <2> HIDE DEF r
    <2>9. R!DecodeFails(r)
        BY <1>1, <1>9, <1>10, <2>1, <2>6, <2>7, <2>8, Zenon DEF R!DecodeFails
    <2> QED BY <1>4, <2>9 DEF R!Next
<1>13. /\ buffer' \in [Layer -> [Slot -> Seq(Token)]]
       /\ lost' \subseteq Slot /\ lost' \intersect FreeBefore' = {}
    BY <1>1, <1>3, <1>5, <1>6 DEF FInv, Link
<1> QED BY <1>1, <1>4, <1>9, <1>11, <1>12, <1>13 DEF Link

LEMMA FinishRequestStep ==
    ASSUME FInv, NEW r \in Request, FinishRequest(r)
    PROVE  [R!Next]_R!vars /\ Link'
<1>1. /\ pass = Idle /\ pass' = Idle /\ r \in Active
      /\ requests' = Restrict(requests, Active \ {r})
      /\ UNCHANGED <<free, cached, buffer, lost>>
    BY DEF FinishRequest
<1>2. FreeBefore' = FreeBefore /\ KvBefore' = KvBefore
    BY <1>1, SameContent DEF FreeBefore, KvBefore
<1>3. R!Active = Active /\ requests \in [Active -> StateWithCaches]
    BY DEF R!Active, States, FInv, Link
<1>4. /\ Active' = Active \ {r} /\ \A q \in Active' : requests'[q] = requests[q]
      /\ requests' \in [Active' -> StateWithCaches]
    BY <1>1, <1>3 DEF Restrict, Active
<1>5. States' = R!Restrict(States, Active \ {r})
    BY <1>4 DEF States, R!Restrict
<1>6. R!FinishRequest(r)
    BY <1>1, <1>2, <1>3, <1>5 DEF R!FinishRequest
<1> QED BY <1>1, <1>2, <1>4, <1>6 DEF R!Next, Link, FInv

\* What is evicted holds the data of its entries: it is none of the lost slots.
LEMMA EvictStep ==
    ASSUME FInv, NEW n \in EvictSizes, Evict(n)
    PROVE  [R!Next]_R!vars /\ Link'
<1>1. /\ pass = Idle /\ pass' = Idle
      /\ EvictWhileActive \/ Active = {}
      /\ UNCHANGED <<buffer, requests, lost>>
    BY DEF Evict
<1>2. PICK V \in EvictionSets(cached, R!Pins, n) :
        /\ cached' = Evicted(cached, V)
        /\ free' = free \union {cached[p] : p \in V}
    BY DEF Evict
<1>3. /\ FreeBefore = free /\ FreeBefore' = free' /\ KvBefore' = KvBefore
      /\ Active' = Active /\ States' = States
    <2>1. Active' = Active /\ States' = States
        BY <1>1 DEF Active, States
    <2>2. Contents' = Contents
        BY <1>1, SameContent
    <2> QED BY <1>1, <2>1, <2>2 DEF FreeBefore, KvBefore
<1>4. R!Active = Active
    BY DEF R!Active, States
<1>5. /\ V \in R!EvictionSets(cached, R!Pins, n)
      /\ cached' = R!Evicted(cached, V)
    <2>1. R!EvictionSets(cached, R!Pins, n) = EvictionSets(cached, R!Pins, n)
        BY DEF R!EvictionSets, EvictionSets, R!EvictableEntries, EvictableEntries,
           R!PinnedEntries, PinnedEntries, R!IsPrefix, IsPrefix, R!Cardinality, Cardinality
    <2>2. R!Evicted(cached, V) = Evicted(cached, V)
        BY DEF R!Evicted, Evicted, R!Restrict, Restrict
    <2> QED BY <1>2, <2>1, <2>2
<1>6. R!Evict(n)
    BY <1>1, <1>2, <1>3, <1>4, <1>5 DEF R!Evict
<1>7. V \subseteq DOMAIN cached
    BY <1>2 DEF EvictionSets, EvictableEntries
<1>8. ASSUME NEW p \in V PROVE cached[p] \notin lost
    <2>1. KvBefore[cached[p]] = p /\ cached[p] \in Slot \ FreeBefore /\ p # <<>>
        BY <1>7, CacheFacts
    <2> QED BY <2>1, UsedSlots
<1>9. /\ buffer' \in [Layer -> [Slot -> Seq(Token)]]
      /\ requests' \in [Active' -> StateWithCaches]
      /\ lost' \subseteq Slot /\ lost' \intersect FreeBefore' = {}
    BY <1>1, <1>2, <1>3, <1>8 DEF FInv, Link
<1>10. R!Next
    BY <1>6 DEF R!Next
<1> QED BY <1>1, <1>9, <1>10 DEF Link

LEMMA UnchangedStep ==
    ASSUME FInv, UNCHANGED vars
    PROVE  [R!Next]_R!vars /\ Link'
<1>1. /\ free' = free /\ cached' = cached /\ buffer' = buffer
      /\ requests' = requests /\ pass' = pass /\ lost' = lost
    BY DEF vars
<1>2. Active' = Active /\ States' = States /\ PassSlots' = PassSlots /\ Taken' = Taken
    BY <1>1 DEF Active, States, PassSlots, Taken
<1>3. Contents' = Contents /\ \A s : Content(s)' = Content(s)
    BY <1>1, SameContent
<1>4. FreeBefore' = FreeBefore /\ KvBefore' = KvBefore
    BY <1>1, <1>3 DEF FreeBefore, KvBefore
<1>5. UNCHANGED R!vars
    BY <1>1, <1>2, <1>4 DEF R!vars
<1>6. ASSUME PassOK PROVE PassOK'
    <2>1. CachesOK'
        BY <1>1, <1>6 DEF PassOK, CachesOK
    <2>2. BuffersOK'
        BY <1>1, <1>2, <1>3, <1>6 DEF PassOK, BuffersOK
    <2>3. PrefillOK' = PrefillOK
        BY <1>1, <1>2 DEF PrefillOK
    <2>4. DecodeOK' = DecodeOK
        BY <1>1, <1>2 DEF DecodeOK, Context
    <2>5. (pass \in RunningPass)' = (pass \in RunningPass)
        BY <1>1 DEF RunningPass
    <2> QED BY <1>1, <1>2, <1>6, <2>1, <2>2, <2>3, <2>4, <2>5 DEF PassOK
<1>7. Link'
    BY <1>1, <1>2, <1>4, <1>6 DEF FInv, Link
<1> QED BY <1>5, <1>7

-----------------------------------------------------------------------------
\* Every step is a step of ModelRunner or none, and keeps the invariant.
LEMMA FNext ==
    ASSUME EvictWhileActive = FALSE, FInv, [Next]_vars
    PROVE  [R!Next]_R!vars /\ FInv'
<1>1. [R!Next]_R!vars /\ Link'
    <2>1. ASSUME NEW r \in Request, NEW prompt \in Prompts, BeginPrefill(r, prompt)
          PROVE  [R!Next]_R!vars /\ Link'
        BY <2>1, BeginPrefillStep
    <2>2. ASSUME NEW r \in Request, NEW token_id \in Token, BeginDecode(r, token_id)
          PROVE  [R!Next]_R!vars /\ Link'
        BY <2>2, BeginDecodeStep
    <2>3. CASE UpdateAndFetch
        BY <2>3, UpdateAndFetchStep
    <2>4. CASE RecordPrefill
        BY <2>4, RecordPrefillStep
    <2>5. CASE RecordDecode
        BY <2>5, RecordDecodeStep
    <2>6. CASE PassRaises
        BY <2>6, PassRaisesStep
    <2>7. CASE AllocRaises \/ UNCHANGED vars
        <3>1. UNCHANGED vars
            BY <2>7 DEF AllocRaises
        <3> QED BY <3>1, UnchangedStep
    <2>8. ASSUME NEW r \in Request, FinishRequest(r)
          PROVE  [R!Next]_R!vars /\ Link'
        BY <2>8, FinishRequestStep
    <2>9. ASSUME NEW n \in EvictSizes, Evict(n)
          PROVE  [R!Next]_R!vars /\ Link'
        BY <2>9, EvictStep
    <2> QED BY <2>1, <2>2, <2>3, <2>4, <2>5, <2>6, <2>7, <2>8, <2>9 DEF Next
<1>2. FInv'
    BY <1>1, StepIsSafe
<1> QED BY <1>1, <1>2

LEMMA FInit ==
    ASSUME Init
    PROVE  R!Init /\ FInv
<1>1. /\ free = Slot /\ cached = EmptyMap /\ requests = <<>> /\ pass = Idle /\ lost = {}
      /\ buffer = [l \in Layer |-> [s \in Slot |-> <<>>]]
    BY DEF Init, Garbage
<1>2. 1 \in Layer
    BY NumLayersAssumption DEF Layer
<1>3. FreeBefore = Slot /\ KvBefore = [s \in Slot |-> <<>>]
    BY <1>1, <1>2 DEF FreeBefore, KvBefore, Contents, Content, Garbage
<1>4. States = <<>> /\ Active = {}
    BY <1>1 DEF States, Active
<1>5. R!Init
    BY <1>1, <1>3, <1>4 DEF R!Init, R!EmptyMap, EmptyMap, R!Garbage
<1>6. P!Init
    BY <1>1, <1>3, <1>4 DEF P!Init, P!EmptyMap, EmptyMap, P!Garbage
<1>7. P!IInv
    BY <1>6, RunnerAssumptions, P!InitIInv
<1>8. Link
    <2>1. <<>> \in Seq(Token)
        BY EmptySeq
    <2> QED BY <1>1, <1>4, <2>1 DEF Link, Active
<1> QED BY <1>5, <1>7, <1>8 DEF FInv

\* The invariant holds in every state.
LEMMA FInvariance ==
    ASSUME EvictWhileActive = FALSE
    PROVE  Spec => []FInv
<1>1. Init => FInv
    BY FInit
<1>2. FInv /\ [Next]_vars => FInv'
    BY FNext
<1> QED BY <1>1, <1>2, PTL DEF Spec

\* model_runner.py, update_and_fetch through memory_pool.py: however a pass is
\* cut into layers, and wherever one raises, in every layer the slots of the
\* cache and of the active requests hold the data of exactly their tokens.
THEOREM LayersStayCoherent ==
    ASSUME EvictWhileActive = FALSE
    PROVE  Spec => []LayersCoherent
<1>1. FInv => LayersCoherent
    BY CoherentLayers
<1> QED BY <1>1, FInvariance, PTL

\* PooledKVCache.update_and_fetch: what a layer gathers for its attention is
\* the context of its request, in order, in every layer of every pass, also of
\* a pass that follows one that raised half way and left store_offset advanced.
THEOREM PassesSeeTheRightContext ==
    ASSUME EvictWhileActive = FALSE
    PROVE  Spec => []PassesSeeTheirContext
<1>1. FInv => PassesSeeTheirContext
    BY DEF FInv, Link, PassOK, RunningPass, PassesSeeTheirContext
<1> QED BY <1>1, FInvariance, PTL

\* forward_prefill and forward_decode, layer by layer, implement the one step
\* of ModelRunner: a pass that is recorded happened at once, and one that
\* raises has done nothing but lose its slots.
THEOREM ImplementsModelRunner ==
    ASSUME EvictWhileActive = FALSE
    PROVE  Spec => RefinesModelRunner
<1>1. Init => R!Init
    BY FInit
<1>2. FInv /\ [Next]_vars => [R!Next]_R!vars
    BY FNext
<1>3. R!Spec <=> R!Init /\ [][R!Next]_R!vars
    BY DEF R!Spec
<1> QED BY <1>1, <1>2, <1>3, FInvariance, PTL DEF Spec, RefinesModelRunner
=============================================================================
