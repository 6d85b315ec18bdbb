----------------------------- MODULE ModelRunner -----------------------------
(***************************************************************************)
(* The class ModelRunner of model_runner.py: requests that share KV slots  *)
(* through the radix cache.  It composes the allocator, as the set of free *)
(* slots (an allocation may return any of them, in any order: see          *)
(* SlotPool), the radix cache, as the map of PrefixMap with one pin per    *)
(* active request (see PrefixCache, which RadixCache refines), and the KV  *)
(* pool.                                                                   *)
(*                                                                         *)
(* kv[s] is the token sequence whose last token's KV data slot s holds, or *)
(* Garbage.  The model computes the KV data of a token from the data it    *)
(* gathers for the tokens before it, so what it stores is right only if    *)
(* all of those slots still hold what the request put there: reading one   *)
(* wrong slot makes everything computed from it wrong.                     *)
(*                                                                         *)
(* Python runs each call to its end: an action is a whole call.  Requests  *)
(* interleave between calls.                                               *)
(***************************************************************************)
EXTENDS PrefixMap

CONSTANTS
    Token, Slot, Request,
    Prompts,            \* the prompts requests may bring
    MaxLen,             \* bound on prompt and output together
    EvictSizes,         \* the num_tokens evict may be called with
    EvictWhileActive,   \* whether evict may be called with requests active
    ModelMayRaise       \* whether a forward pass of the model may fail

ASSUME SlotAssumption == IsFiniteSet(Slot)
ASSUME PromptsAssumption == Prompts \subseteq Seq(Token) \ {<<>>}
ASSUME MaxLenAssumption == MaxLen \in Nat
ASSUME EvictSizesAssumption == EvictSizes \subseteq Nat
ASSUME FlagsAssumption == EvictWhileActive \in BOOLEAN /\ ModelMayRaise \in BOOLEAN

VARIABLES
    free,       \* _allocator: the slots on the free list
    cached,     \* _radix_cache: prefix -> slot
    kv,         \* _pool: slot -> what it holds
    requests    \* _active_requests: the RequestState of each active request

vars == <<free, cached, kv, requests>>

Garbage == <<>>

\* radix_node is the path of the node; kv_caches are set anew in every pass.
RequestState ==
    [prompt_tokens: Prompts, output_tokens: Seq(Token),
     all_slot_indices: Seq(Slot), radix_node: Seq(Token)]

Active == DOMAIN requests

Pins_Nothing == {}      \* inc_lock_ref forgotten
Pins == {requests[r].radix_node : r \in Active}

Init ==
    /\ free = Slot
    /\ cached = EmptyMap
    /\ kv = [s \in Slot |-> Garbage]        \* mx.zeros
    /\ requests = <<>>

\* The lists of n distinct free slots that alloc(n) may return.
Allocations(n) == {f \in [1 .. n -> free] : IsInjective(f)}

\* update_and_fetch over one forward pass: slots is the prefix followed by the
\* new slots, tokens what the request believes they hold; the tokens after the
\* first m are computed and stored, each from all the slots before it.
ContextIntact(slots, tokens, m) == \A i \in 1 .. m : kv[slots[i]] = Take(tokens, i)

Forward(slots, tokens, m) ==
    [s \in Slot |->
        IF \E i \in (m + 1) .. Len(tokens) : slots[i] = s
        THEN IF ContextIntact(slots, tokens, m)
             THEN Take(tokens, CHOOSE i \in (m + 1) .. Len(tokens) : slots[i] = s)
             ELSE Garbage
        ELSE kv[s]]

\* How much of a cached prefix a prefill reuses: on a full hit the last token
\* is processed again, into the slot it already has.
FullHit(prompt) == MatchLen(cached, prompt) = Len(prompt)
ReusedLen(prompt) == MatchLen(cached, prompt) - (IF FullHit(prompt) THEN 1 ELSE 0)

PrefillSlots_AllNew(prompt) ==      \* alloc(len(prompt)) after a partial hit
    IF FullHit(prompt) THEN {MatchedSlots(cached, prompt)}
    ELSE {MatchedSlots(cached, prompt) \o new : new \in Allocations(Len(prompt))}

\* The lists of slots a prefill may end up with for the whole prompt.
PrefillSlots(prompt) ==
    IF FullHit(prompt) THEN {MatchedSlots(cached, prompt)}
    ELSE {MatchedSlots(cached, prompt) \o new :
             new \in Allocations(Len(prompt) - MatchLen(cached, prompt))}

ForwardPrefill(r, prompt) ==
    /\ r \notin Active
    /\ \E slots \in PrefillSlots(prompt) :
        /\ free' = free \ ToSet(slots)
        /\ kv' = Forward(slots, prompt, ReusedLen(prompt))
        /\ cached' = Inserted(cached, prompt, slots)
        /\ requests' = [q \in Active \union {r} |->
                IF q = r THEN [prompt_tokens |-> prompt, output_tokens |-> <<>>,
                               all_slot_indices |-> slots,
                               radix_node |-> MatchedKey(cached', prompt)]
                ELSE requests[q]]

PrefillFails_FreesAll(r, prompt) ==     \* all_slot_indices given back, shared ones too
    /\ ModelMayRaise
    /\ r \notin Active
    /\ \E slots \in PrefillSlots(prompt) : free' = free \union ToSet(slots)
    /\ UNCHANGED <<cached, kv, requests>>

\* The forward pass fails after the slots were allocated and, layer by layer,
\* partly written: nobody gives them back.  A reused slot is rewritten with
\* the data it has.
PrefillFails(r, prompt) ==
    /\ ModelMayRaise
    /\ r \notin Active
    /\ \E slots \in PrefillSlots(prompt) :
        /\ free' = free \ ToSet(slots)
        /\ kv' = [s \in Slot |-> IF s \in free \intersect ToSet(slots)
                                 THEN Garbage ELSE kv[s]]
    /\ UNCHANGED <<cached, requests>>

Tokens(state) == state.prompt_tokens \o state.output_tokens

ForwardDecode(r, token_id) ==
    /\ r \in Active
    /\ LET state == requests[r]
           all_tokens == Append(Tokens(state), token_id)
       IN  /\ Len(all_tokens) <= MaxLen
           /\ \E new_slot \in free :
                LET slots == Append(state.all_slot_indices, new_slot)
                IN  /\ free' = free \ {new_slot}
                    /\ kv' = Forward(slots, all_tokens, Len(all_tokens) - 1)
                    /\ cached' = Inserted(cached, all_tokens, slots)
                    /\ requests' = [requests EXCEPT
                          ![r].output_tokens = Append(@, token_id),
                          ![r].all_slot_indices = slots]

\* The forward pass of a decode fails: the new slot is gone, the request
\* stays active with the state it had.
DecodeFails(r) ==
    /\ ModelMayRaise
    /\ r \in Active
    /\ Len(Tokens(requests[r])) < MaxLen
    /\ \E new_slot \in free :
        /\ free' = free \ {new_slot}
        /\ kv' = [kv EXCEPT ![new_slot] = Garbage]
    /\ UNCHANGED <<cached, requests>>

\* alloc finds too few slots: MemoryError, before anything was changed.
PrefillRaises(r, prompt) ==
    /\ r \notin Active
    /\ Len(prompt) - MatchLen(cached, prompt) > Cardinality(free)
    /\ UNCHANGED vars

DecodeRaises(r) ==
    /\ r \in Active
    /\ free = {}
    /\ UNCHANGED vars

FinishRequest(r) ==
    /\ r \in Active
    /\ requests' = Restrict(requests, Active \ {r})
    /\ UNCHANGED <<free, cached, kv>>

\* RadixCache.evict with the allocator attached.  The runner never calls it;
\* its owner does, to get slots back.
Evict(n) ==
    /\ EvictWhileActive \/ Active = {}
    /\ \E V \in EvictionSets(cached, Pins, n) :
        /\ cached' = Evicted(cached, V)
        /\ free' = free \union {cached[p] : p \in V}
    /\ UNCHANGED <<kv, requests>>

Next ==
    \/ \E r \in Request, prompt \in Prompts :
          \/ ForwardPrefill(r, prompt)
          \/ PrefillFails(r, prompt)
          \/ PrefillRaises(r, prompt)
    \/ \E r \in Request, token_id \in Token : ForwardDecode(r, token_id)
    \/ \E r \in Request : DecodeFails(r) \/ DecodeRaises(r) \/ FinishRequest(r)
    \/ \E n \in EvictSizes : Evict(n)

Spec == Init /\ [][Next]_vars

-----------------------------------------------------------------------------
UsedBy(r) == ToSet(requests[r].all_slot_indices)
CacheSlots == {cached[p] : p \in DOMAIN cached}

TypeOK ==
    /\ free \subseteq Slot
    /\ DOMAIN cached \subseteq Seq(Token) \ {<<>>}
    /\ cached \in [DOMAIN cached -> Slot]
    /\ kv \in [Slot -> Seq(Token)]
    /\ Active \subseteq Request
    /\ requests \in [Active -> RequestState]
    /\ \A r \in Active :
        Len(requests[r].all_slot_indices) = Len(Tokens(requests[r]))

\* Every entry of the cache leads to the KV data of exactly its prefix:
\* whoever hits it next reads what it would have computed itself.  In
\* particular no two entries share a slot.
CacheCoherent == \A p \in DOMAIN cached : kv[cached[p]] = p

\* At every moment the slots of an active request hold the KV data of its
\* tokens, in order: the context of its next forward pass is intact, whatever
\* the other requests stored, shared, finished or failed meanwhile.
RequestCoherent ==
    \A r \in Active :
        ContextIntact(requests[r].all_slot_indices, Tokens(requests[r]),
                      Len(Tokens(requests[r])))

\* A slot is never given to a new token while it is still reachable, through
\* the cache or through a request.
NoSlotInUseIsFree ==
    /\ free \intersect CacheSlots = {}
    /\ \A r \in Active : free \intersect UsedBy(r) = {}

\* While a request is active its whole prompt can be matched again, and the
\* match finds the slots the request itself decodes with: this much the lock
\* taken by forward_prefill does protect, even from evictions.
PromptStaysCached ==
    \A r \in Active : \A n \in 1 .. Len(requests[r].prompt_tokens) :
        /\ Take(requests[r].prompt_tokens, n) \in DOMAIN cached
        /\ cached[Take(requests[r].prompt_tokens, n)] = requests[r].all_slot_indices[n]

-----------------------------------------------------------------------------
(***************************************************************************)
(* What the repository says and the code does not do.                      *)
(***************************************************************************)

\* model_runner.py locks the node "to prevent eviction during decoding": the
\* slots an active request decodes with are not given away.
LockPreventsEviction == \A r \in Active : free \intersect UsedBy(r) = {}

\* tests/test_model_runner.py: "Multiple generate calls don't leak pool
\* slots", for "eviction can reclaim them": once every request has finished
\* and every entry has been evicted, the whole pool is free.
NoSlotLeak == Active = {} /\ DOMAIN cached = {} => free = Slot
=============================================================================
