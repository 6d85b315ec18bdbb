----------------------------- MODULE ForwardPass -----------------------------
(***************************************************************************)
(* ModelRunner with each forward pass unrolled: the slots are allocated,   *)
(* every layer's PooledKVCache is set up, the model calls update_and_fetch *)
(* once per layer, in order, and only then is the pass recorded.  A pass   *)
(* may raise before, between and after its layers.  It leaves the layers   *)
(* it reached written and their store_offset advanced, and the next pass   *)
(* starts from there.  ModelRunner takes a pass as one step; this module   *)
(* implements it.                                                          *)
(*                                                                         *)
(* buffer[l][s] is the token sequence whose last token's KV data slot s of *)
(* layer l holds, Garbage if it was computed from anything else.  What the *)
(* model does between two layers is external: it is taken to compute the   *)
(* right data exactly if every layer before fetched the request's own      *)
(* tokens in order.                                                        *)
(***************************************************************************)
EXTENDS PrefixMap

CONSTANTS
    Token, Slot, Request, Prompts, MaxLen,      \* see ModelRunner
    EvictSizes, EvictWhileActive, ModelMayRaise,
    NumLayers

ASSUME NumLayersAssumption == NumLayers \in Nat \ {0}
ASSUME RunnerAssumption ==      \* those of ModelRunner
    /\ IsFiniteSet(Slot)
    /\ Prompts \subseteq Seq(Token) \ {<<>>}
    /\ MaxLen \in Nat
    /\ EvictSizes \subseteq Nat
    /\ EvictWhileActive \in BOOLEAN /\ ModelMayRaise \in BOOLEAN

VARIABLES
    free, cached,   \* see ModelRunner
    buffer,         \* k_buffer and v_buffer: layer -> slot -> what it holds
    requests,       \* _active_requests
    pass,           \* the forward pass that runs, or Idle
    lost            \* history: the slots that passes which raised allocated

vars == <<free, cached, buffer, requests, pass, lost>>

Layer == 1 .. NumLayers
Active == DOMAIN requests
Garbage == <<>>
Idle == [kind |-> "idle"]

\* The same content in every layer, or none.
Content(s) ==
    IF s \notin lost /\ \A l \in Layer : buffer[l][s] = buffer[1][s]
    THEN buffer[1][s] ELSE Garbage

Contents == [s \in Slot |-> Content(s)]

\* A pass has not happened until it is recorded.
FreeBefore == IF pass = Idle THEN free ELSE pass.before.free
KvBefore == IF pass = Idle THEN Contents ELSE pass.before.kv
States == [r \in Active |->
            [prompt_tokens |-> requests[r].prompt_tokens,
             output_tokens |-> requests[r].output_tokens,
             all_slot_indices |-> requests[r].all_slot_indices,
             radix_node |-> requests[r].radix_node]]

R == INSTANCE ModelRunner WITH
    free <- FreeBefore, kv <- KvBefore, requests <- States

-----------------------------------------------------------------------------
(* PooledKVCache, one for each request and layer *)

NewCache == [prefix_indices |-> <<>>, new_indices |-> <<>>, store_offset |-> 0]

SetIndices_KeepsOffset(cache, prefix, new) ==   \* store_offset not reset
    [cache EXCEPT !.prefix_indices = prefix, !.new_indices = new]
SetIndices(cache, prefix, new) ==
    [cache EXCEPT !.prefix_indices = prefix, !.new_indices = new, !.store_offset = 0]

\* The position of the first new token.
Offset(cache) == Len(cache.prefix_indices)

\* s[i : j]
Slice(s, i, j) == SubSeq(s, i + 1, IF j < Len(s) THEN j ELSE Len(s))

StoreIndices_OfAll(cache, n) ==     \* counted from the prefix on
    Slice(cache.prefix_indices \o cache.new_indices,
          cache.store_offset, cache.store_offset + n)
StoreIndices(cache, n) ==
    Slice(cache.new_indices, cache.store_offset, cache.store_offset + n)

Advanced(cache, n) == [cache EXCEPT !.store_offset = @ + n]

AllIndices_Prefix(cache) == cache.prefix_indices    \* the new tokens left out
AllIndices(cache) ==
    cache.prefix_indices \o Slice(cache.new_indices, 0, cache.store_offset)

\* MHATokenPool.store and fetch, for one layer.
Stored(slots, indices, data) ==
    [s \in Slot |-> IF s \in ToSet(indices)
                    THEN data[CHOOSE i \in DOMAIN indices : indices[i] = s]
                    ELSE slots[s]]
Fetched(slots, indices) == [i \in DOMAIN indices |-> slots[indices[i]]]

-----------------------------------------------------------------------------
Init ==
    /\ free = Slot
    /\ cached = EmptyMap
    /\ buffer = [l \in Layer |-> [s \in Slot |-> Garbage]]
    /\ requests = <<>>
    /\ pass = Idle
    /\ lost = {}

\* A pass over tokens, of which the first `done` have their KV data already.
Pass(kind, r, tokens, done, kv_caches) ==
    [kind |-> kind, request |-> r, tokens |-> tokens, done |-> done,
     kv_caches |-> kv_caches, layer |-> 1,
     sound |-> TRUE,        \* whether all layers so far saw the right context
     before |-> [free |-> free, kv |-> Contents]]

BeginPrefill(r, prompt) ==
    /\ pass = Idle
    /\ r \notin Active
    /\ \E slots \in R!PrefillSlots(prompt) :
        LET done == R!ReusedLen(prompt)
            prefix_indices == Take(slots, done)
            new_slot_indices == Slice(slots, done, Len(slots))
        IN  /\ free' = free \ ToSet(slots)
            /\ pass' = Pass("prefill", r, prompt, done,
                    [l \in Layer |-> SetIndices(NewCache, prefix_indices, new_slot_indices)])
    /\ UNCHANGED <<cached, buffer, requests, lost>>

BeginDecode(r, token_id) ==
    /\ pass = Idle
    /\ r \in Active
    /\ LET state == requests[r]
           all_tokens == Append(state.prompt_tokens \o state.output_tokens, token_id)
       IN  /\ Len(all_tokens) <= MaxLen
           /\ \E new_slot \in free :
                /\ free' = free \ {new_slot}
                /\ pass' = Pass("decode", r, all_tokens, Len(all_tokens) - 1,
                        [l \in Layer |-> SetIndices(state.kv_caches[l],
                                            state.all_slot_indices, <<new_slot>>)])
    /\ UNCHANGED <<cached, buffer, requests, lost>>

\* The attention of one layer: the keys and values of all new tokens at once.
UpdateAndFetch ==
    /\ pass # Idle
    /\ pass.layer \in Layer
    /\ LET n == Len(pass.tokens) - pass.done
           placed == pass.sound /\ Offset(pass.kv_caches[pass.layer]) = pass.done
           data == [i \in 1 .. n |->
                        IF placed THEN Take(pass.tokens, pass.done + i) ELSE Garbage]
           indices == StoreIndices(pass.kv_caches[pass.layer], n)
           cache == Advanced(pass.kv_caches[pass.layer], n)
           context == [i \in DOMAIN pass.tokens |-> Take(pass.tokens, i)]
       IN  /\ buffer' = [buffer EXCEPT ![pass.layer] = Stored(@, indices, data)]
           /\ pass' = [pass EXCEPT
                    !.kv_caches[pass.layer] = cache,
                    !.layer = @ + 1,
                    !.sound = placed /\ Fetched(buffer'[pass.layer], AllIndices(cache)) = context]
    /\ UNCHANGED <<free, cached, requests, lost>>

PassSlots == pass.kv_caches[1].prefix_indices \o pass.kv_caches[1].new_indices

RecordPrefill ==
    /\ pass # Idle /\ pass.kind = "prefill" /\ pass.layer \notin Layer
    /\ cached' = Inserted(cached, pass.tokens, PassSlots)
    /\ requests' = [q \in Active \union {pass.request} |->
            IF q = pass.request
            THEN [prompt_tokens |-> pass.tokens, output_tokens |-> <<>>,
                  all_slot_indices |-> PassSlots,
                  radix_node |-> MatchedKey(cached', pass.tokens),
                  kv_caches |-> pass.kv_caches]
            ELSE requests[q]]
    /\ pass' = Idle
    /\ UNCHANGED <<free, buffer, lost>>

RecordDecode ==
    /\ pass # Idle /\ pass.kind = "decode" /\ pass.layer \notin Layer
    /\ cached' = Inserted(cached, pass.tokens, PassSlots)
    /\ requests' = [requests EXCEPT
            ![pass.request].output_tokens = Append(@, Last(pass.tokens)),
            ![pass.request].all_slot_indices = PassSlots,
            ![pass.request].kv_caches = pass.kv_caches]
    /\ pass' = Idle
    /\ UNCHANGED <<free, buffer, lost>>

\* The model raises.  The slots stay allocated; a decode has already changed
\* the caches of its request, which stays active and may decode again.
Failed ==
    /\ lost' = lost \union (pass.before.free \ free)
    /\ requests' = IF pass.kind = "decode"
                   THEN [requests EXCEPT ![pass.request].kv_caches = pass.kv_caches]
                   ELSE requests
    /\ pass' = Idle
    /\ UNCHANGED <<cached, buffer>>

PassRaises ==
    /\ ModelMayRaise
    /\ pass # Idle
    /\ UNCHANGED free
    /\ Failed

\* alloc finds too few slots: MemoryError, before anything was changed.
AllocRaises ==
    /\ pass = Idle
    /\ \/ \E prompt \in Prompts :
            /\ Active # Request
            /\ Len(prompt) - MatchLen(cached, prompt) > Cardinality(free)
       \/ Active # {} /\ free = {}
    /\ UNCHANGED vars

FinishRequest(r) ==
    /\ pass = Idle
    /\ r \in Active
    /\ requests' = Restrict(requests, Active \ {r})
    /\ UNCHANGED <<free, cached, buffer, pass, lost>>

Evict(n) ==
    /\ pass = Idle
    /\ EvictWhileActive \/ Active = {}
    /\ \E V \in EvictionSets(cached, R!Pins, n) :
        /\ cached' = Evicted(cached, V)
        /\ free' = free \union {cached[p] : p \in V}
    /\ UNCHANGED <<buffer, requests, pass, lost>>

Next ==
    \/ \E r \in Request, prompt \in Prompts : BeginPrefill(r, prompt)
    \/ \E r \in Request, token_id \in Token : BeginDecode(r, token_id)
    \/ UpdateAndFetch
    \/ RecordPrefill
    \/ RecordDecode
    \/ PassRaises
    \/ AllocRaises
    \/ \E r \in Request : FinishRequest(r)
    \/ \E n \in EvictSizes : Evict(n)

Spec == Init /\ [][Next]_vars

-----------------------------------------------------------------------------
\* In every layer, also while a pass is under way and after passes that broke
\* off half way, the slots of the cache and of the active requests hold the
\* data of exactly their tokens.
LayersCoherent ==
    \A l \in Layer :
        /\ \A p \in DOMAIN cached : buffer[l][cached[p]] = p
        /\ \A r \in Active :
            LET tokens == requests[r].prompt_tokens \o requests[r].output_tokens
            IN  Fetched(buffer[l], requests[r].all_slot_indices)
                    = [i \in DOMAIN tokens |-> Take(tokens, i)]

\* Every layer of every pass, the last one included, attends to exactly the
\* tokens of its request, in order and at their positions: the logits are
\* those of the whole context.
PassesSeeTheirContext == pass # Idle => pass.sound

\* A pass that is recorded is one step of ModelRunner and one that raises
\* leaves nothing but lost slots, however far it got.  What is proved of
\* ModelRunner (no slot in use is free, contexts stay intact) therefore holds
\* here between passes.
RefinesModelRunner == R!Spec
=============================================================================
