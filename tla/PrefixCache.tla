----------------------------- MODULE PrefixCache -----------------------------
(***************************************************************************)
(* What RadixCache promises its callers, with no tree: a map from prefixes *)
(* to slots, one pin per client, and the result each call returns.         *)
(* RadixCache refines it (property RefinesPrefixCache there), and          *)
(* ModelRunner uses the cache through the same operators of PrefixMap.     *)
(*                                                                         *)
(* A client is a caller that holds at most one node at a time: it locks    *)
(* the node it matched (inc_lock_ref) and unlocks it (dec_lock_ref) later, *)
(* as forward_prefill and finish_request do.  pin[c] is the path of the    *)
(* node it holds; <<>>, the root, is also what a client that holds nothing *)
(* has, since both calls do nothing on the root.                           *)
(***************************************************************************)
EXTENDS PrefixMap

CONSTANTS
    Token,      \* token ids
    Slot,       \* KV pool indices
    Client,     \* callers that lock nodes
    Keys,       \* the keys clients look up and lock
    Inserts,    \* the (key, value) pairs clients insert
    EvictSizes  \* the num_tokens clients ask evict for

ASSUME KeysAssumption == Keys \subseteq Seq(Token)
ASSUME InsertsAssumption ==
    /\ Inserts \subseteq Seq(Token) \X Seq(Slot)
    /\ \A c \in Inserts : Len(c[1]) = Len(c[2])
ASSUME EvictSizesAssumption == EvictSizes \subseteq Nat

VARIABLES
    cached,     \* prefix -> slot
    pin,        \* client -> path of the node it locks
    reply       \* what the last call returned

vars == <<cached, pin, reply>>

Pins == {pin[c] : c \in Client}

NoReply == [op |-> "none"]

Init ==
    /\ cached = EmptyMap
    /\ pin = [c \in Client |-> <<>>]
    /\ reply = NoReply

MatchPrefix(key) ==
    /\ reply' = [op |-> "match", key |-> key, slots |-> MatchedSlots(cached, key),
                 last_node |-> MatchedKey(cached, key)]
    /\ UNCHANGED <<cached, pin>>

Insert(key, value) ==
    /\ cached' = Inserted(cached, key, value)
    /\ reply' = [op |-> "insert", len |-> MatchLen(cached, key)]
    /\ UNCHANGED pin

\* freed is what goes back to the allocator, one slot per dropped entry.
Evict(n) ==
    \E V \in EvictionSets(cached, Pins, n) :
        /\ cached' = Evicted(cached, V)
        /\ reply' = [op |-> "evict", n |-> n, num |-> Cardinality(V),
                     freed |-> {cached[p] : p \in V}]
        /\ UNCHANGED pin

\* The delta both lock calls return: how many entries became evictable.
EvictableGain ==
    Cardinality(EvictableEntries(cached, Pins'))
        - Cardinality(EvictableEntries(cached, Pins))

Lock(c, key) ==
    /\ pin[c] = <<>>
    /\ pin' = [pin EXCEPT ![c] = MatchedKey(cached, key)]
    /\ reply' = [op |-> "lock", delta |-> EvictableGain]
    /\ UNCHANGED cached

Unlock(c) ==
    /\ pin[c] # <<>>
    /\ pin' = [pin EXCEPT ![c] = <<>>]
    /\ reply' = [op |-> "unlock", delta |-> EvictableGain]
    /\ UNCHANGED cached

\* reset drops every entry; a client that still holds a node of the old tree
\* could not unlock it any more, so it is called with no pin outstanding.
Reset ==
    /\ \A c \in Client : pin[c] = <<>>
    /\ cached' = EmptyMap
    /\ reply' = NoReply
    /\ UNCHANGED pin

Next ==
    \/ \E key \in Keys : MatchPrefix(key)
    \/ \E call \in Inserts : Insert(call[1], call[2])
    \/ \E n \in EvictSizes : Evict(n)
    \/ \E c \in Client, key \in Keys : Lock(c, key)
    \/ \E c \in Client : Unlock(c)
    \/ Reset

Spec == Init /\ [][Next]_vars

-----------------------------------------------------------------------------
TypeOK ==
    /\ DOMAIN cached \subseteq Seq(Token) \ {<<>>}
    /\ cached \in [DOMAIN cached -> Slot]
    /\ pin \in [Client -> Seq(Token)]

\* The cache never holds an entry whose prefix is missing: match_prefix walks
\* from the root and could not reach it, so its slot would be lost.
PrefixClosed == IsPrefixClosed(cached)

\* What a client locked stays cached, with every prefix, for as long as it
\* holds it (inc_lock_ref's "prevents eviction").
PinsCached == \A c \in Client : PrefixesOf(pin[c]) \subseteq DOMAIN cached

\* An entry a client holds keeps its slot through every call: neither an
\* eviction nor an insert with other slots may move it (forward_decode goes on
\* reading the slots it got at prefill).
PinnedSlotsStable ==
    [][\A c \in Client : \A p \in PrefixesOf(pin[c]) :
           pin'[c] = pin[c] => p \in DOMAIN cached' /\ cached'[p] = cached[p]]_vars
=============================================================================
