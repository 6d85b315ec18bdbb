-------------------------- MODULE PrefixCache_proofs --------------------------
(***************************************************************************)
(* The invariants of PrefixCache hold for every set of tokens, slots and   *)
(* clients and every set of calls.  Together with the refinement checked   *)
(* in RadixCache they are what a caller of the cache may rely on.          *)
(***************************************************************************)
EXTENDS PrefixCache, PrefixMap_lemmas

\* The three invariants are inductive together: PrefixClosed needs the keys
\* to be sequences, and PinsCached needs PrefixClosed, for a client pins only
\* the node it matched and that node's prefixes must be there too.
IInv == TypeOK /\ PrefixClosed /\ PinsCached

LEMMA InitIInv == Init => IInv
<1> SUFFICES ASSUME Init PROVE IInv
    OBVIOUS
<1>1. DOMAIN cached = {}
    BY DEF Init, EmptyMap
<1>2. TypeOK
    <2>1. cached \in [DOMAIN cached -> Slot]
        BY <1>1 DEF Init, EmptyMap
    <2>2. pin \in [Client -> Seq(Token)]
        BY EmptySeq DEF Init
    <2> QED BY <1>1, <2>1, <2>2 DEF TypeOK
<1>3. PrefixClosed
    BY <1>1 DEF PrefixClosed, IsPrefixClosed
<1>4. PinsCached
    <2>1. PrefixesOf(<<>>) = {}
        BY DEF PrefixesOf
    <2> QED BY <2>1 DEF PinsCached, Init
<1> QED BY <1>2, <1>3, <1>4 DEF IInv

\* What an insert and an eviction do to the invariant and to the pins.
LEMMA InsertStep ==
    ASSUME IInv, NEW call \in Inserts, Insert(call[1], call[2])
    PROVE  /\ IInv'
           /\ \A p \in DOMAIN cached : p \in DOMAIN cached' /\ cached'[p] = cached[p]
<1> DEFINE key == call[1]
           value == call[2]
<1>1. key \in Seq(Token) /\ value \in Seq(Slot) /\ Len(value) = Len(key)
    BY InsertsAssumption
<1>2. /\ cached \in [DOMAIN cached -> Slot]
      /\ DOMAIN cached \subseteq Seq(Token) \ {<<>>}
      /\ IsPrefixClosed(cached)
    BY DEF IInv, TypeOK, PrefixClosed
<1>3. cached' = Inserted(cached, key, value) /\ pin' = pin
    BY DEF Insert
<1> HIDE DEF key, value
<1>4. /\ DOMAIN cached \subseteq DOMAIN cached'
      /\ DOMAIN cached' \subseteq Seq(Token) \ {<<>>}
      /\ cached' \in [DOMAIN cached' -> Slot]
      /\ IsPrefixClosed(cached')
      /\ \A p \in DOMAIN cached : cached'[p] = cached[p]
    BY <1>1, <1>2, <1>3, InsertProperties, ZenonT(60)
<1>5. TypeOK' /\ PrefixClosed'
    BY <1>3, <1>4 DEF IInv, TypeOK, PrefixClosed
<1>6. PinsCached'
    BY <1>3, <1>4 DEF IInv, PinsCached
<1> QED BY <1>4, <1>5, <1>6 DEF IInv

LEMMA EvictStep ==
    ASSUME IInv, NEW n \in EvictSizes, Evict(n)
    PROVE  /\ IInv'
           /\ \A c \in Client : \A p \in PrefixesOf(pin[c]) :
                p \in DOMAIN cached' /\ cached'[p] = cached[p]
<1>1. PICK V \in EvictionSets(cached, Pins, n) :
        cached' = Evicted(cached, V) /\ pin' = pin
    BY DEF Evict
<1>2. /\ cached \in [DOMAIN cached -> Slot]
      /\ DOMAIN cached \subseteq Seq(Token) \ {<<>>}
      /\ IsPrefixClosed(cached)
      /\ Pins \subseteq Seq(Token)
    BY DEF IInv, TypeOK, PrefixClosed, Pins
<1>3. /\ DOMAIN cached' = DOMAIN cached \ V
      /\ cached' \in [DOMAIN cached' -> Slot]
      /\ IsPrefixClosed(cached')
      /\ \A p \in DOMAIN cached' : cached'[p] = cached[p]
      /\ \A q \in Pins : PrefixesOf(q) \subseteq DOMAIN cached
                => PrefixesOf(q) \subseteq DOMAIN cached'
    BY <1>1, <1>2, EvictProperties, ZenonT(60)
<1>4. TypeOK' /\ PrefixClosed'
    BY <1>1, <1>2, <1>3 DEF IInv, TypeOK, PrefixClosed
<1>5. \A c \in Client : PrefixesOf(pin[c]) \subseteq DOMAIN cached'
    BY <1>3 DEF IInv, PinsCached, Pins
<1>6. PinsCached'
    BY <1>1, <1>5 DEF PinsCached
<1> QED BY <1>3, <1>4, <1>5, <1>6 DEF IInv

LEMMA LockStep ==
    ASSUME IInv, NEW c \in Client, NEW key \in Keys, Lock(c, key)
    PROVE  IInv'
<1>1. key \in Seq(Token)
    BY KeysAssumption
<1>2. /\ MatchedKey(cached, key) \in Seq(Token)
      /\ PrefixesOf(MatchedKey(cached, key)) \subseteq DOMAIN cached
    BY <1>1, MatchProperties DEF IInv, PrefixClosed
<1>3. cached' = cached /\ pin' = [pin EXCEPT ![c] = MatchedKey(cached, key)]
    BY DEF Lock
<1>4. TypeOK' /\ PrefixClosed'
    BY <1>2, <1>3 DEF IInv, TypeOK, PrefixClosed
<1>5. PinsCached'
    BY <1>2, <1>3 DEF IInv, TypeOK, PinsCached
<1> QED BY <1>4, <1>5 DEF IInv

LEMMA UnlockStep ==
    ASSUME IInv, NEW c \in Client, Unlock(c)
    PROVE  IInv'
<1>1. PrefixesOf(<<>>) = {} /\ <<>> \in Seq(Token)
    BY EmptySeq DEF PrefixesOf
<1>2. cached' = cached /\ pin' = [pin EXCEPT ![c] = <<>>]
    BY DEF Unlock
<1>3. TypeOK' /\ PrefixClosed'
    BY <1>1, <1>2 DEF IInv, TypeOK, PrefixClosed
<1>4. PinsCached'
    BY <1>1, <1>2 DEF IInv, TypeOK, PinsCached
<1> QED BY <1>3, <1>4 DEF IInv

LEMMA ResetStep ==
    ASSUME IInv, Reset
    PROVE  IInv'
<1>1. cached' = EmptyMap /\ pin' = pin /\ \A c \in Client : pin[c] = <<>>
    BY DEF Reset
<1>2. DOMAIN cached' = {} /\ cached' \in [DOMAIN cached' -> Slot]
    BY <1>1 DEF EmptyMap
<1>3. TypeOK' /\ PrefixClosed'
    BY <1>1, <1>2 DEF IInv, TypeOK, PrefixClosed, IsPrefixClosed
<1>4. PrefixesOf(<<>>) = {}
    BY DEF PrefixesOf
<1>5. PinsCached'
    BY <1>1, <1>4 DEF PinsCached
<1> QED BY <1>3, <1>5 DEF IInv

LEMMA NextIInv == IInv /\ [Next]_vars => IInv'
<1> SUFFICES ASSUME IInv, [Next]_vars PROVE IInv'
    OBVIOUS
<1>1. ASSUME NEW key \in Keys, MatchPrefix(key) PROVE IInv'
    BY <1>1 DEF MatchPrefix, IInv, TypeOK, PrefixClosed, PinsCached
<1>2. ASSUME NEW call \in Inserts, Insert(call[1], call[2]) PROVE IInv'
    BY <1>2, InsertStep
<1>3. ASSUME NEW n \in EvictSizes, Evict(n) PROVE IInv'
    BY <1>3, EvictStep
<1>4. ASSUME NEW c \in Client, NEW key \in Keys, Lock(c, key) PROVE IInv'
    BY <1>4, LockStep
<1>5. ASSUME NEW c \in Client, Unlock(c) PROVE IInv'
    BY <1>5, UnlockStep
<1>6. CASE Reset
    BY <1>6, ResetStep
<1>7. CASE UNCHANGED vars
    BY <1>7 DEF vars, IInv, TypeOK, PrefixClosed, PinsCached
<1> QED BY <1>1, <1>2, <1>3, <1>4, <1>5, <1>6, <1>7 DEF Next

\* Every reachable state of the cache is well typed.
THEOREM TypeCorrect == Spec => []TypeOK
<1>1. IInv => TypeOK
    BY DEF IInv
<1> QED BY InitIInv, NextIInv, <1>1, PTL DEF Spec

\* match_prefix can reach every entry of the cache from the root: no slot is
\* ever stored under a path with a hole in it.
THEOREM CacheIsPrefixClosed == Spec => []PrefixClosed
<1>1. IInv => PrefixClosed
    BY DEF IInv
<1> QED BY InitIInv, NextIInv, <1>1, PTL DEF Spec

\* A locked node and all its ancestors are cached until it is unlocked.
THEOREM LockedStaysCached == Spec => []PinsCached
<1>1. IInv => PinsCached
    BY DEF IInv
<1> QED BY InitIInv, NextIInv, <1>1, PTL DEF Spec

\* The slots a client pinned never change under it: no eviction frees them
\* and no insert replaces them, whatever the other clients do.
THEOREM PinnedSlotsNeverMove == Spec => PinnedSlotsStable
<1> DEFINE Stable ==
        \A c \in Client : \A p \in PrefixesOf(pin[c]) :
            pin'[c] = pin[c] => p \in DOMAIN cached' /\ cached'[p] = cached[p]
<1>1. ASSUME IInv, [Next]_vars PROVE [Stable]_vars
    <2>0. \A c \in Client : PrefixesOf(pin[c]) \subseteq DOMAIN cached
        BY <1>1 DEF IInv, PinsCached
    <2>1. ASSUME NEW call \in Inserts, Insert(call[1], call[2]) PROVE Stable
        BY <1>1, <2>0, <2>1, InsertStep
    <2>2. ASSUME NEW n \in EvictSizes, Evict(n) PROVE Stable
        BY <1>1, <2>2, EvictStep
    <2>3. CASE cached' = cached
        BY <2>0, <2>3
    <2>4. CASE Reset
        <3>1. \A c \in Client : PrefixesOf(pin[c]) = {}
            BY <2>4 DEF Reset, PrefixesOf
        <3> QED BY <3>1
    <2>5. ASSUME NEW key \in Keys, MatchPrefix(key) PROVE cached' = cached
        BY <2>5 DEF MatchPrefix
    <2>6. ASSUME NEW c \in Client, NEW key \in Keys, Lock(c, key)
          PROVE  cached' = cached
        BY <2>6 DEF Lock
    <2>7. ASSUME NEW c \in Client, Unlock(c) PROVE cached' = cached
        BY <2>7 DEF Unlock
    <2>8. CASE UNCHANGED vars
        BY <2>8
    <2> HIDE DEF Stable
    <2> QED BY <1>1, <2>1, <2>2, <2>3, <2>4, <2>5, <2>6, <2>7, <2>8 DEF Next
<1> QED BY <1>1, InitIInv, NextIInv, PTL DEF Spec, PinnedSlotsStable
=============================================================================
