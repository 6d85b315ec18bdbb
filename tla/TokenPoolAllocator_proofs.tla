---------------------- MODULE TokenPoolAllocator_proofs ----------------------
(***************************************************************************)
(* The allocator's invariants, and that it implements SlotPool, for every  *)
(* pool size and every set of owners.                                      *)
(***************************************************************************)
EXTENDS TokenPoolAllocator, SequenceTheorems, FiniteSetTheorems, TLAPS

\* The free list stays a permutation of the slots nobody holds.
IInv == TypeOK /\ OneOwner /\ NoSlotLost

\* Cutting a list without repetitions in two gives two such lists that share
\* no element and together have them all.
LEMMA CutProperties ==
    ASSUME NEW S, NEW s \in Seq(S), IsInjective(s), NEW n \in 1 .. Len(s)
    PROVE  LET P == WithoutSuffix(s, n)
               Q == Suffix(s, n)
           IN  /\ P \in Seq(S) /\ Q \in Seq(S) /\ Len(Q) = n
               /\ IsInjective(P) /\ IsInjective(Q)
               /\ ToSet(P) \intersect ToSet(Q) = {}
               /\ ToSet(P) \union ToSet(Q) = ToSet(s)
<1> DEFINE L == Len(s)
           P == WithoutSuffix(s, n)
           Q == Suffix(s, n)
<1>1. L \in Nat /\ DOMAIN s = 1 .. L /\ \A i \in 1 .. L : s[i] \in S
    BY LenProperties, ElementOfSeq
<1>2. P = SubSeq(s, 1, L - n) /\ Q = SubSeq(s, L - n + 1, L)
    BY <1>1 DEF WithoutSuffix, Suffix
<1>3. /\ P \in Seq(S) /\ Len(P) = L - n
      /\ \A i \in 1 .. L - n : P[i] = s[i]
    <2>1. \A i \in 1 .. L - n : s[i] \in S
        BY <1>1
    <2>2. L - n \in Int /\ 1 \in Int
        BY <1>1
    <2>3. /\ SubSeq(s, 1, L - n) \in Seq(S)
          /\ Len(SubSeq(s, 1, L - n)) = IF 1 <= L - n THEN L - n - 1 + 1 ELSE 0
          /\ \A i \in 1 .. L - n - 1 + 1 : SubSeq(s, 1, L - n)[i] = s[1 + i - 1]
        BY <2>1, <2>2, SubSeqProperties
    <2> HIDE DEF P, Q
    <2>4. L \in Nat /\ n \in Nat /\ n <= L
        BY <1>1
    <2> HIDE DEF L
    <2>5. L - n - 1 + 1 = L - n /\ (1 <= L - n \/ L - n = 0)
        BY <2>4
    <2>6. \A i \in 1 .. L - n : 1 + i - 1 = i
        BY <2>4
    <2> QED BY <1>1, <1>2, <2>3, <2>5, <2>6
<1>4. /\ Q \in Seq(S) /\ Len(Q) = n
      /\ \A i \in 1 .. n : Q[i] = s[L - n + i]
    <2>1. \A i \in L - n + 1 .. L : s[i] \in S
        BY <1>1
    <2>2. L - n + 1 \in Int /\ L \in Int
        BY <1>1
    <2>3. /\ SubSeq(s, L - n + 1, L) \in Seq(S)
          /\ Len(SubSeq(s, L - n + 1, L)) =
                IF L - n + 1 <= L THEN L - (L - n + 1) + 1 ELSE 0
          /\ \A i \in 1 .. L - (L - n + 1) + 1 :
                SubSeq(s, L - n + 1, L)[i] = s[(L - n + 1) + i - 1]
        BY <2>1, <2>2, SubSeqProperties
    <2> HIDE DEF Q
    <2> QED BY <1>1, <1>2, <2>3
<1> HIDE DEF P, Q
<1>5. DOMAIN P = 1 .. L - n /\ DOMAIN Q = 1 .. n
    BY <1>3, <1>4, LenProperties
<1>6. \A i, j \in 1 .. L : s[i] = s[j] => i = j
    BY <1>1 DEF IsInjective
<1>7. IsInjective(P) /\ IsInjective(Q)
    <2>1. ASSUME NEW i \in 1 .. L - n, NEW j \in 1 .. L - n, P[i] = P[j]
          PROVE  i = j
        BY <1>1, <1>3, <1>6, <2>1
    <2>2. ASSUME NEW i \in 1 .. n, NEW j \in 1 .. n, Q[i] = Q[j] PROVE i = j
        <3>1. L - n + i \in 1 .. L /\ L - n + j \in 1 .. L
            BY <1>1
        <3>2. s[L - n + i] = s[L - n + j]
            BY <1>4, <2>2
        <3>3. L - n + i = L - n + j
            BY <1>6, <3>1, <3>2
        <3> QED BY <1>1, <3>3
    <2> QED BY <1>5, <2>1, <2>2 DEF IsInjective
<1>8. ToSet(P) \intersect ToSet(Q) = {}
    <2> SUFFICES ASSUME NEW i \in 1 .. L - n, NEW j \in 1 .. n, P[i] = Q[j]
                 PROVE  FALSE
        BY <1>5 DEF ToSet
    <2>1. i \in 1 .. L /\ L - n + j \in 1 .. L /\ i # L - n + j
        BY <1>1
    <2>2. s[i] = s[L - n + j]
        BY <1>3, <1>4
    <2> QED BY <1>6, <2>1, <2>2
<1>9. ToSet(P) \union ToSet(Q) = ToSet(s)
    <2>1. ASSUME NEW i \in 1 .. L PROVE s[i] \in ToSet(P) \union ToSet(Q)
        <3>1. CASE i <= L - n
            <4>1. i \in 1 .. L - n /\ P[i] = s[i]
                BY <1>1, <1>3, <3>1
            <4> QED BY <1>5, <4>1 DEF ToSet
        <3>2. CASE i > L - n
            <4>1. i - (L - n) \in 1 .. n /\ L - n + (i - (L - n)) = i
                BY <1>1, <3>2
            <4>2. Q[i - (L - n)] = s[i]
                BY <1>4, <4>1
            <4> QED BY <1>5, <4>1, <4>2 DEF ToSet
        <3> QED BY <1>1, <3>1, <3>2
    <2>2. ASSUME NEW i \in 1 .. L - n PROVE P[i] \in ToSet(s)
        <3>1. i \in 1 .. L
            BY <1>1
        <3> QED BY <1>1, <1>3, <3>1 DEF ToSet
    <2>3. ASSUME NEW i \in 1 .. n PROVE Q[i] \in ToSet(s)
        <3>1. L - n + i \in 1 .. L
            BY <1>1
        <3> QED BY <1>1, <1>4, <3>1 DEF ToSet
    <2>4. ToSet(s) = {s[i] : i \in 1 .. L}
        BY <1>1 DEF ToSet
    <2>5. ToSet(P) = {P[i] : i \in 1 .. L - n} /\ ToSet(Q) = {Q[i] : i \in 1 .. n}
        BY <1>5 DEF ToSet
    <2> QED BY <2>1, <2>2, <2>3, <2>4, <2>5
<1> QED BY <1>3, <1>4, <1>7, <1>8, <1>9 DEF P, Q

\* Joining two lists without repetitions that share no element.
LEMMA JoinProperties ==
    ASSUME NEW S, NEW s \in Seq(S), NEW t \in Seq(S),
           IsInjective(s), IsInjective(t), ToSet(s) \intersect ToSet(t) = {}
    PROVE  /\ s \o t \in Seq(S)
           /\ IsInjective(s \o t)
           /\ ToSet(s \o t) = ToSet(s) \union ToSet(t)
<1> DEFINE r == s \o t
           M == Len(s)
           N == Len(t)
<1>1. /\ M \in Nat /\ N \in Nat /\ DOMAIN s = 1 .. M /\ DOMAIN t = 1 .. N
    BY LenProperties
<1>2. /\ r \in Seq(S) /\ DOMAIN r = 1 .. M + N
      /\ \A i \in 1 .. M + N : r[i] = IF i <= M THEN s[i] ELSE t[i - M]
    BY ConcatProperties, LenProperties
<1> HIDE DEF r
<1>3. ASSUME NEW i \in 1 .. M + N, NEW j \in 1 .. M + N, r[i] = r[j]
      PROVE  i = j
    <2>1. CASE i <= M /\ j <= M
        BY <1>1, <1>2, <1>3, <2>1 DEF IsInjective
    <2>2. CASE i > M /\ j > M
        <3>1. i - M \in 1 .. N /\ j - M \in 1 .. N /\ t[i - M] = t[j - M]
            BY <1>1, <1>2, <1>3, <2>2
        <3>2. i - M = j - M
            BY <1>1, <3>1 DEF IsInjective
        <3> QED BY <1>1, <3>2
    <2>3. ASSUME NEW k \in 1 .. M, NEW l \in 1 .. N PROVE s[k] # t[l]
        BY <1>1 DEF ToSet
    <2>4. CASE i <= M /\ j > M
        <3>1. i \in 1 .. M /\ j - M \in 1 .. N /\ s[i] = t[j - M]
            BY <1>1, <1>2, <1>3, <2>4
        <3> QED BY <2>3, <3>1
    <2>5. CASE i > M /\ j <= M
        <3>1. j \in 1 .. M /\ i - M \in 1 .. N /\ s[j] = t[i - M]
            BY <1>1, <1>2, <1>3, <2>5
        <3> QED BY <2>3, <3>1
    <2> QED BY <1>1, <2>1, <2>2, <2>4, <2>5
<1>4. IsInjective(r)
    BY <1>2, <1>3 DEF IsInjective
<1>5. ToSet(r) = ToSet(s) \union ToSet(t)
    <2>1. ASSUME NEW i \in 1 .. M + N PROVE r[i] \in ToSet(s) \union ToSet(t)
        <3>1. CASE i <= M
            BY <1>1, <1>2, <3>1 DEF ToSet
        <3>2. CASE i > M
            <4>1. i - M \in 1 .. N /\ r[i] = t[i - M]
                BY <1>1, <1>2, <3>2
            <4> QED BY <1>1, <4>1 DEF ToSet
        <3> QED BY <1>1, <3>1, <3>2
    <2>2. ASSUME NEW i \in 1 .. M PROVE s[i] \in ToSet(r)
        <3>1. i \in 1 .. M + N /\ r[i] = s[i]
            BY <1>1, <1>2
        <3> QED BY <1>2, <3>1 DEF ToSet
    <2>3. ASSUME NEW i \in 1 .. N PROVE t[i] \in ToSet(r)
        <3>1. M + i \in 1 .. M + N /\ r[M + i] = t[i]
            <4>1. M + i \in 1 .. M + N /\ ~(M + i <= M) /\ (M + i) - M = i
                BY <1>1
            <4> QED BY <1>2, <4>1
        <3> QED BY <1>2, <3>1 DEF ToSet
    <2>4. /\ ToSet(r) = {r[i] : i \in 1 .. M + N}
          /\ ToSet(s) = {s[i] : i \in 1 .. M} /\ ToSet(t) = {t[i] : i \in 1 .. N}
        BY <1>1, <1>2 DEF ToSet
    <2> QED BY <2>1, <2>2, <2>3, <2>4
<1> QED BY <1>2, <1>4, <1>5 DEF r

\* range(pool_size, 0, -1) lists every slot once.
LEMMA AllSlotsProperties ==
    /\ AllSlots \in Seq(Slots)
    /\ IsInjective(AllSlots)
    /\ ToSet(AllSlots) = Slots
<1>1. PoolSize \in Nat /\ DOMAIN AllSlots = 1 .. PoolSize
    BY PoolSizeAssumption DEF AllSlots, Slots
<1>2. \A i \in 1 .. PoolSize : AllSlots[i] = PoolSize + 1 - i /\ AllSlots[i] \in Slots
    BY <1>1 DEF AllSlots, Slots
<1>3. AllSlots \in [1 .. PoolSize -> Slots]
    BY <1>2 DEF AllSlots, Slots
<1>4. AllSlots \in Seq(Slots)
    BY <1>1, <1>3
<1>5. IsInjective(AllSlots)
    BY <1>1, <1>2 DEF IsInjective
<1>6. ASSUME NEW s \in Slots PROVE s \in ToSet(AllSlots)
    <2>1. PoolSize + 1 - s \in 1 .. PoolSize /\ PoolSize + 1 - (PoolSize + 1 - s) = s
        BY <1>1 DEF Slots
    <2>2. AllSlots[PoolSize + 1 - s] = s
        BY <1>2, <2>1
    <2> QED BY <1>1, <2>1, <2>2 DEF ToSet
<1>7. ToSet(AllSlots) \subseteq Slots
    BY <1>1, <1>2 DEF ToSet
<1> QED BY <1>4, <1>5, <1>6, <1>7

-----------------------------------------------------------------------------
LEMMA InitIInv == Init => IInv
<1> SUFFICES ASSUME Init PROVE IInv
    OBVIOUS
<1>1. TypeOK
    BY AllSlotsProperties DEF Init, TypeOK
<1>2. OneOwner
    BY AllSlotsProperties DEF Init, OneOwner
<1>3. NoSlotLost
    BY AllSlotsProperties DEF Init, NoSlotLost, FreeSet
<1> QED BY <1>1, <1>2, <1>3 DEF IInv

\* What AllocSome takes comes off the free list and goes to one owner.
LEMMA AllocSomeStep ==
    ASSUME IInv, NEW o \in Owner, NEW n \in Asks, AllocSome(o, n)
    PROVE  IInv'
<1> DEFINE P == WithoutSuffix(free_slots, n)
           Q == Suffix(free_slots, n)
<1>1. /\ free_slots \in Seq(Slots) /\ IsInjective(free_slots)
      /\ held \in [Owner -> SUBSET Slots]
    BY DEF IInv, TypeOK, OneOwner
<1>2. n \in 1 .. Len(free_slots)
    <2>1. Len(free_slots) \in Nat /\ n \in Int
        BY <1>1, LenProperties, AsksAssumption
    <2> QED BY <2>1 DEF AllocSome
<1>3. /\ P \in Seq(Slots) /\ Q \in Seq(Slots)
      /\ IsInjective(P) /\ IsInjective(Q)
      /\ ToSet(P) \intersect ToSet(Q) = {}
      /\ ToSet(P) \union ToSet(Q) = ToSet(free_slots)
    BY <1>1, <1>2, CutProperties
<1>4. free_slots' = P /\ held' = [held EXCEPT ![o] = @ \union ToSet(Q)]
    BY DEF AllocSome
<1>5. ToSet(Q) \subseteq Slots
    BY <1>3, ElementOfSeq, LenProperties DEF ToSet
<1> HIDE DEF P, Q
<1>6. TypeOK'
    BY <1>1, <1>3, <1>4, <1>5 DEF TypeOK
<1>7. OneOwner'
    <2>1. \A p \in Owner : held'[p] =
            IF p = o THEN held[p] \union ToSet(Q) ELSE held[p]
        BY <1>1, <1>4
    <2>2. /\ \A p \in Owner : held[p] \intersect ToSet(free_slots) = {}
          /\ \A p, q \in Owner : p # q => held[p] \intersect held[q] = {}
        BY DEF IInv, OneOwner, FreeSet
    <2>3. \A p \in Owner : held'[p] \intersect ToSet(P) = {}
        BY <1>3, <2>1, <2>2
    <2>4. \A p, q \in Owner : p # q => held'[p] \intersect held'[q] = {}
        BY <1>3, <2>1, <2>2
    <2> QED BY <1>3, <1>4, <2>3, <2>4 DEF OneOwner, FreeSet
<1>8. NoSlotLost'
    <2>1. Slots = ToSet(P) \union ToSet(Q) \union UNION {held[p] : p \in Owner}
        BY <1>3 DEF IInv, NoSlotLost, FreeSet
    <2>2. UNION {held'[p] : p \in Owner}
            = ToSet(Q) \union UNION {held[p] : p \in Owner}
        BY <1>1, <1>4
    <2> QED BY <1>4, <2>1, <2>2 DEF NoSlotLost, FreeSet
<1> QED BY <1>6, <1>7, <1>8 DEF IInv

\* What Free returns leaves one owner and goes on top of the free list.
LEMMA FreeStep ==
    ASSUME IInv, NEW o \in Owner, NEW k \in 1 .. PoolSize,
           NEW indices \in [1 .. k -> Slots], Free(o, indices)
    PROVE  IInv'
<1>1. /\ free_slots \in Seq(Slots) /\ IsInjective(free_slots)
      /\ held \in [Owner -> SUBSET Slots]
    BY DEF IInv, TypeOK, OneOwner
<1>2. indices \in Seq(Slots)
    <2>1. k \in Nat
        BY PoolSizeAssumption
    <2> QED BY <2>1
<1>3. /\ ToSet(indices) \subseteq held[o] /\ IsInjective(indices)
      /\ free_slots' = free_slots \o indices
      /\ held' = [held EXCEPT ![o] = @ \ ToSet(indices)]
    BY DEF Free
<1>4. /\ \A p \in Owner : held[p] \intersect ToSet(free_slots) = {}
      /\ \A p, q \in Owner : p # q => held[p] \intersect held[q] = {}
    BY DEF IInv, OneOwner, FreeSet
<1>5. /\ free_slots' \in Seq(Slots)
      /\ IsInjective(free_slots')
      /\ ToSet(free_slots') = ToSet(free_slots) \union ToSet(indices)
    <2>1. ToSet(free_slots) \intersect ToSet(indices) = {}
        BY <1>3, <1>4
    <2> QED BY <1>1, <1>2, <1>3, <2>1, JoinProperties
<1>6. \A p \in Owner : held'[p] =
        IF p = o THEN held[p] \ ToSet(indices) ELSE held[p]
    BY <1>1, <1>3
<1>7. TypeOK'
    BY <1>1, <1>3, <1>5 DEF TypeOK
<1>8. OneOwner'
    <2>1. \A p \in Owner : held'[p] \subseteq held[p]
        BY <1>6
    <2>2. ASSUME NEW p \in Owner PROVE held'[p] \intersect ToSet(free_slots') = {}
        <3>1. held'[p] \intersect ToSet(indices) = {}
            <4>1. CASE p = o
                BY <1>6, <4>1
            <4>2. CASE p # o
                <5>1. held[p] \intersect held[o] = {} /\ held'[p] = held[p]
                    BY <1>4, <1>6, <4>2
                <5>2. ToSet(indices) \subseteq held[o]
                    BY <1>3
                <5> QED BY <5>1, <5>2
            <4> QED BY <4>1, <4>2
        <3> QED BY <1>4, <1>5, <2>1, <3>1
    <2>3. \A p, q \in Owner : p # q => held'[p] \intersect held'[q] = {}
        BY <1>4, <2>1
    <2> QED BY <1>5, <2>2, <2>3 DEF OneOwner, FreeSet
<1>9. NoSlotLost'
    <2>1. Slots = ToSet(free_slots) \union UNION {held[p] : p \in Owner}
        BY DEF IInv, NoSlotLost, FreeSet
    <2>2. ToSet(indices) \union UNION {held'[p] : p \in Owner}
            = UNION {held[p] : p \in Owner}
        BY <1>3, <1>6
    <2> QED BY <1>5, <2>1, <2>2 DEF NoSlotLost, FreeSet
<1> QED BY <1>7, <1>8, <1>9 DEF IInv

LEMMA ClearStep == ASSUME IInv, Clear PROVE IInv'
<1>1. free_slots' = AllSlots /\ held' = [o \in Owner |-> {}]
    BY DEF Clear
<1>2. TypeOK'
    BY <1>1, AllSlotsProperties DEF TypeOK
<1>3. OneOwner'
    BY <1>1, AllSlotsProperties DEF OneOwner
<1>4. NoSlotLost'
    BY <1>1, AllSlotsProperties DEF NoSlotLost, FreeSet
<1> QED BY <1>2, <1>3, <1>4 DEF IInv

LEMMA NextIInv == IInv /\ [Next]_vars => IInv'
<1> SUFFICES ASSUME IInv, [Next]_vars PROVE IInv'
    OBVIOUS
<1>1. CASE UNCHANGED <<free_slots, held>>
    BY <1>1 DEF IInv, TypeOK, OneOwner, NoSlotLost, FreeSet
<1>2. ASSUME NEW o \in Owner, NEW n \in Asks, Alloc(o, n) PROVE IInv'
    <2>1. CASE AllocNothing(o, n) \/ AllocRaises(o, n)
        BY <1>1, <2>1 DEF AllocNothing, AllocRaises
    <2>2. CASE AllocSome(o, n)
        BY <2>2, AllocSomeStep
    <2> QED BY <1>2, <2>1, <2>2 DEF Alloc
<1>3. ASSUME NEW o \in Owner, NEW k \in 1 .. PoolSize,
             NEW indices \in [1 .. k -> Slots], Free(o, indices)
      PROVE  IInv'
    BY <1>3, FreeStep
<1>4. CASE Clear
    BY <1>4, ClearStep
<1>5. CASE UNCHANGED vars
    BY <1>1, <1>5 DEF vars
<1> QED BY <1>2, <1>3, <1>4, <1>5 DEF Next

\* alloc and free keep the free list well typed: slot 0 is never handed out.
THEOREM TypeCorrect == Spec => []TypeOK
<1>1. IInv => TypeOK
    BY DEF IInv
<1> QED BY InitIInv, NextIInv, <1>1, PTL DEF Spec

\* alloc never hands out a slot that is in use, nor one slot twice.
THEOREM SlotsHaveOneOwner == Spec => []OneOwner
<1>1. IInv => OneOwner
    BY DEF IInv
<1> QED BY InitIInv, NextIInv, <1>1, PTL DEF Spec

\* No sequence of calls, with any number of MemoryErrors in it, loses a slot.
THEOREM SlotsAreNeverLost == Spec => []NoSlotLost
<1>1. IInv => NoSlotLost
    BY DEF IInv
<1> QED BY InitIInv, NextIInv, <1>1, PTL DEF Spec
-----------------------------------------------------------------------------
\* Every answer has the length and the distinct slots AnswerFits asks for:
\* the last line of alloc slices exactly n entries off a list without
\* repetitions, and only n <= 0 is answered with an empty list.
LEMMA NextAnswerFits == IInv /\ AnswerFits /\ [Next]_vars => AnswerFits'
<1> SUFFICES ASSUME IInv, AnswerFits, [Next]_vars PROVE AnswerFits'
    OBVIOUS
<1>1. ASSUME NEW n \in Int PROVE Max({0, n}) = IF n <= 0 THEN 0 ELSE n
    BY DEF Max
<1>2. ASSUME NEW o \in Owner, NEW n \in Asks, Alloc(o, n) PROVE AnswerFits'
    <2>1. n \in Int
        BY AsksAssumption
    <2>2. CASE AllocNothing(o, n)
        <3>1. /\ reply'.slots = <<>> /\ reply'.n = n /\ n <= 0
            BY <2>2 DEF AllocNothing
        <3>2. Len(<<>>) = 0 /\ IsInjective(<<>>)
            BY DEF IsInjective
        <3> QED BY <1>1, <2>1, <3>1, <3>2 DEF AnswerFits
    <2>3. CASE AllocRaises(o, n)
        BY <2>3 DEF AllocRaises, AnswerFits
    <2>4. CASE AllocSome(o, n)
        <3>1. free_slots \in Seq(Slots) /\ IsInjective(free_slots)
            BY DEF IInv, TypeOK, OneOwner
        <3>2. n \in 1 .. Len(free_slots) /\ n > 0
            BY <2>1, <2>4, <3>1, LenProperties DEF AllocSome
        <3>3. Len(Suffix(free_slots, n)) = n /\ IsInjective(Suffix(free_slots, n))
            BY <3>1, <3>2, CutProperties
        <3>4. reply'.slots = Suffix(free_slots, n) /\ reply'.n = n
            BY <2>4 DEF AllocSome
        <3> QED BY <1>1, <2>1, <3>2, <3>3, <3>4 DEF AnswerFits
    <2> QED BY <1>2, <2>2, <2>3, <2>4 DEF Alloc
<1>3. CASE reply' = NoReply
    BY <1>3 DEF AnswerFits, NoReply
<1>4. CASE UNCHANGED vars
    BY <1>4 DEF AnswerFits, vars
<1> QED BY <1>2, <1>3, <1>4 DEF Next, Free, Clear

\* alloc answers with n distinct slots, and with none for n <= 0.
THEOREM AnswersFit == Spec => []AnswerFits
<1>1. Init => AnswerFits
    BY DEF Init, NoReply, AnswerFits
<1> QED BY InitIInv, NextIInv, <1>1, NextAnswerFits, PTL DEF Spec

-----------------------------------------------------------------------------
\* The refinement mapping is well defined where every slot has one owner.
OwnerMap == [s \in Slots |-> OwnerOf(s)]

OwnerMapExact ==
    /\ \A s \in Slots, o \in Owner : OwnerOf(s) = o <=> s \in held[o]
    /\ \A s \in Slots : OwnerOf(s) = Nobody <=> s \in FreeSet

LEMMA OwnerMapIsExact == IInv => OwnerMapExact
<1> SUFFICES ASSUME IInv PROVE OwnerMapExact
    OBVIOUS
<1>1. /\ \A o \in Owner : held[o] \intersect FreeSet = {}
      /\ \A o, p \in Owner : o # p => held[o] \intersect held[p] = {}
      /\ Slots = FreeSet \union UNION {held[o] : o \in Owner}
    BY DEF IInv, OneOwner, NoSlotLost
<1>2. ASSUME NEW s \in Slots, NEW o \in Owner, s \in held[o]
      PROVE  OwnerOf(s) = o /\ s \notin FreeSet
    <2>1. \A p \in Owner : s \in held[p] => p = o
        BY <1>1, <1>2
    <2> QED BY <1>1, <1>2, <2>1 DEF OwnerOf
<1>3. ASSUME NEW s \in Slots, \A o \in Owner : s \notin held[o]
      PROVE  OwnerOf(s) = Nobody /\ s \in FreeSet
    BY <1>1, <1>3 DEF OwnerOf
<1>4. \A o \in Owner : o # Nobody
    BY NobodyAssumption
<1> QED BY <1>2, <1>3, <1>4 DEF OwnerMapExact

\* A list without repetitions has as many elements as entries.
LEMMA CardinalityOfList ==
    ASSUME NEW S, NEW s \in Seq(S), IsInjective(s)
    PROVE  Cardinality(ToSet(s)) = Len(s)
<1>1. Len(s) \in Nat /\ DOMAIN s = 1 .. Len(s)
    BY LenProperties
<1>2. s \in Bijection(1 .. Len(s), ToSet(s))
    <2>1. s \in [1 .. Len(s) -> ToSet(s)] /\ \A y \in ToSet(s) : \E i \in 1 .. Len(s) : s[i] = y
        BY <1>1 DEF ToSet
    <2>2. \A i, j \in 1 .. Len(s) : s[i] = s[j] => i = j
        BY <1>1 DEF IsInjective
    <2> QED BY <2>1, <2>2 DEF Bijection, Injection, Surjection, IsInjective
<1>3. ExistsBijection(1 .. Len(s), ToSet(s))
    BY <1>2 DEF ExistsBijection
<1> QED BY <1>1, <1>3, FS_CountingElements

LEMMA InitRefines == Init => Pool!Init
<1> SUFFICES ASSUME Init PROVE Pool!Init
    OBVIOUS
<1>1. \A s \in Slots : OwnerOf(s) = Nobody
    BY DEF Init, OwnerOf
<1> QED BY <1>1 DEF Pool!Init, Pool!Slots, Slots

\* Every call is a step of the pool or leaves its slot map as it was.
LEMMA NextRefines ==
    IInv /\ IInv' /\ OwnerMapExact /\ OwnerMapExact' /\ [Next]_vars
        => [Pool!Next]_OwnerMap
<1> SUFFICES ASSUME IInv, IInv', OwnerMapExact, OwnerMapExact', [Next]_vars
             PROVE  [Pool!Next]_OwnerMap
    OBVIOUS
<1> USE DEF Pool!Slots, Slots
<1>1. /\ \A s \in Slots, o \in Owner : OwnerOf(s) = o <=> s \in held[o]
      /\ \A s \in Slots, o \in Owner : OwnerOf(s)' = o <=> s \in held'[o]
      /\ \A s \in Slots : OwnerOf(s) = Nobody <=> s \in FreeSet
      /\ \A s \in Slots : OwnerOf(s)' = Nobody <=> s \in FreeSet'
    BY DEF OwnerMapExact
<1>2. /\ held \in [Owner -> SUBSET Slots] /\ free_slots \in Seq(Slots)
      /\ IsInjective(free_slots)
      /\ Slots = FreeSet \union UNION {held[o] : o \in Owner}
      /\ Slots = FreeSet' \union UNION {held'[o] : o \in Owner}
    BY DEF IInv, TypeOK, OneOwner, NoSlotLost
<1>3. \A s \in Slots : OwnerOf(s) \in Owner \union {Nobody}
    BY <1>1, <1>2
<1>4. \A s \in Slots : OwnerOf(s)' \in Owner \union {Nobody}
    BY <1>1, <1>2
<1>5. CASE UNCHANGED <<free_slots, held>>
    <2>1. \A s \in Slots : OwnerOf(s)' = OwnerOf(s)
        BY <1>5 DEF OwnerOf
    <2> QED BY <2>1 DEF OwnerMap
<1>6. ASSUME NEW o \in Owner, NEW n \in Asks, AllocSome(o, n)
      PROVE  Pool!Alloc(o, n)
    <2> DEFINE S == ToSet(Suffix(free_slots, n))
    <2>1. n \in 1 .. Len(free_slots)
        BY <1>2, <1>6, AsksAssumption, LenProperties DEF AllocSome
    <2>2. /\ Suffix(free_slots, n) \in Seq(Slots)
          /\ Len(Suffix(free_slots, n)) = n
          /\ IsInjective(Suffix(free_slots, n))
          /\ S \subseteq FreeSet
        BY <1>2, <2>1, CutProperties DEF FreeSet
    <2>3. Cardinality(S) = n
        BY <2>2, CardinalityOfList
    <2>4. held' = [held EXCEPT ![o] = @ \union S]
        BY <1>6 DEF AllocSome
    <2> HIDE DEF S
    <2>5. S \in SUBSET Slots
        BY <1>2, <2>2
    <2>6. \A s \in S : OwnerOf(s) = Nobody
        BY <1>1, <2>2, <2>5
    <2>7. ASSUME NEW s \in S PROVE OwnerOf(s)' = o
        BY <1>1, <1>2, <2>4, <2>5, <2>7
    <2>8. ASSUME NEW s \in Slots \ S PROVE OwnerOf(s)' = OwnerOf(s)
        <3>1. \A p \in Owner : s \in held'[p] <=> s \in held[p]
            BY <1>2, <2>4, <2>8
        <3> QED BY <1>1, <1>3, <1>4, <3>1
    <2>9. Pool!HandOver(S, Nobody, o)
        BY <2>5, <2>6, <2>7, <2>8 DEF Pool!HandOver
    <2>10. Pool!Cardinality(S) = Cardinality(S)
        BY DEF Pool!Cardinality, Cardinality
    <2> QED BY <2>3, <2>5, <2>9, <2>10 DEF Pool!Alloc
<1>7. ASSUME NEW o \in Owner, NEW k \in 1 .. PoolSize,
             NEW indices \in [1 .. k -> Slots], Free(o, indices)
      PROVE  Pool!Free(o)
    <2> DEFINE S == ToSet(indices)
    <2>1. S \subseteq held[o] /\ held' = [held EXCEPT ![o] = @ \ S]
        BY <1>7 DEF Free
    <2> HIDE DEF S
    <2>2. S \in SUBSET Slots
        BY <1>2, <2>1
    <2>3. \A s \in S : OwnerOf(s) = o
        BY <1>1, <2>1, <2>2
    <2>4. ASSUME NEW s \in S PROVE OwnerOf(s)' = Nobody
        <3>1. \A p \in Owner : s \notin held'[p]
            <4>1. \A p \in Owner : s \in held[p] => p = o
                BY <1>1, <2>2, <2>3, <2>4
            <4> QED BY <1>2, <2>1, <2>4, <4>1
        <3> QED BY <1>1, <1>4, <2>2, <2>4, <3>1
    <2>5. ASSUME NEW s \in Slots \ S PROVE OwnerOf(s)' = OwnerOf(s)
        <3>1. \A p \in Owner : s \in held'[p] <=> s \in held[p]
            BY <1>2, <2>1, <2>5
        <3> QED BY <1>1, <1>3, <1>4, <3>1
    <2>6. Pool!HandOver(S, o, Nobody)
        BY <2>2, <2>3, <2>4, <2>5 DEF Pool!HandOver
    <2> QED BY <2>2, <2>6 DEF Pool!Free
<1>8. CASE Clear
    <2>1. \A s \in Slots : OwnerOf(s)' = Nobody
        BY <1>8 DEF Clear, OwnerOf
    <2> QED BY <2>1 DEF Pool!Next, Pool!Clear
<1>9. ASSUME NEW o \in Owner, NEW n \in Asks, Alloc(o, n)
      PROVE  [Pool!Next]_OwnerMap
    BY <1>5, <1>6, <1>9 DEF Alloc, AllocNothing, AllocRaises, Pool!Next
<1> QED BY <1>5, <1>7, <1>8, <1>9 DEF Next, vars, Pool!Next

\* The stack of memory_pool.py implements the pool: an allocation hands over
\* exactly n free slots or none, a slot returns only from its owner.
THEOREM ImplementsSlotPool == Spec => RefinesSlotPool
<1>1. Pool!Spec <=> Pool!Init /\ [][Pool!Next]_OwnerMap
    BY DEF Pool!Spec, OwnerMap
<1> QED BY <1>1, InitIInv, NextIInv, OwnerMapIsExact, InitRefines, NextRefines, PTL
        DEF Spec, RefinesSlotPool
=============================================================================
