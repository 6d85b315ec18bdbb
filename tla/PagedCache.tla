------------------------------ MODULE PagedCache ------------------------------
(***************************************************************************)
(* reshape_and_cache and reshape_and_cache_flash: one thread group per     *)
(* token, whose threads share out the elements of the token's key and      *)
(* value and store them at computed addresses.  Threads run in any order.  *)
(* What was stored is looked up as its readers do: in the paged layout as  *)
(* the kernel paged_attention does, in the flash layout as the row-major   *)
(* array its comment describes.                                            *)
(*                                                                         *)
(* An element of the new keys or values is named by its token, head and    *)
(* dimension; an element the cache held before is Old.  Inputs are dense:  *)
(* token i starts at i times NumHeads * HeadSize.                          *)
(***************************************************************************)
EXTENDS Integers

CONSTANTS
    NumTokens,
    Calls       \* the arguments of the calls, see CallsAssumption

Token == 0 .. NumTokens - 1

\* The layout of the cache, the shapes of keys and caches, the packing of keys
\* x = key_cache.shape(4), the number of threads in a group, and slot_mapping:
\* token -> slot, negative for none.
ASSUME CallsAssumption ==
    /\ NumTokens \in Nat
    /\ \A c \in Calls :
        /\ c.layout \in {"paged", "flash"}
        /\ \A n \in {c.num_blocks, c.num_heads, c.head_size, c.block_size, c.x, c.threads} :
                n \in Nat \ {0}
        /\ c.x * (c.head_size \div c.x) = c.head_size
        /\ c.slot_mapping \in
                [Token -> {s \in Int : s < c.num_blocks * c.block_size}]

VARIABLES
    call,
    stored,         \* how many stores each thread of each group has done
    key_cache, value_cache

vars == <<call, stored, key_cache, value_cache>>

NumBlocks == call.num_blocks
NumHeads == call.num_heads
HeadSize == call.head_size
BlockSize == call.block_size
X == call.x

Slot == 0 .. NumBlocks * BlockSize - 1
KvHead == 0 .. NumHeads - 1
Dim == 0 .. HeadSize - 1
Thread == 0 .. call.threads - 1

RowSize == NumHeads * HeadSize      \* n
Address == 0 .. NumBlocks * BlockSize * RowSize - 1

-----------------------------------------------------------------------------
(* Where element i of a token with slot s is stored *)

HeadIdx(i) == i \div HeadSize
HeadOffset(i) == i % HeadSize

PagedKeyIdx(s, i) ==
    LET x_idx == HeadOffset(i) \div X
        x_offset == HeadOffset(i) % X
    IN  (s \div BlockSize) * (NumHeads * (HeadSize \div X) * BlockSize * X)
            + HeadIdx(i) * ((HeadSize \div X) * BlockSize * X)
            + x_idx * (BlockSize * X) + (s % BlockSize) * X + x_offset

PagedValueIdx(s, i) ==
    (s \div BlockSize) * (NumHeads * HeadSize * BlockSize)
        + HeadIdx(i) * (HeadSize * BlockSize)
        + HeadOffset(i) * BlockSize + (s % BlockSize)

FlashIdx(s, i) ==
    (s \div BlockSize) * BlockSize * NumHeads * HeadSize
        + (s % BlockSize) * NumHeads * HeadSize + i

KeyIdx(s, i) == IF call.layout = "paged" THEN PagedKeyIdx(s, i) ELSE FlashIdx(s, i)
ValueIdx_Offset(s, i) ==    \* block_offset forgotten
    LET first == (s \div BlockSize) * BlockSize
    IN  IF call.layout = "paged" THEN PagedValueIdx(first, i) ELSE FlashIdx(first, i)
ValueIdx(s, i) == IF call.layout = "paged" THEN PagedValueIdx(s, i) ELSE FlashIdx(s, i)

-----------------------------------------------------------------------------
(* Where the readers look for dimension d of head h of slot s *)

\* The strides of the key cache, which paged_attention uses for both caches.
\* Its packing is 16 / sizeof(CACHE_T), and keys must be packed by that: the
\* launcher does not check it.
BlockStride == NumHeads * (HeadSize \div X) * BlockSize * X
HeadStride == (HeadSize \div X) * BlockSize * X

\* The index of [block, offset, head, dim].
RowMajor(s, h, d) ==
    (((s \div BlockSize) * BlockSize + (s % BlockSize)) * NumHeads + h) * HeadSize + d

KeyRead(s, h, d) ==
    IF call.layout = "flash" THEN RowMajor(s, h, d)
    ELSE (s \div BlockSize) * BlockStride + h * HeadStride
            + (d \div X) * BlockSize * X + (s % BlockSize) * X + (d % X)

ValueRead(s, h, d) ==
    IF call.layout = "flash" THEN RowMajor(s, h, d)
    ELSE (s \div BlockSize) * BlockStride + h * HeadStride + d * BlockSize + (s % BlockSize)

-----------------------------------------------------------------------------
SlotOf(t) == call.slot_mapping[t]

Old == <<>>
Element(t, i) == <<t, HeadIdx(i), HeadOffset(i)>>

\* for (i = tid; i < n; i += threads_per_threadgroup): a store of a key and
\* one of a value for each i; no iteration for a token without a slot.
Iterations_Short(t, th) ==      \* i < n - 1
    IF SlotOf(t) < 0 THEN 0 ELSE (RowSize - 1 - th + call.threads - 1) \div call.threads
Iterations_NoSlotCheck(t, th) ==    \* return for slot_idx < 0 forgotten
    (RowSize - th + call.threads - 1) \div call.threads
Iterations(t, th) ==
    IF SlotOf(t) < 0 THEN 0 ELSE (RowSize - th + call.threads - 1) \div call.threads

Init ==
    /\ call \in Calls
    /\ stored = [t \in Token |-> [th \in Thread |-> 0]]
    /\ key_cache = [a \in Address |-> Old]
    /\ value_cache = [a \in Address |-> Old]

Next_i(t, th) == th + (stored[t][th] \div 2) * call.threads

StoreKey(t, th) ==
    /\ stored[t][th] < 2 * Iterations(t, th)
    /\ stored[t][th] % 2 = 0
    /\ LET i == Next_i(t, th)
       IN  key_cache' = [key_cache EXCEPT ![KeyIdx(SlotOf(t), i)] = Element(t, i)]
    /\ stored' = [stored EXCEPT ![t][th] = @ + 1]
    /\ UNCHANGED <<call, value_cache>>

StoreValue(t, th) ==
    /\ stored[t][th] < 2 * Iterations(t, th)
    /\ stored[t][th] % 2 = 1
    /\ LET i == Next_i(t, th)
       IN  value_cache' = [value_cache EXCEPT ![ValueIdx(SlotOf(t), i)] = Element(t, i)]
    /\ stored' = [stored EXCEPT ![t][th] = @ + 1]
    /\ UNCHANGED <<call, key_cache>>

Next == \E t \in Token, th \in Thread : StoreKey(t, th) \/ StoreValue(t, th)

Spec == Init /\ [][Next]_vars

-----------------------------------------------------------------------------
Done == \A t \in Token, th \in Thread : stored[t][th] = 2 * Iterations(t, th)

\* Dimension d of head h is element i of a token, which thread i % threads
\* stores in its iteration i \div threads: whether that thread has stored the
\* key (n = 0) or the value (n = 1).
IsStored(t, h, d, n) ==
    LET i == h * HeadSize + d
    IN  stored[t][i % call.threads] > 2 * (i \div call.threads) + n
StoredBy(s, h, d, n) == {t \in Token : SlotOf(t) = s /\ IsStored(t, h, d, n)}

\* What is found where these tokens, and no others, have stored dimension d of
\* head h.
OneOf(tokens, h, d) == IF tokens = {} THEN {Old} ELSE {<<t, h, d>> : t \in tokens}

\* At any moment, under any schedule, a reader finds in a slot exactly what has
\* been stored for it: of the tokens mapped to that slot that have come to the
\* head and dimension it asks for, the element of one of them, and what was
\* there before if there is none.  No store is lost, and none reaches a cell of
\* another slot, head or dimension.
SlotsHoldTheirTokens ==
    \A s \in Slot, h \in KvHead, d \in Dim :
        /\ KeyRead(s, h, d) \in Address /\ ValueRead(s, h, d) \in Address
        /\ key_cache[KeyRead(s, h, d)] \in OneOf(StoredBy(s, h, d, 0), h, d)
        /\ value_cache[ValueRead(s, h, d)] \in OneOf(StoredBy(s, h, d, 1), h, d)

\* The kernel checks no address: what a thread stores next, key and value, lies
\* inside the caches all the same, also when slot_mapping names no slot.
StoresStayInCache ==
    \A t \in Token, th \in Thread :
        stored[t][th] < 2 * Iterations(t, th) =>
            LET i == Next_i(t, th)
            IN  KeyIdx(SlotOf(t), i) \in Address /\ ValueIdx(SlotOf(t), i) \in Address

\* When all threads are done every token that has a slot of its own can be
\* read back whole, key and value.
StoredTokensAreRead ==
    Done =>
        \A t \in Token :
            SlotOf(t) >= 0 /\ (\A u \in Token \ {t} : SlotOf(u) # SlotOf(t)) =>
                \A h \in KvHead, d \in Dim :
                    /\ key_cache[KeyRead(SlotOf(t), h, d)] = <<t, h, d>>
                    /\ value_cache[ValueRead(SlotOf(t), h, d)] = <<t, h, d>>
=============================================================================
