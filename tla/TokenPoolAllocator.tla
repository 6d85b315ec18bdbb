-------------------------- MODULE TokenPoolAllocator --------------------------
(***************************************************************************)
(* The class TokenPoolAllocator of memory_pool.py: a stack of free slots.  *)
(* Its users are the radix cache, which frees what it evicts, and the      *)
(* requests of ModelRunner, which allocate; held is what each has taken    *)
(* and not returned.  The allocator checks nothing about what it is given  *)
(* back, so Free states the contract: a list of distinct slots the owner   *)
(* holds.                                                                  *)
(***************************************************************************)
EXTENDS Integers, SequencesExt

CONSTANTS
    PoolSize,   \* number of slots
    Owner,      \* who allocates and frees
    Asks,       \* the numbers of slots they ask for
    Nobody      \* the owner of a free slot

ASSUME PoolSizeAssumption == PoolSize \in Nat \ {0}    \* ValueError otherwise
ASSUME AsksAssumption == Asks \subseteq Int
ASSUME NobodyAssumption == Nobody \notin Owner

VARIABLES
    free_slots, \* the stack, its top at the end
    held,       \* owner -> the slots it took and has not returned
    reply       \* what the last call returned or raised

vars == <<free_slots, held, reply>>

Slots == 1 .. PoolSize

AllSlots == [i \in Slots |-> PoolSize + 1 - i]      \* range(pool_size, 0, -1)

NoReply == [op |-> "none"]

Init ==
    /\ free_slots = AllSlots
    /\ held = [o \in Owner |-> {}]
    /\ reply = NoReply

Suffix_Front(s, n) == SubSeq(s, 1, n)       \* taken from the wrong end
WithoutSuffix_OneMore(s, n) == IF n = Len(s) THEN <<>> ELSE SubSeq(s, 1, Len(s) - n - 1)
WithoutSuffix_Nothing(s, n) == s            \* del forgotten

\* Python's s[-n:] and what del s[-n:] leaves, for n <= len(s); s[-0:] is the
\* whole list.
Suffix(s, n) == IF n = 0 THEN s ELSE SubSeq(s, Len(s) - n + 1, Len(s))
WithoutSuffix(s, n) == IF n = 0 THEN <<>> ELSE SubSeq(s, 1, Len(s) - n)

AllocNothing(o, n) ==
    /\ n <= 0
    /\ reply' = [op |-> "alloc", n |-> n, slots |-> <<>>]
    /\ UNCHANGED <<free_slots, held>>

AllocRaises(o, n) ==
    /\ n > 0 /\ n > Len(free_slots)
    /\ reply' = [op |-> "MemoryError", n |-> n]
    /\ UNCHANGED <<free_slots, held>>

AllocSome_Zero(o, n) ==     \* guard off by one: n = 0 takes s[-0:]
    /\ n >= 0 /\ n <= Len(free_slots)
    /\ free_slots' = WithoutSuffix(free_slots, n)
    /\ held' = [held EXCEPT ![o] = @ \union ToSet(Suffix(free_slots, n))]
    /\ reply' = [op |-> "alloc", n |-> n, slots |-> Suffix(free_slots, n)]

AllocSome(o, n) ==
    /\ n > 0 /\ n <= Len(free_slots)
    /\ free_slots' = WithoutSuffix(free_slots, n)
    /\ held' = [held EXCEPT ![o] = @ \union ToSet(Suffix(free_slots, n))]
    /\ reply' = [op |-> "alloc", n |-> n, slots |-> Suffix(free_slots, n)]

Alloc(o, n) == AllocNothing(o, n) \/ AllocRaises(o, n) \/ AllocSome(o, n)

Free(o, indices) ==
    /\ ToSet(indices) \subseteq held[o]
    /\ IsInjective(indices)
    /\ free_slots' = free_slots \o indices
    /\ held' = [held EXCEPT ![o] = @ \ ToSet(indices)]
    /\ reply' = NoReply

\* clear forgets every owner: whoever calls it must drop its lists as well.
Clear ==
    /\ free_slots' = AllSlots
    /\ held' = [o \in Owner |-> {}]
    /\ reply' = NoReply

Next ==
    \/ \E o \in Owner, n \in Asks : Alloc(o, n)
    \/ \E o \in Owner, k \in 1 .. PoolSize :
          \E indices \in [1 .. k -> Slots] : Free(o, indices)
    \/ Clear

Spec == Init /\ [][Next]_vars

-----------------------------------------------------------------------------
FreeSet == ToSet(free_slots)

TypeOK ==
    /\ free_slots \in Seq(Slots)
    /\ held \in [Owner -> SUBSET Slots]

\* No slot is listed twice, listed while somebody holds it, or held by two:
\* the KV data of two prefixes never share a slot.
OneOwner ==
    /\ IsInjective(free_slots)
    /\ \A o \in Owner : held[o] \intersect FreeSet = {}
    /\ \A o, p \in Owner : o # p => held[o] \intersect held[p] = {}

\* No slot is ever lost: it is free or somebody has it, whatever sequence of
\* allocations, failed ones included, and frees went before.  And slot 0, kept
\* for padding, is neither.
NoSlotLost == Slots = FreeSet \union UNION {held[o] : o \in Owner}

\* An allocation answers with as many distinct slots as were asked for, and
\* for a request of nothing with nothing.
AnswerFits ==
    reply.op = "alloc" =>
        /\ Len(reply.slots) = Max({0, reply.n})
        /\ IsInjective(reply.slots)

\* The slot map a caller sees.
OwnerOf(s) ==
    IF \E o \in Owner : s \in held[o] THEN CHOOSE o \in Owner : s \in held[o] ELSE Nobody

Pool == INSTANCE SlotPool WITH owner <- [s \in Slots |-> OwnerOf(s)]

\* The stack implements the pool.
RefinesSlotPool == Pool!Spec
=============================================================================
