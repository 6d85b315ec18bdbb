------------------------------- MODULE SlotPool -------------------------------
(***************************************************************************)
(* What TokenPoolAllocator promises: every slot has at most one owner, an  *)
(* allocation hands over exactly as many free slots as were asked for or   *)
(* nothing at all, and slots return to the pool only from their owner.     *)
(***************************************************************************)
EXTENDS Integers, FiniteSets

CONSTANTS PoolSize, Owner, Nobody, Asks

VARIABLE owner      \* slot -> its owner, or Nobody

Slots == 1 .. PoolSize      \* slot 0 is padding

Init == owner = [s \in Slots |-> Nobody]

HandOver(S, from, to) ==
    /\ \A s \in S : owner[s] = from
    /\ owner' = [s \in Slots |-> IF s \in S THEN to ELSE owner[s]]

Alloc(o, n) == \E S \in SUBSET Slots : Cardinality(S) = n /\ HandOver(S, Nobody, o)

Free(o) == \E S \in SUBSET Slots : HandOver(S, o, Nobody)

Clear == owner' = [s \in Slots |-> Nobody]

Next ==
    \/ \E o \in Owner, n \in Asks : Alloc(o, n)
    \/ \E o \in Owner : Free(o)
    \/ Clear

Spec == Init /\ [][Next]_owner
=============================================================================
