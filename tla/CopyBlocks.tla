------------------------------ MODULE CopyBlocks ------------------------------
(***************************************************************************)
(* copy_blocks and swap_blocks: a thread group per (source, destination)   *)
(* pair of block_mapping, whose threads share out the elements of a block  *)
(* and load and store them one by one.  Pairs are not ordered.             *)
(*                                                                         *)
(* copy_blocks copies inside a cache, the key cache and then the value     *)
(* cache; swap_blocks copies from another array.  What a cell holds is     *)
(* named by where it was before the call.                                  *)
(***************************************************************************)
EXTENDS Integers

CONSTANTS
    NumCacheBlocks,
    NumelPerBlock,
    NumThreads,     \* threads_per_threadgroup = min(256, numel_per_block)
    CopyCalls       \* the kernels called, with their block_mapping arrays:
                    \* pair -> <<source, destination>>

Block == 0 .. NumCacheBlocks - 1
ASSUME BlockSizesAssumption ==
    /\ NumCacheBlocks \in Nat \ {0} /\ NumelPerBlock \in Nat \ {0}
    /\ NumThreads \in 1 .. NumelPerBlock
ASSUME CopyCallsAssumption ==
    \A c \in CopyCalls :
        /\ c.kernel \in {"copy_blocks", "swap_blocks"}
        /\ \A p \in DOMAIN c.block_mapping : c.block_mapping[p] \in Block \X Block

CopyAddress == 0 .. NumCacheBlocks * NumelPerBlock - 1
GroupThread == 0 .. NumThreads - 1

VARIABLES
    copy_call,
    memory,         \* the caches copied into, cell by cell
    copied,         \* how many elements each thread of each pair has copied
    loaded          \* the value it has loaded and not yet stored, if any

cvars == <<copy_call, memory, copied, loaded>>

Pair == DOMAIN copy_call.block_mapping
Src(p) == copy_call.block_mapping[p][1]
Dst(p) == copy_call.block_mapping[p][2]

InPlace == copy_call.kernel = "copy_blocks"
Cache == IF InPlace THEN {0, 1} ELSE {0}

Nothing == <<>>
Before(a) == <<"dst", a>>       \* what a cell of the caches held before
Foreign(a) == <<"src", a>>      \* what a cell of the other array holds

CopyInit ==
    /\ copy_call \in CopyCalls
    /\ memory = [c \in Cache |-> [a \in CopyAddress |-> Before(a)]]
    /\ copied = [p \in Pair |-> [th \in GroupThread |-> 0]]
    /\ loaded = [p \in Pair |-> [th \in GroupThread |-> Nothing]]

\* for (i = tid; i < numel_per_block; i += threads_per_threadgroup)
CopyIterations_Short(th) ==         \* numel_per_block / threads_per_threadgroup
    NumelPerBlock \div NumThreads
CopyIterations(th) == (NumelPerBlock - th + NumThreads - 1) \div NumThreads

BlockOffset_Short(b) == b * (NumelPerBlock - 1)
BlockOffset(b) == b * NumelPerBlock

\* The cache a thread is at, and the element of the block.
AtCache(p, th) == copied[p][th] \div CopyIterations(th)
AtElement(p, th) == th + (copied[p][th] % CopyIterations(th)) * NumThreads

Busy(p, th) == AtCache(p, th) \in Cache

LoadElement(p, th) ==
    /\ Busy(p, th) /\ loaded[p][th] = Nothing
    /\ LET a == BlockOffset(Src(p)) + AtElement(p, th)
       IN  loaded' = [loaded EXCEPT ![p][th] =
                        IF InPlace THEN memory[AtCache(p, th)][a] ELSE Foreign(a)]
    /\ UNCHANGED <<copy_call, memory, copied>>

StoreElement(p, th) ==
    /\ loaded[p][th] # Nothing
    /\ LET a == BlockOffset(Dst(p)) + AtElement(p, th)
       IN  memory' = [memory EXCEPT ![AtCache(p, th)][a] = loaded[p][th]]
    /\ copied' = [copied EXCEPT ![p][th] = @ + 1]
    /\ loaded' = [loaded EXCEPT ![p][th] = Nothing]
    /\ UNCHANGED copy_call

CopyNext ==
    \E p \in Pair, th \in GroupThread : LoadElement(p, th) \/ StoreElement(p, th)

CopySpec == CopyInit /\ [][CopyNext]_cvars

-----------------------------------------------------------------------------
AllCopied == \A p \in Pair, th \in GroupThread : ~Busy(p, th)

\* The cell of element i of block b.
Cell(b, i) == b * NumelPerBlock + i
BlockElement == 0 .. NumelPerBlock - 1

\* No two pairs write one block, and no pair reads what another writes.
Independent ==
    \A p, q \in Pair : p # q => Dst(p) # Dst(q) /\ (InPlace => Dst(p) # Src(q))

\* When all threads are done with independent pairs, every destination is a
\* copy of what its source held before the call, and every other block is
\* what it was: the order of pairs, threads, loads and stores is not seen.
CopiesAsIfAtOnce ==
    AllCopied /\ Independent =>
        \A c \in Cache, b \in Block, i \in BlockElement :
            LET from == {Src(p) : p \in {q \in Pair : Dst(q) = b}}
            IN  memory[c][Cell(b, i)] \in
                    IF from = {} THEN {Before(Cell(b, i))}
                    ELSE {IF InPlace THEN Before(Cell(s, i)) ELSE Foreign(Cell(s, i)) :
                            s \in from}

\* The blocks from which chains of pairs lead to block b: those that are in no
\* set of blocks which the pairs do not leave and b is not in.
Upstream(b) ==
    {s \in Block : \A S \in SUBSET Block :
        s \in S /\ (\A p \in Pair : Src(p) \in S => Dst(p) \in S) => b \in S}

\* For any pairs, chained, cyclic or with one destination twice, and at any
\* moment: a cell holds what the same element of its own block or of a block
\* copied towards it held before, so contents never move to another element
\* or to a block that is no destination.
ContentsFollowPairs ==
    LET sources(b) == {Src(p) : p \in {q \in Pair : Dst(q) = b}}
    IN  \A c \in Cache, b \in Block, i \in BlockElement :
            memory[c][Cell(b, i)] \in
                IF InPlace THEN {Before(Cell(s, i)) : s \in Upstream(b)}
                ELSE {Before(Cell(b, i))} \union {Foreign(Cell(s, i)) : s \in sources(b)}
=============================================================================
