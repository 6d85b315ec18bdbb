------------------------- MODULE PagedAttentionKernel -------------------------
(***************************************************************************)
(* One thread group of the Metal kernel paged_attention: the warps that    *)
(* compute one head of one sequence.  The lanes of a warp run in lockstep; *)
(* warps run at their own speed and meet at the six barriers.  A step is   *)
(* what a warp does between two barriers, cut where it publishes a result. *)
(*                                                                         *)
(* Numbers are replaced by where they come from.  A score is that of a     *)
(* token, a maximum is the set of tokens it was taken over, a sum counts   *)
(* how often each token was added.  Wrong is what comes of anything else:  *)
(* a cell that was not initialised, a weight scaled by a partial maximum,  *)
(* a sum divided by a partial sum.                                         *)
(***************************************************************************)
EXTENDS Integers, SequencesExt

CONSTANTS
    NumWarps,       \* NUM_WARPS = 256 / 32
    NumLanes,       \* NUM_SIMD_LANES = 32
    BLOCK_SIZE,     \* tokens per block
    HEAD_SIZE,
    MaxSeqLen,      \* max_seq_len
    RedSize,        \* floats between the logits and out_smem: 128
    ContextLens     \* the context lengths a sequence may have

Log2NumLanes == CHOOSE k \in 0 .. NumLanes : 2^k = NumLanes

ASSUME WarpsAssumption == NumWarps \in Nat \ {0} /\ NumWarps + 2 <= RedSize
ASSUME LanesAssumption == NumLanes \in Nat \ {0} /\ NumWarps <= NumLanes
ASSUME SizesAssumption ==
    /\ BLOCK_SIZE \in Nat \ {0} /\ HEAD_SIZE \in Nat \ {0}
    /\ MaxSeqLen \in Nat \ {0} /\ RedSize \in Nat
ASSUME ContextLensAssumption == ContextLens \subseteq Nat

Warp == 0 .. NumWarps - 1
Lane == 0 .. NumLanes - 1
HeadDim == 0 .. HEAD_SIZE - 1
Position == 0 .. MaxSeqLen - 1

\* for (i = thread_idx; i < n; i += NUM_THREADS), for the threads of a warp.
ThreadLoop(w, l, n) == {i \in 0 .. n - 1 : i % (NumWarps * NumLanes) = w * NumLanes + l}
WarpLoop(w, n) == UNION {ThreadLoop(w, l, n) : l \in Lane}

-----------------------------------------------------------------------------
(* Shared memory: logits, red_smem and out_smem one after the other *)

SmemCells_OneHead == MaxSeqLen + RedSize + HEAD_SIZE  \* (nt / nsl) forgotten
SmemCells == MaxSeqLen + RedSize + NumWarps * HEAD_SIZE
SmemAddress == 0 .. SmemCells - 1

Logit(t) == t
Red(i) == MaxSeqLen + i
OutSmem(w, d) == MaxSeqLen + RedSize + w * HEAD_SIZE + d

RedMax == Red(RedSize - 1)      \* red_smem[127]
RedSum == Red(RedSize - 2)      \* red_smem[126]

-----------------------------------------------------------------------------
(* Values *)

Wrong == [kind |-> "wrong"]     \* also what uninitialised memory holds
Lowest == [kind |-> "lowest"]   \* -FLT_MAX, for a logit
ScoreOf(t) == [kind |-> "score", of |-> t]
WeightOf(t) == [kind |-> "weight", of |-> t]    \* exp(score - maximum)
MaxOver(S) == [kind |-> "max", of |-> S]        \* -FLT_MAX for {}
SumOver(count) == [kind |-> "sum", of |-> count]

NoTokens == [t \in Position |-> 0]
Once(t) == [NoTokens EXCEPT ![t] = 1]
Zero == SumOver(NoTokens)

MaxVal(u, v) ==
    IF u.kind = "max" /\ v.kind = "max" THEN MaxOver(u.of \union v.of) ELSE Wrong
AddVal(u, v) ==
    IF u.kind = "sum" /\ v.kind = "sum"
    THEN SumOver([t \in Position |-> u.of[t] + v.of[t]]) ELSE Wrong

SumAll(S, f(_)) == FoldSet(LAMBDA x, sum : AddVal(f(x), sum), Zero, S)

\* mask = NUM_SIMD_LANES / 2, ..., 2, 1
ShuffleMasks_FromQuarter == [k \in 1 .. Log2NumLanes - 1 |-> NumLanes \div 2^(k + 1)]
ShuffleMasks == [k \in 1 .. Log2NumLanes |-> NumLanes \div 2^k]

\* simd_shuffle_xor(x, mask) as lane l sees it, mask a power of two
Xor(l, mask) == IF (l \div mask) % 2 = 0 THEN l + mask ELSE l - mask

\* The butterfly over the lanes of a warp.
SimdReduce(op(_, _), lanes) ==
    FoldLeft(LAMBDA v, mask : [l \in Lane |-> op(v[l], v[Xor(l, mask)])],
             lanes, ShuffleMasks)

-----------------------------------------------------------------------------
VARIABLES
    context_len,    \* of this sequence
    pc,             \* where each warp is
    smem,           \* shared memory
    qk_max,         \* registers of each lane of each warp
    exp_sum,
    out             \* the row of the output this thread group writes

kvars == <<context_len, pc, smem, qk_max, exp_sum, out>>

Context == {t \in Position : t < context_len}
Total == SumOver([t \in Position |-> IF t \in Context THEN 1 ELSE 0])

NumContextBlocks == (context_len + BLOCK_SIZE - 1) \div BLOCK_SIZE
Blocks(w) == {b \in 0 .. NumContextBlocks - 1 : b % NumWarps = w}

\* The tokens of a warp's blocks, and those its lane l scores.
BlockTokens(w) ==
    {t \in {b * BLOCK_SIZE + i : b \in Blocks(w), i \in 0 .. BLOCK_SIZE - 1} :
        t < context_len}
LaneTokens(w, l) == {t \in BlockTokens(w) : (t % BLOCK_SIZE) % NumLanes = l}

\* Where a warp that does not return early goes on after each step.
After_NoBarrier3 ==     \* red_smem[127] read before it is written
    [init |-> "barrier1", barrier1 |-> "score", score |-> "publish_max",
     publish_max |-> "barrier2", barrier2 |-> "reduce_max", reduce_max |-> "exp",
     barrier3 |-> "exp", exp |-> "publish_sum", publish_sum |-> "barrier4",
     barrier4 |-> "reduce_sum", reduce_sum |-> "barrier5", barrier5 |-> "values",
     values |-> "barrier6", barrier6 |-> "output", output |-> "done"]
After ==
    [init |-> "barrier1", barrier1 |-> "score", score |-> "publish_max",
     publish_max |-> "barrier2", barrier2 |-> "reduce_max", reduce_max |-> "barrier3",
     barrier3 |-> "exp", exp |-> "publish_sum", publish_sum |-> "barrier4",
     barrier4 |-> "reduce_sum", reduce_sum |-> "barrier5", barrier5 |-> "values",
     values |-> "barrier6", barrier6 |-> "output", output |-> "done"]

Barriers == {"barrier1", "barrier2", "barrier3", "barrier4", "barrier5", "barrier6"}

KInit ==
    /\ context_len \in ContextLens
    /\ pc = [w \in Warp |-> "init"]
    /\ smem = [a \in SmemAddress |-> Wrong]
    /\ qk_max = [w \in Warp |-> [l \in Lane |-> MaxOver({})]]
    /\ exp_sum = [w \in Warp |-> [l \in Lane |-> Zero]]
    /\ out = [d \in HeadDim |-> Wrong]

EmptyOrOverlong == context_len = 0 \/ context_len > MaxSeqLen

At(w, p) == pc[w] = p
Advance(w) == pc' = [pc EXCEPT ![w] = After[@]]

Row(w) == {OutSmem(w, d) : d \in HeadDim}

\* The cells a warp writes, and those it reads, in its next step.
Writes(w) ==
    CASE At(w, "init") -> {Logit(t) : t \in WarpLoop(w, MaxSeqLen)}
                 \union {OutSmem(0, i) : i \in WarpLoop(w, NumWarps * HEAD_SIZE)}
      [] At(w, "score") -> {Logit(t) : t \in BlockTokens(w)}
      [] At(w, "publish_max") -> {Red(w)}
      [] At(w, "reduce_max") -> IF w = 0 THEN {RedMax} ELSE {}
      [] At(w, "exp") -> {Logit(t) : t \in WarpLoop(w, context_len)}
      [] At(w, "publish_sum") -> {Red(w)}
      [] At(w, "reduce_sum") -> IF w = 0 THEN {RedSum} ELSE {}
      [] At(w, "values") -> Row(w)
      [] OTHER -> {}

Reads(w) ==
    CASE At(w, "reduce_max") \/ At(w, "reduce_sum") ->
                IF w = 0 THEN {Red(v) : v \in Warp} ELSE {}
      [] At(w, "exp") -> {RedMax} \union {Logit(t) : t \in WarpLoop(w, context_len)}
      [] At(w, "values") -> {RedSum} \union Row(w) \union {Logit(t) : t \in BlockTokens(w)}
      [] At(w, "output") -> {OutSmem(v, d) : v \in Warp, d \in WarpLoop(w, HEAD_SIZE)}
      [] OTHER -> {}

\* The step writes value(a) to every cell a it writes.
Store(w, value(_)) ==
    smem' = [a \in SmemAddress |-> IF a \in Writes(w) THEN value(a) ELSE smem[a]]

\* Every thread of the group takes this exit, or none.
ReturnZeros_IdleWarps(w) ==     \* so do warps with no block of their own
    /\ At(w, "init") /\ (EmptyOrOverlong \/ Blocks(w) = {})
    /\ out' = [d \in HeadDim |-> IF d \in WarpLoop(w, HEAD_SIZE) THEN Zero ELSE out[d]]
    /\ pc' = [pc EXCEPT ![w] = "done"]
    /\ UNCHANGED <<context_len, smem, qk_max, exp_sum>>
ReturnZeros(w) ==
    /\ At(w, "init") /\ EmptyOrOverlong
    /\ out' = [d \in HeadDim |-> IF d \in WarpLoop(w, HEAD_SIZE) THEN Zero ELSE out[d]]
    /\ pc' = [pc EXCEPT ![w] = "done"]
    /\ UNCHANGED <<context_len, smem, qk_max, exp_sum>>

Initialise(w) ==
    /\ At(w, "init") /\ ~EmptyOrOverlong
    /\ Store(w, LAMBDA a : IF a < MaxSeqLen THEN Lowest ELSE Zero)
    /\ Advance(w)
    /\ UNCHANGED <<context_len, qk_max, exp_sum, out>>

\* Q*K for the tokens of the warp's blocks, and the maximum over its lanes.
Score(w) ==
    /\ At(w, "score")
    /\ Store(w, LAMBDA t : ScoreOf(t))
    /\ qk_max' = [qk_max EXCEPT ![w] =
                    SimdReduce(MaxVal, [l \in Lane |-> MaxOver(LaneTokens(w, l))])]
    /\ Advance(w)
    /\ UNCHANGED <<context_len, exp_sum, out>>

PublishMax(w) ==
    /\ At(w, "publish_max")
    /\ Store(w, LAMBDA a : qk_max[w][0])
    /\ Advance(w)
    /\ UNCHANGED <<context_len, qk_max, exp_sum, out>>

\* The first warp reduces what all warps published, one per lane.
Published(neutral) == [l \in Lane |-> IF l < NumWarps THEN smem[Red(l)] ELSE neutral]

ReduceMax(w) ==
    /\ At(w, "reduce_max")
    /\ Store(w, LAMBDA a : SimdReduce(MaxVal, Published(MaxOver({})))[0])
    /\ Advance(w)
    /\ UNCHANGED <<context_len, qk_max, exp_sum, out>>

\* exp(logits[i] - qk_max): 0 for a logit nobody scored, and meaningless as a
\* weight unless the maximum is that of the whole context.
Weight(t, max) ==
    CASE smem[Logit(t)] = Lowest -> Zero
      [] smem[Logit(t)] = ScoreOf(t) /\ max = MaxOver(Context) -> WeightOf(t)
      [] OTHER -> Wrong

WeightAsSum(t, weight) == IF weight = WeightOf(t) THEN SumOver(Once(t)) ELSE weight

Exponentiate(w) ==
    /\ At(w, "exp")
    /\ LET max == smem[RedMax]
           lane_sum(l) == SumAll(ThreadLoop(w, l, context_len),
                                 LAMBDA t : WeightAsSum(t, Weight(t, max)))
       IN  /\ qk_max' = [qk_max EXCEPT ![w] = [l \in Lane |-> max]]
           /\ Store(w, LAMBDA t : Weight(t, max))
           /\ exp_sum' = [exp_sum EXCEPT ![w] =
                            SimdReduce(AddVal, [l \in Lane |-> lane_sum(l)])]
    /\ Advance(w)
    /\ UNCHANGED <<context_len, out>>

PublishSum(w) ==
    /\ At(w, "publish_sum")
    /\ Store(w, LAMBDA a : exp_sum[w][0])
    /\ Advance(w)
    /\ UNCHANGED <<context_len, qk_max, exp_sum, out>>

ReduceSum(w) ==
    /\ At(w, "reduce_sum")
    /\ Store(w, LAMBDA a : SimdReduce(AddVal, Published(Zero))[0])
    /\ Advance(w)
    /\ UNCHANGED <<context_len, qk_max, exp_sum, out>>

\* Logits * V: one normalised term per token of the warp's blocks, added to
\* the warp's own row.
WeighValues(w) ==
    /\ At(w, "values")
    /\ LET term(t) == IF smem[Logit(t)] = WeightOf(t) /\ smem[RedSum] = Total
                      THEN SumOver(Once(t)) ELSE Wrong
       IN  Store(w, LAMBDA a : AddVal(smem[a], SumAll(BlockTokens(w), term)))
    /\ Advance(w)
    /\ UNCHANGED <<context_len, qk_max, exp_sum, out>>

WriteOutput(w) ==
    /\ At(w, "output")
    /\ out' = [d \in HeadDim |->
                IF d \in WarpLoop(w, HEAD_SIZE)
                THEN SumAll(Warp, LAMBDA v : smem[OutSmem(v, d)])
                ELSE out[d]]
    /\ Advance(w)
    /\ UNCHANGED <<context_len, smem, qk_max, exp_sum>>

\* threadgroup_barrier: the warps pass it together.
Pass(b) ==
    /\ \A w \in Warp : At(w, b)
    /\ pc' = [w \in Warp |-> After[b]]
    /\ UNCHANGED <<context_len, smem, qk_max, exp_sum, out>>

WarpStep(w) ==
    \/ ReturnZeros(w) \/ Initialise(w) \/ Score(w) \/ PublishMax(w)
    \/ ReduceMax(w) \/ Exponentiate(w) \/ PublishSum(w) \/ ReduceSum(w)
    \/ WeighValues(w) \/ WriteOutput(w)

KNext == (\E w \in Warp : WarpStep(w)) \/ (\E b \in Barriers : Pass(b))

\* All warps of a thread group are resident: each goes on running, and a
\* barrier everyone has reached opens.
Fairness ==
    /\ \A w \in Warp : WF_kvars(WarpStep(w))
    /\ \A b \in Barriers : WF_kvars(Pass(b))

KSpec == KInit /\ [][KNext]_kvars /\ Fairness

-----------------------------------------------------------------------------
Finished == \A w \in Warp : At(w, "done")

\* No warp is about to write a cell of shared memory that another is about to
\* read or write: the six barriers, and the ownership of cells between them,
\* leave no data race.
RaceFree ==
    \A v, w \in Warp : v # w => Writes(v) \intersect (Reads(w) \union Writes(w)) = {}

\* Every access is inside the memory the launcher asked for.
InBounds == \A w \in Warp : Reads(w) \union Writes(w) \subseteq SmemAddress

\* At the end every output element has each token of the context exactly once,
\* weighted by the maximum and the sum over the whole context; a context that
\* is empty or too long gives zeros, in every element.
OutputCorrect ==
    Finished => \A d \in HeadDim : out[d] = IF EmptyOrOverlong THEN Zero ELSE Total

\* The kernel ends: no warp waits at a barrier others never reach.
Terminates == <>Finished
=============================================================================
