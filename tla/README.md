# Verification of sglang-mlx

TLA+ specifications of `sglang-mlx`: an LLM inference runtime that keeps the
KV data of all requests in one pool of slots and shares common prefixes
between requests through a radix tree. Paths below are relative to the
repository (`src/` is its root).

Contents: [the system](#1-the-system), [modules](#2-modules-and-the-code),
[runs](#3-runs), [proofs](#4-proofs), [findings](#5-findings),
[what is abstracted and what is not modelled](#6-abstractions-and-what-is-not-modelled),
[plan](#7-plan), [how to run](#8-how-to-run).

## 1. The system

### 1.1 Components

**Radix prefix cache** (`sglang_mlx/srt/mem_cache/radix_cache.py`).
State: a tree of nodes, each with a slice of token ids, the KV slots of these
tokens, a lock count, a priority and access times; the set of evictable leaves
and two size counters, all three updated incrementally. Operations:
`match_prefix` (splits a node in the middle of which a match ends), `insert`
(splits, adds at most one leaf), `evict` (pops leaves from a heap, a parent
joins when its last child goes), `inc_lock_ref` / `dec_lock_ref` (count on the
node and all its ancestors), `reset`. Used by the model runner; calls
`allocator.free` from `evict`. Hard: splits of nodes that are locked, the
incremental bookkeeping over long sequences of calls, and the fact that the
eviction heap sees only leaves while "oldest" and "least important" are meant
over the whole tree. Correct when the tree behaves as a map from prefixes to
slots, what is locked stays, and counts, leaf set and sizes are exact.

**Eviction policies** (`evict_policy.py`). Stateless: six orders on nodes.

**Token slot allocator** (`TokenPoolAllocator` in `memory_pool.py`).
State: a list of free slots used as a stack. Operations: `alloc(n)` (answers
with n slots, with none for n <= 0, or raises `MemoryError`), `free` (no
check), `clear`. Hard: slicing at n = 0, failed allocations, slots freed twice
or lost. Correct when each slot has one owner and none is ever lost.

**KV pool and per-request adapter** (`MHATokenPool`, `PooledKVCache` in
`memory_pool.py`). State: one K and one V buffer per layer; per request and
layer the slots of the prefix, the new slots and how many of these were
stored. Operations: `store`, `fetch`, `set_indices`, `update_and_fetch`.
Correct when a pass reads, in order, exactly what was stored for its own
tokens.

**Model runner** (`model_runner.py`). State: the allocator, the cache, the
pool, and the state of each active request. Operations: `forward_prefill`
(match, allocate, run the model, insert, lock), `forward_decode` (allocate,
run, insert), `finish_request` (unlock, forget), `generate` (the loop over
them). Hard: requests interleave between calls while sharing slots; the full
hit, where the last token is computed again into a shared slot; evictions
while requests run; a forward pass or an allocation that raises half way.
Correct when every request always reads the KV data of its own tokens, and
no slot is lost.

**Paged KV cache writers** (`paged_attention/mlx_cache.cpp`,
`metal/cache/reshape_and_cache.metal`): `reshape_and_cache` and its flash
variant scatter keys and values into paged blocks. Stateless except for the
buffers. Correct when distinct (slot, head, element) go to distinct addresses
inside the cache and the attention kernel reads the address that was written.

**Block copy and swap** (`mlx_cache.cpp`, `metal/cache/copy_blocks.metal`).
Thread groups copy pairs of blocks concurrently, `copy_blocks` in place,
`swap_blocks` from another array. Correct when independent pairs give the
result of reading every source before writing, and no call changes a block
that is not a destination.

**Paged attention kernel and launcher** (`mlx_paged_attention.cpp`,
`metal/attention/*`). Warps share memory between barriers. Correct when no
warp reads shared memory another may still write, and every token of the
context is read once.

**FP8 conversion** (`metal/float8.metal`, `metal/convert_fp8.metal`): pure.
Correct when decode inverts encode and encode rounds to a nearest value and
saturates.

**Wrappers, bindings, build files, tests, benchmarks**: no behaviour of their
own. The API server, engine and scheduler of the README's diagram have no code.

### 1.2 Interactions

    ModelRunner --alloc--------------------> TokenPoolAllocator
         |  \---match/insert/lock/unlock---> RadixCache --free--^
         |  \---set_indices----------------> PooledKVCache
         v                                        |
       model (mlx-lm) ----update_and_fetch--------+--store/fetch--> MHATokenPool

Everything in Python runs to the end of a call, so the atomic step is a call
and the interleavings are those of the calls of different requests. Slots flow
allocator -> request -> cache -> (evict) allocator, and a slot may be held by
the cache and by several requests at once. Nothing is persisted.
The kernels under `paged_attention/` are a second, separate way to keep KV
data (blocks instead of slots); the Python runner does not call them.

## 2. Modules and the code

| Module | Models | State |
|---|---|---|
| `PrefixMap` | what each cache call does to the map from prefixes to slots: pure operators, no state | |
| `PrefixCache` | the contract of the cache: the map, one pin per client, the result of each call | `cached`, `pin`, `reply` |
| `RadixCache` | `radix_cache.py` and `evict_policy.py`: the tree | `setup` (constant), `tree` (nodes, leaf set, sizes), `hold`, `clock`, `reply`, `call` (the call under way and its local variables) |
| `SlotPool` | the contract of the allocator: who owns each slot | `owner` |
| `TokenPoolAllocator` | the allocator: the list used as a stack | `free_slots`, `held`, `reply` |
| `ModelRunner` | the runner composed with the cache, the allocator and the KV pool, a method a step | `free`, `cached`, `kv`, `requests` |
| `ForwardPass` | the runner with its passes unrolled: `PooledKVCache` and `MHATokenPool`, layer by layer | `free`, `cached`, `buffer`, `requests`, `pass`, `lost` (history) |
| `Completion` | what `generate` promises, without slots or caches | `text` |
| `Generate` | `generate`: several calls over one runner, and the owner who evicts | those of `ModelRunner`, `calls` |
| `PagedAttention` | `paged_attention_v1` and its thread groups, over a cache the writers of `PagedCache` filled | those of `PagedCache`, `launch`, `gathered` |
| `PagedAttentionKernel` | one thread group of the attention kernel: warps, barriers, shared memory | `context_len`, `pc`, `smem`, `qk_max`, `exp_sum`, `out` |
| `PagedCache` | `reshape_and_cache` and its flash variant, and where their readers look | `call` (constant), `stored`, `key_cache`, `value_cache` |
| `CopyBlocks` | `copy_blocks` and `swap_blocks` | `copy_call` (constant), `memory`, `copied`, `loaded` |
| `Fp8` | `float8.metal` and an element of `convert_fp8_kernel` | `src`, `dst` |
| `MC...` | instances for TLC | |
| `PrefixMap_lemmas`, `..._proofs` | lemmas, theorems and their proofs | |

Composition. `Generate` extends `ModelRunner`, `PagedAttention` extends
`PagedCache`; `ForwardPass` instantiates `ModelRunner`, whose helpers for
prefill it uses and which it implements. The proofs are composed in the same
way: `Generate_proofs` extends `ModelRunner_proofs`, and `ForwardPass_proofs`
instantiates it under the refinement mapping.

Refinement: `RadixCache` implements `PrefixCache` (`RefinesPrefixCache`; the
refinement mapping reads the map off the paths of the tree), and
`TokenPoolAllocator` implements `SlotPool` (`RefinesSlotPool`). `ModelRunner`
uses the cache through the operators of `PrefixMap`, that is through the
contract the tree was shown to implement, and the allocator as a set from which
`alloc` may take any distinct slots in any order, which is what `SlotPool`
allows; its results do not depend on the LIFO order or on the shape of the
tree. `ForwardPass` implements `ModelRunner` (`RefinesModelRunner`) and
`Generate` implements `Completion` (`RefinesCompletion`), so that there is a
chain from the layers and the tree up to the text of a call.

`PrefixCache` / `RadixCache`. In `PrefixCache` one action per public method:
`MatchPrefix`, `Insert`, `Evict`, `Lock`, `Unlock`, `Reset`. `Lock` is what
`forward_prefill` does: `inc_lock_ref` on the node the last `match_prefix`
returned; `Unlock` is what `finish_request` does. `reply` records the value the
call returned (slots and node, matched length, deltas, number and set of
evicted slots), so that the refinement covers results as well as states.

In `RadixCache` a method whose code loops is several actions: one that starts
it, one per way an iteration can go, and one that returns.

| Method | Actions |
|---|---|
| `match_prefix`, `_match_prefix_helper` | `MatchPrefix`, `MatchDescend`, `MatchSplit`, `MatchReturn` |
| `insert`, `_insert_helper` | `Insert`, `InsertDescend`, `InsertSplit`, `InsertLeaf`, `InsertReturn` |
| `inc_lock_ref`, `dec_lock_ref` | `Lock`, `LockStep`, `LockReturn`; `Unlock`, `UnlockStep`, `UnlockReturn` |
| `evict` | `Evict`, `EvictStep`, `EvictReturn` |
| `reset` | `Reset` |

`call` holds the local variables of the loop. The cache has no lock and one
thread uses it, so a call starts only when none is under way. The helpers
`SplitNode`, `AddLeaf`, `DeleteLeaf`, `LockNode`, `UnlockNode` and
`UpdateLeafStatus` follow the private methods and loop bodies on a record that
holds the nodes, the leaf set and the two sizes. `evict` breaks ties between equal keys in any order (the code
compares `last_access_time`, and equal clock readings are possible).

`TokenPoolAllocator`. `AllocNothing`, `AllocRaises` and `AllocSome` are the
three outcomes of `alloc`; `Suffix` and `WithoutSuffix` are Python's `s[-n:]`
and `del s[-n:]`, which at n = 0 mean the whole list. `Free` states the
contract of the method, which checks nothing: distinct slots the caller holds.
So `OneOwner` and `RefinesSlotPool` say nothing of a slot freed twice; that the
only caller, `RadixCache.evict` (line 181), keeps the contract is
`SlotsFreedOnce` of `Generate`.

`ModelRunner`. `ForwardPrefill`, `ForwardDecode` and `FinishRequest` are the
methods, each a single step. `PrefillRaises` and `DecodeRaises` are the
`MemoryError` of `alloc`, before anything has changed. `PrefillFails` and
`DecodeFails` are an exception out of the model after the slots were taken and
some of the layers written. `Evict` is `RadixCache.evict` with the allocator
attached, called by whoever owns the runner (the runner never calls it).
`kv[s]` is the prefix whose last token's KV data slot `s` holds: a token's
data depends on its whole context, so `Forward` stores the right prefix only if
every slot the pass gathers still holds the right one, and `Garbage` otherwise.
One wrong slot therefore spoils everything computed from it, as it does in the
model. `Forward` looks at the context before it stores; that each layer stores
first and then gathers, its own new tokens included, is in `ForwardPass`, which
implements it.

`ForwardPass`. The same methods, a pass cut into its parts. `BeginPrefill` and
`BeginDecode` allocate and call `set_indices` for every layer; `UpdateAndFetch`
is one layer's call; `RecordPrefill` and `RecordDecode` are what follows
`mx.eval`; `PassRaises` is an exception out of the model at any point between.
A failed decode leaves the slots allocated, the layers it reached written and
their `store_offset` advanced; the request stays active and may decode again.
What the model computes between two layers is external: right exactly if
every layer so far fetched the request's tokens in order and at the right
offset (`pass.sound`). In the refinement mapping a pass has not happened until
it is recorded: `free` and `kv` are those before it, `kv[s]` is the content all
layers have in slot `s`, and the slots of passes that raised (`lost`) hold
nothing usable. A pass runs alone, as everything else in Python.

`Generate`. `Begin` is `generate` up to the loop, `Iterate` one round of it,
`Return` the end; `BeginRaises` and `IterateRaises` are the `MemoryError` of the
allocator and an exception out of the model, which `generate` does not catch.
Calls interleave between the runner's methods: the sampler is a callback and may
start another call. Logits are named by the context they are for, and
`Samples` gives the tokens a sampler may choose after a context, so a call that
read one wrong slot would choose differently. `OwnerEvicts` is `evict` by
whoever owns the runner, when no call runs; requests of calls that raised
are still in `_active_requests` then. In `Completion` each token is chosen after
the whole prompt and text: the refinement says that nothing of the sharing is
visible in the texts.

`PagedAttentionKernel`. A warp's lanes run in lockstep, so a step is what a warp
does between two barriers, cut again where it publishes its maximum or its sum
for the first warp to reduce; `Pass` is a `threadgroup_barrier`, which all
warps pass together. `Writes` and `Reads` list the cells of shared memory a
warp's next step touches: they define the steps (`Store` writes exactly
`Writes`) as well as the race condition. Numbers are replaced by their
provenance: a maximum is the set of tokens it was taken over, a sum counts how
often each token was added, and anything computed from a partial maximum or sum
or from uninitialised memory is `Wrong`, which is absorbing. The butterfly of
`simd_shuffle_xor` is `SimdReduce`, mask by mask.

`PagedCache`. `StoreKey` and `StoreValue` are the two stores of one iteration of
one thread's loop; threads of all tokens interleave. The address arithmetic of
the writers (`PagedKeyIdx`, `PagedValueIdx`, `FlashIdx`) is that of the kernels;
`KeyRead` and `ValueRead` are that of the attention kernel, with the strides its
launcher passes. The writer packs keys by `key_cache.shape(4)`, the attention
kernel reads them by 16 / sizeof of the element
(`paged_attention_kernels.metal:80`), and `paged_attention_v1` checks only that
`shape(2) * shape(4)` is the head size: that the two packings agree is the
caller's duty (`launch.args.x = X` in `HeadsGatherTheirContext`). Nothing in the
repository reads the flash layout, so its reference is the row-major index.

`PagedAttention`. `Accepted` is the conjunction of the launcher's checks,
`Launch` accepts or refuses, `RunThreadGroup` is one head of one sequence: it
records what it gathers through its row of `block_tables`, token by token and
dimension by dimension, from the KV head its group of query heads shares.
What it then computes, and how its warps share the work, is in
`PagedAttentionKernel`. A launch starts when the writers are done, because it
takes the arrays they return.

`CopyBlocks`. `LoadElement` and `StoreElement` are the two halves of one assignment of a
thread's loop; threads of all pairs interleave. Addresses are flat, as in the
kernels.

`Fp8`. A float is the three fields of its bits, a code the stored byte; shifts
and masks are divisions and remainders. An unsigned shift by a count that is
not positive is undefined and gives any low bits.

In all modules an operator `X_Y` is `X` with a plausible mistake. No
specification uses these; they document which mistake each property catches.

## 3. Runs

| Run | Instance | Checks |
|---|---|---|
| `prefix_cache` | 5 keys of length 0 to 2 that fork, 2 writers bringing different slots, 2 clients; evict 0, 1, 2. 13 319 states | `PrefixClosed`, `PinsCached`, `PinnedSlotsStable`: no entry without its prefixes, what is locked stays, and keeps its slots |
| `radix_cache` | eight setups, see below. 594 439 states, up to 35 steps | `TreeWellFormed`, `LeavesExact`, `SizesExact` and `PriorityMonotone` at every step, `LockRefCounts` (each count is the number of clients below) between calls; `RefinesPrefixCache`; `EvictionOrder`: under priority, lru and lfu an eviction drops a node only if nothing unlocked that stays is less important, or was used less recently, and under fifo, filo and mru it follows their order over the leaves |
| `slot_allocator` | 4 slots, 2 owners, asks from -1 to 5. 1 696 states | `OneOwner`, `NoSlotLost`, `AnswerFits`, `RefinesSlotPool` |
| `forward_pass` | 4 slots, 2 requests, 2 layers, prompts `a` and `ab`, total length up to 3, a pass may raise at any layer, eviction between requests. 1 464 677 states | `LayersCoherent`: the cache and the requests lead to the data of their own tokens in every layer, also during a pass; `PassesSeeTheirContext`; `RefinesModelRunner` |
| `generate` | 4 slots, 2 calls, prompts `a` and `ab`, budgets 0 and 2, with and without a stop token, passes may fail, eviction of 1 or 4 between calls. 188 464 states | `RefinesCompletion`; `CacheCoherent`; `PromptStaysCached`; `OnlyAbandonedStay`: after the calls only prompts of calls that raised are locked; `SlotsFreedOnce`: no slot is in two entries, or free while the cache or a running call has it; `SlotsLostKnownWays`: a slot leaves both the free list and the cache only by a failing pass or a continuation that was cached already; `AnswerIsCached`: a returned text can be matched whole; `EveryCallEnds` |
| `runner_evict` | 4 slots, 2 requests, prompts `a`, `aa`, `ab`, total length up to 3, eviction at any time | finds `LockPreventsEviction` violated, see 5 |
| `runner_leak` | as `runner_evict`, no eviction while a request is active | finds `NoSlotLeak` violated, see 5 |
| `attention_kernel` | 3 warps of 4 lanes, blocks of 2, head of 5, up to 14 tokens; 9 context lengths. 674 states | `RaceFree`, `InBounds`, `OutputCorrect`, `Terminates` |
| `paged_attention` | 2 tokens, 2 KV heads, 2 blocks of 2; paged layout with heads of 4 packed by 2 and 3 threads per token, flash layout with 2 and 3 threads, both with two tokens for one slot; then one of 14 launches. 141 648 states | `SlotsHoldTheirTokens` (a reader finds exactly what has been stored for it) and `StoresStayInCache` at every moment, `StoredTokensAreRead` at the end; `AcceptedLaunchesStayInBounds`, `HeadsGatherTheirContext` |
| `copy_blocks` | 2 pairs over 3 blocks of 3 elements, 2 threads a pair; 6 shapes of pairs in place, all 81 between two arrays. 88 012 states | `CopiesAsIfAtOnce`, `ContentsFollowPairs` |
| `fp8` | E4M3: every exponent in and around the format's range, every value of the kept bits and the two below. 7 808 states | `NormalsRoundToNearest`, `RequantizeKeepsCode` |
| `fp8_rounding` | as `fp8` | finds `RoundsAsPromised` violated, see 5 |

`radix_cache` also checks its module's type invariant and `generate` that of
`ModelRunner`, which covers `ForwardPass` through the refinement. Those of
`PrefixCache` and of the allocator are only proved; that the allocator hands out
slots 1 to `PoolSize` and nothing else is part of `NoSlotLost`. In the kernel modules
`InBounds` and `StoresStayInCache` say more than a type invariant would.

Why these bounds. The tree has eight setups, one chosen by the initial state:
two clients that hold locks on keys that fork and extend one another; two
writers that bring different slots for one key, so that a stale or overwritten
slot is visible; three priorities under the priority policy; and a clock that
moves, under lru with a client and under each of the four other policies without. With two tokens and keys up to length 3 a node can be split at
two places, below and above a locked node, can get a sibling, lose it again and
be evicted after its children; a walk passes at most two inner nodes, which is
one more than any property relates. The allocator: with 4 slots an ask can be
below, at and above what is left in every split between two owners.
The runner: two requests are enough for each way of sharing (full hit, partial
hit, no hit, one computing what the other cached, in prefill and in decode),
and four slots make the pool run empty in the middle of a decode. Two layers
are a first one, that may be written when a pass breaks off, and a last one,
that may not; prompts of one and two tokens prefill one or two tokens at once,
with and without a prefix. `MaxLen`
bounds prompt and output together and stands in the guards of decode;
`max_time` bounds the clock of `RadixCache`. In `generate` a budget of 2 has
a round whose token is decoded and one after it that reads what was decoded, and
0 skips the loop; every call is made once, so two calls give four slots enough
to be leaked, shared, evicted and reused; the sampler's choice depends on the
first and the last token of the context, so that a text computed from another
prompt's slots is another text.

The kernels: three warps are a first one, which reduces, and two others between
which blocks wrap; four lanes make a butterfly of two masks, and a head of five
elements is neither a multiple of the lanes nor of the warps. The context
lengths cover a first block that is partial, whole blocks only, a partial block
dealt to each warp, the longest context and one too long. For the writers two
slots of one block and of two blocks, two heads and two packs of a head exercise
every term of every address; three threads share eight elements unevenly. The
launches: two sequences over the same blocks in opposite order, a context that
ends inside a block, rows of the table padded with the number of no block, empty and too long ones, two query heads for each KV head,
keys packed otherwise, and one launch for each check that refuses it. Two
pairs of blocks are enough for every conflict between pairs (chain, cycle,
common source, common destination, a repeated pair); three elements on two
threads are uneven. For FP8 the inputs cover every outcome rounding can
distinguish (last kept bit, rounding bit, any bit below) at every exponent the
code treats differently, and all finite codes occur.

Symmetry, of slots and of requests, is used in `runner_evict`, `runner_leak` and
`forward_pass`. The last checks a refinement with it: `ModelRunner!Spec` is a
safety property in which both sets occur symmetrically, and each step is
compared on its own. `generate` checks liveness and uses none. In `RadixCache`
slots name their writer and entry and are not symmetric.

Deadlock checking is on in the runs of the Python components and of `Fp8`
(in `generate`, once every call is over, the owner goes on evicting, possibly
nothing). It is off in those of the kernels, whose threads end;
there `Terminates` says that all warps of the attention kernel do.

Fairness is assumed in two modules. In `Generate` each call that has begun goes
on (`WF` of its `Step`): it is a loop in a thread that waits for nobody, since
an allocation that finds too few slots raises. Nothing is assumed of the owner
who evicts or of calls that have not begun. `EveryCallEnds` fails if the loop
caught `MemoryError` and went round again. In `PagedAttentionKernel` each warp is weakly
fair, and so is each barrier: a thread group is dispatched as a whole (256
threads, `PagedAttentionV1::eval_gpu`), its warps are resident until they end,
and the hardware's barrier is only usable on that understanding. `Terminates`
then says that no warp returns early or waits while others do not.

`RadixCache` and `ModelRunner` have preconditions that the code does not test:
the list passed to `insert` is as long as its key (`SetupsAssumption`; the
runner keeps it, which is part of `ModelRunner!TypeOK`), `reset` is called
when no node is locked, a request id is used once at a time (`generate` draws a
fresh uuid), and prompts are not empty.

## 4. Proofs

TLAPS checks the following for every value of the constants, under the named
assumptions of each module only. Each component's theorems rest on one
inductive invariant, with one lemma per action; the invariants of
`Generate_proofs`, `PagedAttention_proofs` and `ForwardPass_proofs` were
model-checked on the instances of the runs before they were proved.

| Module | Theorem | Property |
|---|---|---|
| `PrefixCache_proofs` | `TypeCorrect`, `CacheIsPrefixClosed`, `LockedStaysCached`, `PinnedSlotsNeverMove` | `TypeOK`, `PrefixClosed`, `PinsCached`, `PinnedSlotsStable` |
| `TokenPoolAllocator_proofs` | `TypeCorrect`, `SlotsHaveOneOwner`, `SlotsAreNeverLost`, `AnswersFit`, `ImplementsSlotPool` | `TypeOK`, `OneOwner`, `NoSlotLost`, `AnswerFits`, `RefinesSlotPool` |
| `ModelRunner_proofs` | `TypeCorrect`, `CacheIsCoherent`, `ContextStaysIntact`, `SlotsInUseAreNotFree`, `LockedPromptStaysCached` | `TypeOK`, `CacheCoherent`, `RequestCoherent`, `NoSlotInUseIsFree`, `PromptStaysCached` |
| `ForwardPass_proofs` | `LayersStayCoherent`, `PassesSeeTheRightContext`, `ImplementsModelRunner` | `LayersCoherent`, `PassesSeeTheirContext`, `RefinesModelRunner` |
| `Generate_proofs` | `CallsKeepTypes`, `CallsShareARightCache`, `CallsKeepPromptsCached`, `OnlyRaisedCallsHoldLocks`, `AnswersStayCached`, `NoSlotIsFreedTwice`, `SlotsAreLostInKnownWays`, `ImplementsCompletion` | `TypeOK`, `CacheCoherent`, `PromptStaysCached`, `OnlyAbandonedStay`, `AnswerIsCached`, `SlotsFreedOnce`, `SlotsLostKnownWays`, `RefinesCompletion` |
| `PagedAttention_proofs` | `SlotsAreNotMixedUp`, `StoresNeverStray`, `TokensAreStoredWhole`, `LaunchesStayInBounds`, `HeadsReadWhatWasStored` | `SlotsHoldTheirTokens`, `StoresStayInCache`, `StoredTokensAreRead`, `AcceptedLaunchesStayInBounds`, `HeadsGatherTheirContext` |
| | `WarpsNeverRace`, `AccessesStayInBounds` | `RaceFree`, `InBounds` of `PagedAttentionKernel` |
| | `IndependentPairsCopyAtOnce`, `ContentsNeverStray` | `CopiesAsIfAtOnce`, `ContentsFollowPairs` of `CopyBlocks` |
| `RadixCache_proofs` | `TypeCorrect`, `WellFormed`, `LocksCounted`, `LeavesCorrect`, `SizesCorrect`, `PriorityMonotoneAlways`, `EvictionsFollowThePolicy`, `ImplementsPrefixCache` | `TypeOK`, `TreeWellFormed`, `LockRefCounts`, `LeavesExact`, `SizesExact`, `PriorityMonotone`, `EvictionOrder`, `RefinesPrefixCache` |

**Cache contract.** The inductive invariant of `PrefixCache` is
`TypeOK /\ PrefixClosed /\ PinsCached`; `PinnedSlotsNeverMove`, an action
property, follows from it, because evictions avoid `PinnedEntries` and
`Inserted` never changes an entry. `PrefixMap_lemmas` has what these and the
proofs of the runner rest on: prefixes of prefixes, that `MatchedKey` is an entry
and its slots are those of its prefixes, that `Inserted` and `Evicted` keep a map
typed and prefix-closed.

**Radix tree.** The inductive invariant `Inv` of `RadixCache_proofs` has four
parts, because none of the first six properties is inductive alone.
`TreeInv` is about the tree at any step: its shape, the leaf set, the sizes,
priorities that fall from the root down, and `Recent`: no node was used more
than one tick after a node above it. `LockInv` says what each `lock_ref` is in
the middle of a call as well: a client that locks holds the nodes its walk has
passed, one that unlocks those it has still to pass. `CallInv` is about the
local variables of the loops: a walk down stands at the end of a node that is a
prefix of the key (`Walking`), on a path all of which was touched at the time
of the call; the heap of `evict` is the set of evictable leaves, which is why
pushing back one parent at a time is enough. `ReplyInv` says that the node
`match_prefix` returned is still there when it is locked. The theorems hold for
any tokens, slots, keys, inserts, priorities, policies and clocks, and any finite
set of clients.

Each helper has a lemma that says what it does to any well-formed tree, in one
predicate (`LeafAdded`, `Pruned`, `SplitAt`, `Relocked`), and one lemma for each
part of the invariant such a change keeps; that no node lies between a node and
its parent (`NoGap`) is what makes the entries of different nodes disjoint, and
with it the sizes sums of disjoint parts. `EvictionsFollowThePolicy` adds
`EvictInv`: since `evict` began nodes have only gone, and all that have gone
precede all that may still go. A node that is popped precedes every unlocked
node, leaf or not, because some evictable leaf lies below that node
(`LeafBelow`, `UnlockedBelow`) and ranks with it (`PathMonotone`, `Recent`).

`ImplementsPrefixCache` shows that this tree is the map of the contract. A tree
represents a map when each node gives each of its entries a slot; it represents
one only (`RepresentsOnce`), and that one is `MapOf` (`MapRepresents`). From this
follow what touching, splitting, growing and pruning do to the map: nothing,
nothing (`SplitMap`), `Inserted` (`GrownMap`) and `Evicted` (`EvictedMap`).
`WalkEnds` says that where a walk can go no further the longest cached prefix
ends, also right after a split. `RefInv` is what the refinement needs besides
`Inv`: the slots a match has gathered are those of the prefixes it has passed
(`MatchRight`); the node it returned is still the longest match of its key when
it is locked (`ReplyRight`); the evictable size less the delta so far is what was
evictable when the lock or unlock began (`DeltaRight`); and what an eviction has
dropped were unlocked nodes, whose entries it has counted and whose slots it
has freed (`DropsRight`). Of the steps of a call only one is seen outside
(`Simulates`): the one that returns. An eviction changes the tree at every
iteration, so until it returns the map is that of the tree it began with
(`CachedMap`), and what it has dropped by then is one of the sets the contract
allows because every entry below a dropped one is gone (`EntryOnPath`) and an
empty heap means that nothing unlocked is left (`GoneIsEvictionSet`).
What is proved of the runner is proved over this contract.

**Allocator.** `TypeOK`, `OneOwner` and `NoSlotLost` are inductive together:
that the list has no duplicates is what keeps a slot taken from its end from also
remaining in it, and what `Free` appends is disjoint from it because held
slots are not free. `AnswersFit` is about the corner of `alloc(0)`, where
Python's `s[-0:]` is the whole list; `ImplementsSlotPool` maps the list and the
holders to one owner per slot, and needs of the invariant that this map is exact
(`OwnerMapExact`), so that "fewer free slots than asked for" is the same on
both sides.

**Runner.** The first four theorems of `ModelRunner_proofs` are for
`EvictWhileActive = FALSE`: evictions happen only between requests. Without this
proviso the last three of them are false (finding 1). The invariant `IInv` is
`CacheInv` (typing, a prefix-closed and coherent cache, none of its slots free)
with `Intact(r)` for each active request. None of the four properties is
inductive alone: that a context stays intact needs that new slots come from
the free list and that nothing in use is free; that the cache is coherent after an
insert needs that the request's own slots are; and a full hit, which writes a
slot that is shared, is harmless only because the cache is coherent and
prefix-closed, so the value written is the one the slot has. The lemmas of the
steps say what becomes of `CacheInv` and of each `Intact(r)` separately, so that
`Generate_proofs` can use them where some requests are not intact.

`LockedPromptStaysCached` has no proviso: evictions at any time, failing passes, any
pool. Here the contents of the slots may be wrong, so nothing of `IInv` but
typing can be used. `LockInv` says instead that the cache is a prefix-closed
map into slots, that each request has as many slots as tokens, that its
`radix_node` is its whole prompt, and that each prefix of the prompt is cached
at the request's slot.

**A pass, layer by layer.** The invariant `FInv` of `ForwardPass_proofs` is
`P!IInv /\ Link`. `P!IInv` is the invariant of `ModelRunner_proofs`, stated of the
runner as it was before the pass (`FreeBefore`, `KvBefore`, `States`): it is
kept because every step is a step of `ModelRunner` or none, so its whole
preservation proof is reused by citing `P!NextIInv`. `Link` ties the parts of a
pass to that runner: the pass's slots are those a prefill or decode would
choose; the layers before `pass.layer` hold the new tokens and their
`store_offset` has advanced, the others have 0; nothing but the slots the pass
took differs from before; and a slot lost by a pass that raised is never free again.
`LayerIsRight` is the heart of it: one call of `update_and_fetch` puts each new
token where the next layers expect it and gathers exactly the tokens of the
request, because distinct new tokens have distinct slots and a shared slot, on
a full hit, is rewritten with what it has. `PassIsForward` then says that after the
last layer the buffers are what the single step of `ModelRunner` makes of
them. The three theorems keep the proviso `EvictWhileActive = FALSE`.
With `SlotsInUseAreNotFree` and `ContextStaysIntact` it follows that these hold for
the runner with its passes unrolled as well.

**Generate.** The invariant `GInv` is `CacheInv /\ LockInv`, the types of the calls,
and for each call (`CallOK`) that it has a request exactly while it runs or after
it raised, and, while it runs, that the request is intact, has decoded the
call's text, is cached whole, and that the logits at hand are those of its tokens
(`InStep`). The owner evicts when no call runs, so only requests of abandoned
calls lose slots; that is why `CacheInv` and `Intact` had to be parted.
`ImplementsCompletion` follows: a running call's logits are those of its
prompt and text, so every token is one `Completion` allows.
`NoSlotIsFreedTwice` combines two of them: two entries have different slots
because each slot holds the KV data of one prefix only (`CacheInv`), and a
running call's slots are not free because its request is intact.
`SlotsAreLostInKnownWays` and `AnswersStayCached` are action properties.
`SamplesAssumption`, which these use, says that a sampler returns token ids.

**Paged cache.** An address is a numeral in mixed radix: its digits are block,
head, dimension and offset in the order of the layout. The lemmas prove that the
kernels' products and sums compute these numerals, that a numeral determines its
digits and is below the product of its radices, and that the writers' and the
reader's numerals agree, for the paged and the flash layout. From this
`WriterInv` gives the first three theorems, for any shape, any number of threads
and duplicate slots. It says of every head and dimension of a slot that what is
there was stored by a token of the slot whose thread has come to it, or is what
was there before if no token's thread has. Each element belongs to one iteration
of one thread (`TakerOfElement`), so a step of a thread adds one token to what
has been stored at one place and none elsewhere (`OneStoreMore`), and it writes
at that place and no other, inside the cache (`NextStoreInCache`).
`ReaderInv` (a launch that runs
was accepted after the writers ended, and what is gathered would be gathered
again) gives the other two. `LaunchesAssumption` asks that the packing `x` divides each
head size the launcher accepts: `x` is 16 bytes over the size of an element, 4 or 8
(`paged_attention_kernels.metal:80`), and all accepted sizes are multiples of 8.
Without it the integer division of the address would drop elements.

**Attention kernel.** Race freedom is not inductive: it speaks of where two
warps are at once. The invariant `KernelInv` says
that all warps are in the same interval between two barriers, and that a warp
only leaves its initialisation when the context is neither empty nor too long.
It follows the addresses in `PagedAttention_proofs`.
Within each interval the cells a warp touches are its own: by thread index
(`init`, `exp`), by block (`score`, `values`), by warp number in `red_smem`, or
they are only read (`output`); the two cells the first warp writes for all,
`red_smem[126]` and `[127]`, are apart from the others because there are at
most 126 warps (`WarpsAssumption`).

**Copying blocks.** At the end of the same module, because a cell and a thread's
element are numerals as well: what a thread has copied is the numeral of the
cache and the iteration it is at (`AtNumeral`), and each element belongs to one
iteration of one thread (`ElementsThread`, `IterationsBound`). Neither property
speaks of the value that a thread has loaded and not stored, so neither is
inductive. `FollowInv` adds for any pairs that this value was upstream of the
pair's source, and a pair's source is upstream of its destination
(`UpstreamOfPair`). `AtOnceInv` adds for independent pairs that it is the
one due, and says of every cell at any moment that it holds what it held
before or what is due, and the latter once its thread has passed it
(`Delivered`). In place this needs that a load finds its source unchanged, which
is where independence is used, with the exception of a block copied onto
itself (`SourceUntouched`). The theorems are for any number of blocks, elements,
threads and pairs.

Only model-checked:

- `EveryCallEnds` and `Terminates`: liveness under fairness is beyond the prover.
- `OutputCorrect`, whose sums are folds over the tokens, which takes induction
  over data.
- `NormalsRoundToNearest` and `RequantizeKeepsCode` of `Fp8`: shifts are divisions
  by powers of two whose exponents come from the data, and what the provers
  would need to know of `2^n` takes induction.

## 5. Findings

1. **The lock taken at prefill does not cover decoding** (run
   `runner_evict`). `model_runner.py:238` locks the prefill node "to prevent
   eviction during decoding". `forward_decode` inserts each new token as a
   node below the locked one and locks none of them (lines 286-290), so an
   eviction while the request is active frees slots the request goes on
   reading through `all_slot_indices`; the next allocation gives them to
   another token. `PromptStaysCached` is the part of the promise that holds.
2. **Slots leak when two requests decode the same continuation** (run
   `runner_leak`). `forward_decode` allocates a slot before it knows whether
   the longer prefix is cached (line 271). If another request has cached it,
   `insert` keeps the old slot, and the new one is in no node: after the
   request finishes nobody refers to it and no eviction can return it.
   `tests/test_model_runner.py:490` says "Multiple generate calls don't leak
   pool slots", and line 502 that eviction can reclaim them. Running the same
   prompt twice with a greedy sampler loses one slot per generated token.

3. **FP8 encoding outside the normal range** (run `fp8_rounding`).
   `float8.metal:66` promises "round-to-nearest-even, gradual under-flow,
   sat-to-∞". Below the normal range line 106 flushes values above half the
   smallest sub-normal to 0 (the run's trace), line 112 rounds ties up, and line
   116 masks away the carry of a value that rounds up to the smallest normal.
   Above it finite values fail the test of line 87 and take the same path: 256,
   300, 448 and 1000 encode to 0 in E4M3, and the shift count of line 112 is not
   positive, which is undefined, from 2^14 on in E4M3 and for every such value
   in E5M2.

Two observations that are not disagreements with anything the repository says
of its behaviour: `lfu` evicts as `lru` does, because nothing increments
`hit_count` (`LruOrder`, a part of `EvictionOrder`, covers both); and a split gives the front of an old node
a new `creation_time`, so that `fifo` keeps the oldest tokens longest once
somebody has shared them. Under fifo `EvictionOrder` is about leaves and their
`creation_time` only (`LeafOrder`), so it admits this.

1 and 2 were reproduced by running the Python classes with a stand-in for the
array library, 3 by compiling the encoder as C++. No host code dispatches the
FP8 kernels yet.

## 6. Abstractions and what is not modelled

- Tokens, slots, requests and writers are model values. KV data is the prefix
  it was computed for; the numbers never appear. Keys and values are one datum.
  `ModelRunner` and `Generate` merge the layers, which `ForwardPass` justifies.
- The model calls `update_and_fetch` once per layer and pass, as mlx-lm's
  attention layers do. (A second call in one pass would be stored after the
  first but rotated from the same `offset`, which ignores `store_offset`.)
  Evaluation is lazy in mlx and forced by one `mx.eval` per pass; an exception
  raised there is a `PassRaises` after the last layer.
- An exception out of a sampler leaves a call as one out of a pass does, without
  a lost slot, and is left out.
- A call of `RadixCache` reads the clock several times; the model takes at
  most two different readings per call, one for the nodes it creates and one
  for those it touches, and either may equal an earlier one.
- The constant `disable`, with which every call of the cache returns at once,
  and `page_size`, which is stored and never read, are left out. `hit_count`
  is never incremented in the code and is the constant 0.
- `load`, the extraction of the model's configuration and the samplers keep no
  state. A sampler is any choice of a token, `ForwardDecode` with any
  `token_id`.
- The kernels' inputs are dense arrays: the launchers pass only the first stride
  of queries, keys and values. Integers are unbounded; the code's 32-bit
  product `token_idx * key_stride` in the paged writer is listed as a hazard.
  Element types, ALiBi, softcapping and the rounding of float sums are left out.
  A shared-memory access is atomic, and a barrier orders all that went before.
- `paged_attention_v1` checks no block number, and neither do the writers check
  slots from above: that they exist is a precondition (`BlocksExist`,
  `CallsAssumption`). `BlocksExist` is about the entries of a row that the kernel
  reads, those of blocks in which the context has tokens. The rest of a row may
  be anything, as in the tests, which pad with -1
  (`tests/test_paged_attention_kernel.py:165`, `:262`).
- The NaN codes of FP8 all decode to one NaN without a sign.

### Not modelled

Bindings, the Python wrappers of the kernels, the device query, build files,
tests and benchmarks: arguments forwarded, no behaviour of their own. ALiBi,
softcapping, element types, kernel names and floating-point results. The shape
checks of `copy_blocks` and `swap_blocks`. That a cache operation's result
shares its input's buffer: what a holder of the old array sees depends on
the order in which mlx evaluates its graph. `make_mask`, `load` and the
extraction of a model's configuration keep no state.

## 7. Plan

Done are the modules of section 2 and the theorems of section 4. What remains
model-checked is listed at the end of that section, with the reasons.

Worth modelling if the code grows: a scheduler that batches requests (the
`TODO(batch)` of `memory_pool.py`), an abstract attention that
`PagedAttentionKernel` implements.

## 8. How to run

    tlasany ModelRunner.tla
    tlc -workers 2 -config ForwardPass.cfg MCForwardPass
    tlapm ModelRunner_proofs.tla

Each run of section 3 is an `MC` module with a configuration named after the
module (`RadixCache.cfg` with `MCRadixCache`, `ModelRunner_leak.cfg` with
`MCModelRunner`, and so on). The modules need the
TLA+ community modules, the proofs TLAPS.
