---------------------------- MODULE PagedAttention ----------------------------
(***************************************************************************)
(* paged_attention_v1 over a cache that reshape_and_cache has filled: the  *)
(* argument checks of the launcher, then one thread group for each head of *)
(* each sequence, which gathers keys and values through the sequence's row *)
(* of block_tables.  What a thread group does with what it gathers is in   *)
(* PagedAttentionKernel.  The launch waits for the writer: it takes the    *)
(* arrays the writer returns.                                              *)
(***************************************************************************)
EXTENDS PagedCache, Sequences

CONSTANTS
    Launches,           \* the arguments of the launches, see LaunchesAssumption
    HeadSizes, BlockSizes,      \* those isValidConfig knows
    MaxSmem             \* the floats of shared memory a thread group may have

\* The shapes of query, block_tables and context_lens with the contents of the
\* latter two, the integer arguments, and x = 16 / sizeof(CACHE_T): the types
\* of dtypeStr make it 4 or 8, which divide all head sizes of isValidConfig.
\* The kernel reads block_tables as unsigned numbers: the -1 that rows are
\* padded with is one beyond all blocks.
ASSUME LaunchesAssumption ==
    \A q \in Launches :
        /\ q.num_seqs \in Nat /\ q.num_heads \in Nat
        /\ \A n \in {q.head_size, q.block_size, q.x} : n \in Nat \ {0}
        /\ q.head_size \in HeadSizes => q.head_size % q.x = 0
        /\ q.num_kv_heads \in Int /\ q.max_seq_len \in Int /\ q.table_width \in Nat
        /\ q.block_tables \in Seq([1 .. q.table_width -> Nat])
        /\ q.context_lens \in Seq(Nat)

VARIABLES
    launch,         \* the arguments of the launch that runs, or the outcome
    gathered        \* what each thread group has read: <<sequence, head>> -> reads

pvars == <<vars, launch, gathered>>

NotYet == [status |-> "not yet"]
Refused == [status |-> "refused"]

Zeros == "zeros"
OutOfBounds == "out of bounds"

-----------------------------------------------------------------------------
(* The launcher *)

SmemSize(q) == q.max_seq_len + 128 + 8 * q.head_size

ShapesFit(q) ==
    /\ call.layout = "paged"        \* ndim() of the caches
    /\ q.num_seqs = Len(q.block_tables) /\ q.num_seqs = Len(q.context_lens)
    /\ q.num_kv_heads > 0 /\ q.num_heads % q.num_kv_heads = 0
    /\ NumHeads = q.num_kv_heads
    /\ (HeadSize \div X) * X = q.head_size /\ HeadSize = q.head_size
    /\ BlockSize = q.block_size

Accepted_AnyLength(q) ==        \* max_seq_len not compared with the table
    /\ ShapesFit(q)
    /\ q.max_seq_len > 0
    /\ q.head_size \in HeadSizes /\ q.block_size \in BlockSizes
    /\ SmemSize(q) <= MaxSmem
Accepted(q) ==
    /\ ShapesFit(q)
    /\ q.max_seq_len > 0
    /\ q.max_seq_len <= q.table_width * q.block_size
    /\ q.head_size \in HeadSizes /\ q.block_size \in BlockSizes
    /\ SmemSize(q) <= MaxSmem

-----------------------------------------------------------------------------
(* The kernel, for head `head` of sequence seq, both counted from 0 *)

ContextLen(q, seq) == q.context_lens[seq + 1]
EmptyOrTooLong(q, seq) == ContextLen(q, seq) = 0 \/ ContextLen(q, seq) > q.max_seq_len

KvHeadIdx_Interleaved(q, head) == head % q.num_kv_heads
KvHeadIdx(q, head) == head \div (q.num_heads \div q.num_kv_heads)

\* block_table[block_idx]; the rows of block_tables lie one after the other.
PhysicalBlock(q, seq, block_idx) ==
    LET i == seq * q.table_width + block_idx
    IN  IF i < Len(q.block_tables) * q.table_width
        THEN q.block_tables[i \div q.table_width + 1][(i % q.table_width) + 1]
        ELSE NumBlocks

KeyAddress(q, block, h, t, d) ==
    block * BlockStride + h * HeadStride
        + (d \div q.x) * q.block_size * q.x + t * q.x + (d % q.x)
ValueAddress(q, block, h, t, d) ==
    block * BlockStride + h * HeadStride + d * q.block_size + t

Load(cache, address) == IF address \in Address THEN cache[address] ELSE OutOfBounds

\* Dimension d of the key and of the value of token i.
GatherOne(q, seq, head, i, d) ==
    LET block == PhysicalBlock(q, seq, i \div q.block_size)
        t == i % q.block_size
    IN  <<Load(key_cache, KeyAddress(q, block, KvHeadIdx(q, head), t, d)),
          Load(value_cache, ValueAddress(q, block, KvHeadIdx(q, head), t, d))>>

Gather(q, seq, head) ==
    IF EmptyOrTooLong(q, seq) THEN Zeros
    ELSE [i \in 0 .. ContextLen(q, seq) - 1 |->
            [d \in 0 .. q.head_size - 1 |-> GatherOne(q, seq, head, i, d)]]

-----------------------------------------------------------------------------
PInit ==
    /\ Init
    /\ launch = NotYet
    /\ gathered = <<>>

Launch(q) ==
    /\ Done
    /\ launch = NotYet
    /\ launch' = IF Accepted(q) THEN [status |-> "running", args |-> q] ELSE Refused
    /\ UNCHANGED <<vars, gathered>>

Running == launch.status = "running"
ThreadGroups(q) == (0 .. q.num_seqs - 1) \X (0 .. q.num_heads - 1)

RunThreadGroup(g) ==
    /\ Running
    /\ g \in ThreadGroups(launch.args) \ DOMAIN gathered
    /\ gathered' = [o \in DOMAIN gathered \union {g} |->
            IF o = g THEN Gather(launch.args, g[1], g[2]) ELSE gathered[o]]
    /\ UNCHANGED <<vars, launch>>

PNext ==
    \/ Next /\ UNCHANGED <<launch, gathered>>
    \/ \E q \in Launches : Launch(q)
    \/ Running /\ \E g \in ThreadGroups(launch.args) : RunThreadGroup(g)

PSpec == PInit /\ [][PNext]_pvars

-----------------------------------------------------------------------------
\* The entries of block_tables that the kernel reads, those of the blocks that
\* a context has tokens in, name blocks that exist: nothing checks it.
BlocksExist(q) ==
    \A seq \in 0 .. Len(q.block_tables) - 1, b \in 0 .. q.table_width - 1 :
        ~EmptyOrTooLong(q, seq) /\ b * q.block_size < ContextLen(q, seq) =>
            q.block_tables[seq + 1][b + 1] < NumBlocks

\* The checks of the launcher are enough: with block numbers that exist, a
\* launch it accepts never looks beyond its sequence's row of block_tables or
\* outside the caches, whatever the context lengths, whatever the entries past
\* the context, and also if the keys are packed otherwise than the kernel takes
\* them to be.
AcceptedLaunchesStayInBounds ==
    Running /\ BlocksExist(launch.args) =>
        LET q == launch.args
        IN  \A g \in ThreadGroups(q) : ~EmptyOrTooLong(q, g[1]) =>
                \A i \in 0 .. ContextLen(q, g[1]) - 1, d \in 0 .. q.head_size - 1 :
                    LET block == PhysicalBlock(q, g[1], i \div q.block_size)
                        h == KvHeadIdx(q, g[2])
                        t == i % q.block_size
                    IN  /\ i \div q.block_size < q.table_width
                        /\ KeyAddress(q, block, h, t, d) \in Address
                        /\ ValueAddress(q, block, h, t, d) \in Address

\* The slot of token i of a sequence, by its row of block_tables.
SlotOfToken(q, seq, i) ==
    q.block_tables[seq + 1][i \div BlockSize + 1] * BlockSize + (i % BlockSize)

\* With its keys packed as the kernel takes them to be, every query head has
\* gathered, for each token of its own sequence's context in order, what the
\* writer stored in the slot that block_tables names, of the one KV head that
\* its group of consecutive query heads shares; or zeros if the context is
\* empty or longer than max_seq_len.
HeadsGatherTheirContext ==
    \A g \in DOMAIN gathered : launch.args.x = X /\ BlocksExist(launch.args) =>
        LET q == launch.args
            group == q.num_heads \div NumHeads
            h == CHOOSE k \in KvHead : g[2] \in k * group .. (k + 1) * group - 1
        IN  IF ContextLen(q, g[1]) \notin 1 .. q.max_seq_len THEN gathered[g] = Zeros
            ELSE \A i \in 0 .. ContextLen(q, g[1]) - 1, d \in Dim :
                    LET s == SlotOfToken(q, g[1], i)
                        may == OneOf({t \in Token : SlotOf(t) = s}, h, d)
                    IN  gathered[g][i][d][1] \in may /\ gathered[g][i][d][2] \in may
=============================================================================
