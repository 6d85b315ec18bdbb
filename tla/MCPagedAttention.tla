--------------------------- MODULE MCPagedAttention ---------------------------
(***************************************************************************)
(* Two tokens, two KV heads, two blocks of two slots, and launches that    *)
(* the checks let through or stop, each for a reason of its own.           *)
(***************************************************************************)
EXTENDS PagedAttention

Call(layout, head_size, x, threads, first, second) ==
    [layout |-> layout, num_blocks |-> 2, num_heads |-> 2, head_size |-> head_size,
     block_size |-> 2, x |-> x, threads |-> threads,
     slot_mapping |-> [t \in Token |-> IF t = 0 THEN first ELSE second]]

\* Two slots of a block, slots of two blocks, and a token without a slot;
\* three threads share out eight elements.
PagedCalls == {Call("paged", 4, 2, 3, s[1], s[2]) : s \in {<<0, 1>>, <<3, 0>>, <<2, -1>>}}

\* The flash layout; threads share out four elements.
FlashCalls == {Call("flash", 2, 1, n, s[1], s[2]) : n \in {2, 3}, s \in {<<3, 2>>, <<-1, 1>>}}

\* Two tokens for one slot.
CollidingCalls == {Call(layout, 2, 2, 2, 1, 1) : layout \in {"paged", "flash"}}

MCCalls == PagedCalls \union FlashCalls \union CollidingCalls

\* The entry of a row past its blocks, no block of any cache.
Unused == 1000

\* Two sequences, one of a single block and one with the two blocks in reverse
\* whose context ends in the middle of the second.
Base ==
    [num_seqs |-> 2, num_heads |-> 2, head_size |-> 4, block_size |-> 2, x |-> 2,
     num_kv_heads |-> 2, max_seq_len |-> 4, table_width |-> 2,
     block_tables |-> <<<<0, Unused>>, <<1, 0>>>>, context_lens |-> <<2, 3>>]

\* Four query heads, two for each KV head.
Grouped == [Base EXCEPT !.num_seqs = 1, !.num_heads = 4,
                        !.block_tables = <<<<1, 0>>>>, !.context_lens = <<4>>]

MCLaunches == {
    Base, Grouped,
    [Base EXCEPT !.head_size = 2],
    [Base EXCEPT !.context_lens = <<0, 5>>],
    [Base EXCEPT !.max_seq_len = 2],            \* the second context is too long
    [Base EXCEPT !.x = 4],                      \* packed otherwise
    [Base EXCEPT !.table_width = 1, !.block_tables = <<<<0>>, <<1>>>>],
    [Base EXCEPT !.num_seqs = 3],
    [Base EXCEPT !.num_heads = 3],
    [Base EXCEPT !.num_kv_heads = 0],
    [Base EXCEPT !.num_kv_heads = 1],
    [Base EXCEPT !.block_size = 4],
    [Base EXCEPT !.max_seq_len = 0],
    [Base EXCEPT !.max_seq_len = 6, !.table_width = 3,      \* too much memory
                 !.block_tables = <<<<0, 1, 0>>, <<1, 0, 1>>>>]}
=============================================================================
