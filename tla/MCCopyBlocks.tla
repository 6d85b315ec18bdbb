----------------------------- MODULE MCCopyBlocks -----------------------------
(***************************************************************************)
(* Two pairs over three blocks of three elements, two threads a pair.      *)
(***************************************************************************)
EXTENDS CopyBlocks

\* Up to renaming blocks and swapping the pairs: independent pairs (also with
\* one source, and with a block copied onto itself), a chain, a cycle, two
\* sources for one destination, the same pair twice.
CopyMappings ==
    {<<<<0, 1>>, <<0, 2>>>>, <<<<0, 0>>, <<1, 2>>>>, <<<<0, 1>>, <<1, 2>>>>,
     <<<<0, 1>>, <<1, 0>>>>, <<<<0, 2>>, <<1, 2>>>>, <<<<0, 1>>, <<0, 1>>>>}

\* Between two arrays: all.
SwapMappings == [1 .. 2 -> Block \X Block]

MCCalls ==
    [kernel : {"copy_blocks"}, block_mapping : CopyMappings]
        \union [kernel : {"swap_blocks"}, block_mapping : SwapMappings]
=============================================================================
