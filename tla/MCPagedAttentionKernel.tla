------------------------ MODULE MCPagedAttentionKernel ------------------------
(***************************************************************************)
(* A thread group of three warps of four lanes.  As in the kernel there    *)
(* are at most as many warps as lanes, a block has at most as many tokens  *)
(* as a warp has lanes, a head at most as many elements as there are       *)
(* threads and not a multiple of the lanes.  The longest context gives a   *)
(* thread two tokens and a warp three blocks.                              *)
(***************************************************************************)
EXTENDS PagedAttentionKernel

\* Empty; less than a block; fewer blocks than warps; exactly full blocks; a
\* partial last block; one that wraps around the warps; full; too long.
MCContextLens == {0, 1, 2, 3, 6, 7, MaxSeqLen - 1, MaxSeqLen, MaxSeqLen + 1}
=============================================================================
