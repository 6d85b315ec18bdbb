------------------------ MODULE MCTokenPoolAllocator ------------------------
(***************************************************************************)
(* A small pool for TLC: asks below, at and above its size.                *)
(***************************************************************************)
EXTENDS TokenPoolAllocator

MCAsks == -1 .. PoolSize + 1
=============================================================================
