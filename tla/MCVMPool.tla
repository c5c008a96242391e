------------------------------ MODULE MCVMPool ------------------------------
(* Pools of four and two pages, of which one each is for the lists; the    *)
(* first pool's pages lie in three page tables.  The arrays are alike.     *)
EXTENDS VMPool, TLC

MCBase == <<6, 16>>
MCSize == <<8, 4>>
MCSymmetry == Permutations(Array)
==============================================================================
