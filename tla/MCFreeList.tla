----------------------------- MODULE MCFreeList -----------------------------
(* FreeList on pages of two entries, two pages, and as many chunks as they *)
(* hold.                                                                   *)
EXTENDS FreeList, TLC

CONSTANTS o1, o2, o3, o4
MCOffset == {o1, o2, o3, o4}

Symmetry == Permutations(MCOffset)
=============================================================================
