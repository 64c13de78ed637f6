------------------------------ MODULE MCFuseCache ------------------------------
(* FuseCache with one line of three ways. *)
EXTENDS FuseCache, TLC

CONSTANTS a, b, d1, d2, t1, t2

MCLineOf   == [h \in Hash |-> 0]
MCSymmetry == Permutations({a, b}) \cup Permutations({d1, d2}) \cup Permutations({t1, t2})
=============================================================================
