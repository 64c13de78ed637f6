------------------------------ MODULE MCTcpMethod ------------------------------
(* TcpMethod with two addresses. *)
EXTENDS TcpMethod, TLC

CONSTANTS a1, a2
MCSymmetry == Permutations({a1, a2})
=============================================================================
