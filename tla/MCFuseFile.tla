----------------------------- MODULE MCFuseFile -----------------------------
(* FuseFile on a small instance. *)
EXTENDS FuseFile, TLC

CONSTANTS n1, n2, f1, f2, h1, h2, a, b

MCExtent == {<<0, 2>>, <<1, 2>>, <<3, 1>>}
MCJunkSize == {0, g_block_size}
MCSymmetry == Permutations({n1, n2}) \cup Permutations({f1, f2})
                \cup Permutations({h1, h2}) \cup Permutations({a, b})
=============================================================================
