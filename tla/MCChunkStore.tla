---------------------------- MODULE MCChunkStore ----------------------------
(* ChunkStore with two or three fingerprints. *)
EXTENDS ChunkStore, TLC

CONSTANTS k1, k2, k3
MCKey  == {k1, k2}
MCKey3 == {k1, k2, k3}
(* The long an unfilled stat buffer holds: 0, or a file's size. *)
MCJunkZero == {0}
MCJunkFull == {MAX_CHUNK_FILE_SIZE}

(* Nothing more is promised once a damaged list has given out a chunk. *)
NotAstray == ~astray

Symmetry  == Permutations(MCKey)
Symmetry3 == Permutations(MCKey3)
=============================================================================
