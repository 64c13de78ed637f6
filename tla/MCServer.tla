------------------------------- MODULE MCServer -------------------------------
(* Server with two chunk files, each of which starts empty, full, or full   *)
(* with two free chunks: a put finds room, a free chunk or no proper file.  *)
EXTENDS Server

CONSTANTS a, b, cfg

MCInitFree == {<<>>, <<0, 1>>}
=============================================================================
