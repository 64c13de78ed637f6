---------------------------- MODULE MCBufferQueue ----------------------------
(* Two rings of two slots; ring 0 is sent two different chunks, ring 1 one. *)
EXTENDS BufferQueue, TLC

CONSTANTS a, b, c
MCKey   == {a, b, c}
MCRoute == (a :> 0) @@ (b :> 0) @@ (c :> 1)
(* The int at the start of a fingerprint may be any. *)
MCRouteAny == (a :> 0) @@ (b :> 1) @@ (c :> 2)
=============================================================================
