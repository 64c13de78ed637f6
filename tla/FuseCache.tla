------------------------------- MODULE FuseCache -------------------------------
(***************************************************************************)
(* The block cache of the FUSE client, as a build WITH_CACHE has it        *)
(* (src/src/client/fuse_cache.c): lines of ways, each with the fingerprint *)
(* of a block, the block, and a life that says how recently it was used.   *)
(* The threads of FUSE call it, and it takes no lock.                      *)
(*                                                                         *)
(* What the bytes are is the caller's affair: fuse_read puts and asks for  *)
(* as many as a read wants, wherever in the block that read began, and     *)
(* fuse_write puts a whole block under a fingerprint it did not set.  So   *)
(* any data may come under any fingerprint; byte j of data d is <<d, j>>.  *)
(* The scan of a line is a step; what a writer then does, the fingerprint  *)
(* and the block, are two steps, and a reader's copy is one.               *)
(***************************************************************************)
EXTENDS Integers, FiniteSets

CONSTANTS Hash,         \* fingerprints
          Zero,         \* sixteen zero bytes: a way nobody wrote
          Data,         \* what callers put
          LineOf,       \* the low bits of a fingerprint
          Lines,        \* CACHE_LINES
          Ways,         \* CACHE_WAYS
          g_block_size,
          Life,         \* USHRT_MAX
          Thread,
          MaxCalls,     \* bound: calls of a behaviour
          Nul           \* a byte of the zeroed cache

Line == 0 .. Lines - 1
Way  == 0 .. Ways - 1
Byte == 0 .. g_block_size - 1

ASSUME CacheAssumption ==
    /\ Lines \in Nat \ {0} /\ Ways \in Nat \ {0} /\ g_block_size \in Nat \ {0}
    /\ Life \in Nat \ {0} /\ MaxCalls \in Nat
    /\ Zero \in Hash /\ LineOf \in [Hash -> Line]

VARIABLES hash_arr, block_arr, life_arr,
          call,       \* what each thread does
          calls,      \* calls so far
          put,        \* ghost: the last put of a way
          overlapped  \* ghost: lines two threads were in, one of them writing

vars == <<hash_arr, block_arr, life_arr, call, calls, put, overlapped>>

Cell == (Data \X Byte) \cup {Nul}
Put   == [hash : Hash, data : Data \cup {Nul}, size : 0 .. g_block_size]
NoPut == [hash |-> Zero, data |-> Nul, size |-> 0]
Idle == [pc |-> "idle", hash |-> Zero, data |-> Nul, size |-> 0, way |-> -1,
         buf |-> [j \in Byte |-> Nul]]
Pc   == {"idle", "hit", "read", "miss", "chosen", "named"}

TypeOK ==
    /\ hash_arr \in [Line -> [Way -> Hash]]
    /\ block_arr \in [Line -> [Way -> [Byte -> Cell]]]
    /\ life_arr \in [Line -> [Way -> 0 .. Life]]
    /\ call \in [Thread -> [pc : Pc, hash : Hash, data : Data \cup {Nul},
                            size : 0 .. g_block_size, way : -1 .. Ways - 1,
                            buf : [Byte -> Cell]]]
    /\ calls \in 0 .. MaxCalls
    /\ put \in [Line -> [Way -> Put]]
    /\ overlapped \subseteq Line

(* Static memory is zero. *)
Init ==
    /\ hash_arr = [l \in Line |-> [w \in Way |-> Zero]]
    /\ block_arr = [l \in Line |-> [w \in Way |-> [j \in Byte |-> Nul]]]
    /\ life_arr = [l \in Line |-> [w \in Way |-> 0]]
    /\ call = [t \in Thread |-> Idle]
    /\ calls = 0
    /\ put = [l \in Line |-> [w \in Way |-> NoPut]]
    /\ overlapped = {}

In(t)   == LineOf[call[t].hash]
Busy(t) == call[t].pc \in {"hit", "chosen", "named"}
Others(t, l) == {u \in Thread \ {t} : Busy(u) /\ In(u) = l}

Call == calls < MaxCalls /\ calls' = calls + 1

-----------------------------------------------------------------------------
(* cache_read: the last way with the fingerprint; every way without it     *)
(* lives less long, and one whose life is over lives longest.              *)
Matching(h) == {w \in Way : hash_arr[LineOf[h]][w] = h}
Last(S)     == CHOOSE w \in S : \A v \in S : v <= w
(* Mutant: the unsigned short is never below 0, but it is decremented. *)
OlderSigned(l) == l - 1

Older(l)    == IF l = 0 THEN Life ELSE l - 1

ReadScan(t, h, size) ==
    LET l == LineOf[h]
        S == Matching(h)
    IN
    /\ Call
    /\ call[t].pc = "idle"
    /\ life_arr' = [life_arr EXCEPT ![l] =
                      [w \in Way |-> IF w \in S THEN @[w] ELSE Older(@[w])]]
    /\ call' = [call EXCEPT ![t] =
                  [Idle EXCEPT !.pc = IF S = {} THEN "miss" ELSE "hit",
                               !.hash = h, !.size = size,
                               !.way = IF S = {} THEN -1 ELSE Last(S)]]
    /\ overlapped' = IF \E u \in Others(t, l) : call[u].pc # "hit"
                     THEN overlapped \cup {l} ELSE overlapped
    /\ UNCHANGED <<hash_arr, block_arr, put>>

ReadCopy(t) ==
    /\ call[t].pc = "hit"
    /\ call' = [call EXCEPT ![t].pc = "read",
                            ![t].buf = [j \in Byte |-> IF j < call[t].size
                                THEN block_arr[In(t)][call[t].way][j] ELSE Nul]]
    /\ UNCHANGED <<calls, hash_arr, block_arr, life_arr, put, overlapped>>

(* The caller goes on; after a miss it may also put the block. *)
Return(t) ==
    /\ call[t].pc \in {"read", "miss"}
    /\ call' = [call EXCEPT ![t] = Idle]
    /\ UNCHANGED <<calls, hash_arr, block_arr, life_arr, put, overlapped>>

-----------------------------------------------------------------------------
(* cache_write: way 0 is not compared, so a block there is put again in    *)
(* another way.  Otherwise the first way of the least life is replaced.    *)
(* Mutant: the loop stops one way early. *)
RefilledButLast(h) == {w \in Matching(h) : w > 0 /\ w < Ways - 1}

Refilled(h) == {w \in Matching(h) : w > 0}

Victim(l, n, w) ==
    /\ \A v \in 0 .. n : life_arr[l][w] <= life_arr[l][v]
    /\ \A v \in 0 .. w - 1 : life_arr[l][w] < life_arr[l][v]

(* fuse_read puts what it just read, fuse_write a whole block. *)
Puts(t, h, size) ==
    \/ call[t].pc = "miss" /\ call[t].hash = h /\ call[t].size = size
    \/ call[t].pc = "idle" /\ size = g_block_size

WriteRefills(t, h) ==
    LET l == LineOf[h] IN
    /\ Call
    /\ Puts(t, h, g_block_size) \/ Puts(t, h, call[t].size)
    /\ Refilled(h) # {}
    /\ LET w == CHOOSE x \in Refilled(h) : \A v \in Refilled(h) : x <= v
       IN life_arr' = [life_arr EXCEPT ![l][w] = Life]
    /\ call' = [call EXCEPT ![t] = Idle]
    /\ UNCHANGED <<hash_arr, block_arr, put, overlapped>>

WriteScan(t, h, d, size) ==
    LET l == LineOf[h] IN
    /\ Call
    /\ Puts(t, h, size) /\ Refilled(h) = {}
    /\ \E w \in Way :
          /\ Victim(l, Ways - 1, w)
          /\ call' = [call EXCEPT ![t] = [Idle EXCEPT !.pc = "chosen", !.hash = h,
                                        !.data = d, !.size = size, !.way = w]]
    /\ overlapped' = IF Others(t, l) # {} THEN overlapped \cup {l} ELSE overlapped
    /\ UNCHANGED <<hash_arr, block_arr, life_arr, put>>

WriteName(t) ==
    /\ call[t].pc = "chosen"
    /\ life_arr' = [life_arr EXCEPT ![In(t)][call[t].way] = Life]
    /\ hash_arr' = [hash_arr EXCEPT ![In(t)][call[t].way] = call[t].hash]
    /\ put' = [put EXCEPT ![In(t)][call[t].way] = NoPut]
    /\ call' = [call EXCEPT ![t].pc = "named"]
    /\ UNCHANGED <<calls, block_arr, overlapped>>

(* Mutant: a block that a shorter one replaces keeps its first bytes. *)
WriteBlockShifted(t) ==
    LET c == call[t] IN
    /\ c.pc = "named"
    /\ block_arr' = [block_arr EXCEPT ![In(t)][c.way] =
                       [j \in Byte |-> IF j > g_block_size - 1 - c.size
                                       THEN <<c.data, j>> ELSE @[j]]]
    /\ put' = [put EXCEPT ![In(t)][c.way] =
                 [hash |-> c.hash, data |-> c.data, size |-> c.size]]
    /\ call' = [call EXCEPT ![t] = Idle]
    /\ UNCHANGED <<calls, hash_arr, life_arr, overlapped>>

WriteBlock(t) ==
    LET c == call[t] IN
    /\ c.pc = "named"
    /\ block_arr' = [block_arr EXCEPT ![In(t)][c.way] =
                       [j \in Byte |-> IF j < c.size THEN <<c.data, j>> ELSE @[j]]]
    /\ put' = [put EXCEPT ![In(t)][c.way] =
                 [hash |-> c.hash, data |-> c.data, size |-> c.size]]
    /\ call' = [call EXCEPT ![t] = Idle]
    /\ UNCHANGED <<calls, hash_arr, life_arr, overlapped>>

-----------------------------------------------------------------------------
cache_read(t)  == \/ \E h \in Hash, size \in 1 .. g_block_size : ReadScan(t, h, size)
                  \/ ReadCopy(t) \/ Return(t)

cache_write(t) ==
    \/ \E h \in Hash :
          \/ WriteRefills(t, h)
          \/ \E d \in Data, size \in 1 .. g_block_size : WriteScan(t, h, d, size)
    \/ WriteName(t) \/ WriteBlock(t)

Next == \E t \in Thread : cache_read(t) \/ cache_write(t)

Spec == Init /\ [][Next]_vars

-----------------------------------------------------------------------------
(* A hit returns what was last put under the fingerprint it was asked for, *)
(* as many bytes as that was, unless another thread was in the line at the *)
(* same time.  Further on it returns what the way held before: a read that *)
(* asks for more than an earlier one gets the difference from another put. *)
(* (cache_read's copy against cache_write's two)                           *)
HitIsWhatWasPut ==
    [][\A t \in Thread :
        LET c == call[t]
            p == put[In(t)][c.way]
        IN c.pc = "hit" /\ call'[t].pc = "read" /\ In(t) \notin overlapped =>
            \A j \in Byte : j < c.size /\ j < p.size =>
                p.hash = c.hash /\ call'[t].buf[j] = <<p.data, j>>]_vars

(* A fingerprint is in at most one way besides way 0, so a line holds at   *)
(* least Ways - 1 different blocks when it is full; again unless two       *)
(* threads were in it at once. (cache_write's search for the fingerprint)  *)
OneWayBesideWayZero ==
    \A l \in Line \ overlapped, h \in Hash \ {Zero} :
        LineOf[h] = l => Cardinality(Matching(h) \ {0}) <= 1
=============================================================================
