---------------------------- MODULE FuseCacheProofs ----------------------------
(***************************************************************************)
(* Proofs about the block cache, for caches of any shape, any fingerprints *)
(* and any threads: as long as no two threads were in one line at once,    *)
(* one of them writing, a hit returns what was put, and a line holds a     *)
(* block at most once besides way 0.                                       *)
(***************************************************************************)
EXTENDS FuseCache, FiniteSetTheorems, TLAPS

Writing(t) == call[t].pc \in {"chosen", "named"}
Quiet(l)   == l \notin overlapped

(* Who is in a line has a way of it, and who writes has data. *)
HasWay == \A t \in Thread : /\ Busy(t) => call[t].way \in Way
                            /\ Writing(t) => call[t].data \in Data

(* A writer is alone in its line. *)
WriterAlone == \A t, u \in Thread :
    t # u /\ Writing(t) /\ Busy(u) /\ In(u) = In(t) => ~Quiet(In(t))

(* What a writer found when it searched the line is still so. *)
StillAbsent == \A t \in Thread : call[t].pc = "chosen" /\ Quiet(In(t)) =>
    \A w \in Way : w > 0 => hash_arr[In(t)][w] # call[t].hash

(* The way in the hands of a thread bears its fingerprint. *)
StillNamed == \A t \in Thread : call[t].pc \in {"named", "hit"} /\ Quiet(In(t)) =>
    hash_arr[In(t)][call[t].way] = call[t].hash

(* A way holds what was put there, under its fingerprint. *)
HoldsPut == \A l \in Line, w \in Way : Quiet(l) /\ put[l][w].size > 0 =>
    /\ put[l][w].hash = hash_arr[l][w]
    /\ \A j \in Byte : j < put[l][w].size => block_arr[l][w][j] = <<put[l][w].data, j>>

(* No fingerprint is in two ways besides way 0. *)
InOneWay == \A l \in Line, v, w \in Way :
    Quiet(l) /\ 0 < v /\ 0 < w /\ v # w /\ hash_arr[l][v] # Zero =>
        hash_arr[l][v] # hash_arr[l][w]

Inv == TypeOK /\ HasWay /\ WriterAlone /\ StillAbsent /\ StillNamed /\ HoldsPut /\ InOneWay

-----------------------------------------------------------------------------
(* Types. *)

(* What a thread does. *)
Calls == [pc : Pc, hash : Hash, data : Data \cup {Nul}, size : 0 .. g_block_size,
          way : -1 .. Ways - 1, buf : [Byte -> Cell]]

(* To be idle is one, an empty way holds nothing, and 0 is a life. *)
LEMMA IdleType == Idle \in Calls /\ NoPut \in Put /\ 0 \in 0 .. Life
  BY CacheAssumption DEF Idle, Calls, NoPut, Put, Pc, Cell

(* The line and the way of a thread that is in one. *)
LEMMA Place ==
    ASSUME TypeOK, HasWay, NEW t \in Thread
    PROVE  /\ call[t] \in Calls
           /\ In(t) \in Line
           /\ Busy(t) => call[t].way \in Way
           /\ Writing(t) => call[t].data \in Data
  BY CacheAssumption DEF TypeOK, HasWay, In, Calls

(* One step of a thread leaves the calls of the others. *)
LEMMA OneMoves ==
    ASSUME TypeOK, NEW t \in Thread, NEW c, call' = [call EXCEPT ![t] = c]
    PROVE  /\ call'[t] = c
           /\ \A u \in Thread : u # t => call'[u] = call[u]
           /\ c \in Calls => call' \in [Thread -> Calls]
  BY DEF TypeOK, Calls

(* The empty cache. *)
LEMMA InitInv == Init => Inv
<1> SUFFICES ASSUME Init PROVE Inv
  OBVIOUS
<1>1. TypeOK
  BY CacheAssumption, IdleType DEF Init, TypeOK, Calls, Cell
<1>2. \A t \in Thread : call[t].pc = "idle"
  BY DEF Init, Idle
<1>3. HasWay /\ WriterAlone /\ StillAbsent /\ StillNamed
  BY <1>2 DEF HasWay, Busy, WriterAlone, Writing, StillAbsent, StillNamed
<1>4. \A l \in Line, w \in Way : put[l][w].size = 0 /\ hash_arr[l][w] = Zero
  BY DEF Init, NoPut
<1>5. HoldsPut /\ InOneWay
  BY <1>4 DEF HoldsPut, InOneWay
<1> QED
  BY <1>1, <1>3, <1>5 DEF Inv

-----------------------------------------------------------------------------
(* Each step keeps the types, and what a thread in a line has found. *)

(* Ways and lives. *)
LEMMA OlderType == \A l \in 0 .. Life : Older(l) \in 0 .. Life
  BY CacheAssumption DEF Older

(* The last of some ways is one of them. *)
LEMMA LastIsOne ==
    ASSUME NEW S \in SUBSET Way, S # {}
    PROVE  Last(S) \in S
<1> DEFINE U == {n \in Nat : \A w \in S : w <= n}
           R == OpToRel(<, Nat)
<1> HIDE DEF R
<1>1. Ways - 1 \in U
  BY CacheAssumption DEF Way
<1>2. PICK m \in U : \A n \in U : ~(<<n, m>> \in R)
  <2> HIDE DEF U
  <2>1. U \subseteq Nat /\ U # {}
    BY <1>1 DEF U
  <2>2. IsWellFoundedOn(R, Nat)
    BY NatLessThanWellFounded, Zenon DEF R
  <2> QED
    BY <2>1, <2>2, WFMin
<1>3. \A n \in U : ~(n < m)
  <2>1. \A n, k \in Nat : n < k => <<n, k>> \in R
    BY DEF R, OpToRel
  <2> QED
    BY <1>2, <2>1
<1>4. m \in S
  <2> SUFFICES ASSUME m \notin S PROVE FALSE
    OBVIOUS
  <2>1. \A w \in S : w \in Int /\ 0 <= w /\ w <= m /\ w # m
    BY CacheAssumption DEF Way
  <2>2. \A w \in S : w <= m - 1
    BY <2>1
  <2>3. m - 1 \in Nat
    BY <2>1
  <2>4. m - 1 \in U
    BY <2>2, <2>3
  <2> QED
    BY <1>3, <2>4
<1>5. \A v \in S : v <= m
  OBVIOUS
<1> QED
  BY <1>4, <1>5 DEF Last

-----------------------------------------------------------------------------
(* Each step keeps the types. *)

(* cache_read. *)
LEMMA ReadTypes ==
    ASSUME TypeOK, HasWay, NEW t \in Thread, cache_read(t)
    PROVE  TypeOK' /\ HasWay'
<1>0. /\ hash_arr \in [Line -> [Way -> Hash]]
      /\ block_arr \in [Line -> [Way -> [Byte -> Cell]]]
      /\ life_arr \in [Line -> [Way -> 0 .. Life]]
      /\ call \in [Thread -> Calls]
      /\ calls \in 0 .. MaxCalls
      /\ put \in [Line -> [Way -> Put]]
      /\ overlapped \subseteq Line
  BY DEF TypeOK, Calls
<1> SUFFICES /\ hash_arr' \in [Line -> [Way -> Hash]]
             /\ block_arr' \in [Line -> [Way -> [Byte -> Cell]]]
             /\ life_arr' \in [Line -> [Way -> 0 .. Life]]
             /\ call' \in [Thread -> Calls]
             /\ calls' \in 0 .. MaxCalls
             /\ put' \in [Line -> [Way -> Put]]
             /\ overlapped' \subseteq Line
             /\ HasWay'
  BY DEF TypeOK, Calls
<1>1. ASSUME NEW h \in Hash, NEW size \in 1 .. g_block_size, ReadScan(t, h, size)
      PROVE  /\ life_arr' \in [Line -> [Way -> 0 .. Life]]
             /\ call' \in [Thread -> Calls]
             /\ calls' \in 0 .. MaxCalls
             /\ overlapped' \subseteq Line
             /\ HasWay'
             /\ UNCHANGED <<hash_arr, block_arr, put>>
  <2> DEFINE l == LineOf[h]
             S == Matching(h)
             c == [Idle EXCEPT !.pc = IF S = {} THEN "miss" ELSE "hit",
                               !.hash = h, !.size = size,
                               !.way = IF S = {} THEN -1 ELSE Last(S)]
             lives == [w \in Way |-> IF w \in S THEN life_arr[l][w]
                                     ELSE Older(life_arr[l][w])]
  <2>1. /\ calls < MaxCalls /\ calls' = calls + 1
        /\ life_arr' = [life_arr EXCEPT ![l] = lives]
        /\ call' = [call EXCEPT ![t] = c]
        /\ overlapped' = IF \E u \in Others(t, l) : call[u].pc # "hit"
                         THEN overlapped \cup {l} ELSE overlapped
        /\ UNCHANGED <<hash_arr, block_arr, put>>
    BY <1>1 DEF ReadScan, Call
  <2>2. l \in Line /\ S \in SUBSET Way
    BY CacheAssumption DEF Matching
  <2>3. S # {} => Last(S) \in Way
    BY <2>2, LastIsOne
  <2> HIDE DEF l, S
  <2>4. lives \in [Way -> 0 .. Life]
    BY <1>0, <2>2, OlderType
  <2>5. c \in Calls /\ (c.pc = "hit" => c.way \in Way) /\ c.pc \in {"miss", "hit"}
    <3>1. size \in 0 .. g_block_size
      BY CacheAssumption
    <3>2. (IF S = {} THEN -1 ELSE Last(S)) \in -1 .. Ways - 1
      BY <2>3, CacheAssumption DEF Way
    <3> QED
      BY <2>3, <3>1, <3>2, IdleType DEF Calls, Pc
  <2> HIDE DEF c, lives
  <2>6. life_arr' \in [Line -> [Way -> 0 .. Life]] /\ overlapped' \subseteq Line
    BY <1>0, <2>1, <2>2, <2>4
  <2>7. calls' \in 0 .. MaxCalls
    BY <1>0, <2>1, CacheAssumption
  <2>8. /\ call' \in [Thread -> Calls] /\ call'[t] = c
        /\ \A u \in Thread : u # t => call'[u] = call[u]
    BY <1>0, <2>1, <2>5
  <2>9. HasWay'
    BY <2>5, <2>8 DEF HasWay, Busy, Writing, Way
  <2> QED
    BY <2>1, <2>6, <2>7, <2>8, <2>9
<1>2. CASE ReadCopy(t)
  <2> DEFINE b == [j \in Byte |-> IF j < call[t].size
                                  THEN block_arr[In(t)][call[t].way][j] ELSE Nul]
  <2>1. /\ call[t].pc = "hit"
        /\ call' = [call EXCEPT ![t].pc = "read", ![t].buf = b]
        /\ UNCHANGED <<calls, hash_arr, block_arr, life_arr, put, overlapped>>
    BY <1>2 DEF ReadCopy
  <2>2. call[t] \in Calls /\ In(t) \in Line /\ call[t].way \in Way
    BY <2>1, Place DEF Busy
  <2>3. b \in [Byte -> Cell]
    BY <1>0, <2>2 DEF Cell
  <2> HIDE DEF b
  <2>4. /\ call'[t] = [call[t] EXCEPT !.pc = "read", !.buf = b]
        /\ \A u \in Thread : u # t => call'[u] = call[u]
    BY <1>0, <2>1
  <2>5. [call[t] EXCEPT !.pc = "read", !.buf = b] \in Calls
    BY <2>2, <2>3 DEF Calls, Pc
  <2>6. call' \in [Thread -> Calls]
    BY <1>0, <2>1, <2>5
  <2>7. HasWay'
    <3>1. call'[t].pc = "read"
      BY <2>2, <2>4 DEF Calls
    <3> QED
      BY <2>4, <3>1 DEF HasWay, Busy, Writing, Way
  <2> QED
    BY <1>0, <2>1, <2>6, <2>7
<1>3. CASE Return(t)
  <2>1. /\ call' = [call EXCEPT ![t] = Idle]
        /\ UNCHANGED <<calls, hash_arr, block_arr, life_arr, put, overlapped>>
    BY <1>3 DEF Return
  <2>2. /\ call' \in [Thread -> Calls] /\ call'[t] = Idle
        /\ \A u \in Thread : u # t => call'[u] = call[u]
    BY <1>0, <2>1, IdleType
  <2>3. HasWay'
    BY <2>2 DEF HasWay, Busy, Writing, Way, Idle
  <2> QED
    BY <1>0, <2>1, <2>2, <2>3
<1> QED
  BY <1>0, <1>1, <1>2, <1>3 DEF cache_read

(* cache_write. *)
LEMMA WriteTypes ==
    ASSUME TypeOK, HasWay, NEW t \in Thread, cache_write(t)
    PROVE  TypeOK' /\ HasWay'
<1>0. /\ hash_arr \in [Line -> [Way -> Hash]]
      /\ block_arr \in [Line -> [Way -> [Byte -> Cell]]]
      /\ life_arr \in [Line -> [Way -> 0 .. Life]]
      /\ call \in [Thread -> Calls]
      /\ calls \in 0 .. MaxCalls
      /\ put \in [Line -> [Way -> Put]]
      /\ overlapped \subseteq Line
  BY DEF TypeOK, Calls
<1> SUFFICES /\ hash_arr' \in [Line -> [Way -> Hash]]
             /\ block_arr' \in [Line -> [Way -> [Byte -> Cell]]]
             /\ life_arr' \in [Line -> [Way -> 0 .. Life]]
             /\ call' \in [Thread -> Calls]
             /\ calls' \in 0 .. MaxCalls
             /\ put' \in [Line -> [Way -> Put]]
             /\ overlapped' \subseteq Line
             /\ HasWay'
  BY DEF TypeOK, Calls
<1>1. ASSUME NEW h \in Hash, WriteRefills(t, h)
      PROVE  /\ life_arr' \in [Line -> [Way -> 0 .. Life]]
             /\ call' \in [Thread -> Calls]
             /\ calls' \in 0 .. MaxCalls
             /\ HasWay'
             /\ UNCHANGED <<hash_arr, block_arr, put, overlapped>>
  <2>1. /\ calls < MaxCalls /\ calls' = calls + 1
        /\ \E w : life_arr' = [life_arr EXCEPT ![LineOf[h]][w] = Life]
        /\ call' = [call EXCEPT ![t] = Idle]
        /\ UNCHANGED <<hash_arr, block_arr, put, overlapped>>
    BY <1>1 DEF WriteRefills, Call
  <2>2. life_arr' \in [Line -> [Way -> 0 .. Life]]
    <3>1. PICK w : life_arr' = [life_arr EXCEPT ![LineOf[h]][w] = Life]
      BY <2>1
    <3>2. Life \in 0 .. Life
      BY CacheAssumption
    <3> QED
      BY <1>0, <3>1, <3>2
  <2>3. calls' \in 0 .. MaxCalls
    BY <1>0, <2>1, CacheAssumption
  <2>4. /\ call' \in [Thread -> Calls] /\ call'[t] = Idle
        /\ \A u \in Thread : u # t => call'[u] = call[u]
    BY <1>0, <2>1, IdleType
  <2>5. HasWay'
    BY <2>4 DEF HasWay, Busy, Writing, Way, Idle
  <2> QED
    BY <2>1, <2>2, <2>3, <2>4, <2>5
<1>2. ASSUME NEW h \in Hash, NEW d \in Data, NEW size \in 1 .. g_block_size,
             WriteScan(t, h, d, size)
      PROVE  /\ call' \in [Thread -> Calls]
             /\ calls' \in 0 .. MaxCalls
             /\ overlapped' \subseteq Line
             /\ HasWay'
             /\ UNCHANGED <<hash_arr, block_arr, life_arr, put>>
  <2>1. PICK w \in Way :
            call' = [call EXCEPT ![t] = [Idle EXCEPT !.pc = "chosen", !.hash = h,
                                         !.data = d, !.size = size, !.way = w]]
    BY <1>2 DEF WriteScan
  <2>2. /\ calls < MaxCalls /\ calls' = calls + 1
        /\ overlapped' = IF Others(t, LineOf[h]) # {} THEN overlapped \cup {LineOf[h]}
                         ELSE overlapped
        /\ UNCHANGED <<hash_arr, block_arr, life_arr, put>>
    BY <1>2 DEF WriteScan, Call
  <2> DEFINE c == [Idle EXCEPT !.pc = "chosen", !.hash = h,
                               !.data = d, !.size = size, !.way = w]
  <2>3. c \in Calls /\ c.way \in Way /\ c.data \in Data
    <3>1. size \in 0 .. g_block_size /\ w \in -1 .. Ways - 1
      BY CacheAssumption DEF Way
    <3> QED
      BY <3>1, IdleType DEF Calls, Pc
  <2> HIDE DEF c
  <2>4. /\ call' \in [Thread -> Calls] /\ call'[t] = c
        /\ \A u \in Thread : u # t => call'[u] = call[u]
    BY <1>0, <2>1, <2>3 DEF c
  <2>5. HasWay'
    BY <2>3, <2>4 DEF HasWay, Busy, Writing, Way
  <2>6. calls' \in 0 .. MaxCalls /\ overlapped' \subseteq Line
    BY <1>0, <2>2, CacheAssumption
  <2> QED
    BY <2>2, <2>4, <2>5, <2>6
<1>3. CASE WriteName(t)
  <2>1. /\ call[t].pc = "chosen"
        /\ life_arr' = [life_arr EXCEPT ![In(t)][call[t].way] = Life]
        /\ hash_arr' = [hash_arr EXCEPT ![In(t)][call[t].way] = call[t].hash]
        /\ put' = [put EXCEPT ![In(t)][call[t].way] = NoPut]
        /\ call' = [call EXCEPT ![t].pc = "named"]
        /\ UNCHANGED <<calls, block_arr, overlapped>>
    BY <1>3 DEF WriteName
  <2>2. /\ call[t] \in Calls /\ In(t) \in Line /\ call[t].way \in Way
        /\ call[t].hash \in Hash /\ call[t].data \in Data /\ Life \in 0 .. Life
    BY <2>1, Place, CacheAssumption DEF Busy, Writing, Calls
  <2>3. life_arr' \in [Line -> [Way -> 0 .. Life]]
    BY <1>0, <2>1, <2>2
  <2>4. hash_arr' \in [Line -> [Way -> Hash]]
    BY <1>0, <2>1, <2>2
  <2>5. put' \in [Line -> [Way -> Put]]
    BY <1>0, <2>1, <2>2, IdleType
  <2>6. /\ call'[t] = [call[t] EXCEPT !.pc = "named"]
        /\ \A u \in Thread : u # t => call'[u] = call[u]
        /\ call' \in [Thread -> Calls]
    <3>1. [call[t] EXCEPT !.pc = "named"] \in Calls
      BY <2>2 DEF Calls, Pc
    <3> QED
      BY <1>0, <2>1, <3>1
  <2>7. HasWay'
    <3>1. call'[t].way \in Way /\ call'[t].data \in Data
      BY <2>2, <2>6 DEF Calls
    <3> QED
      BY <2>6, <3>1 DEF HasWay, Busy, Writing, Way
  <2> QED
    BY <1>0, <2>1, <2>3, <2>4, <2>5, <2>6, <2>7
<1>4. CASE WriteBlock(t)
  <2> DEFINE b == [j \in Byte |-> IF j < call[t].size THEN <<call[t].data, j>>
                                  ELSE block_arr[In(t)][call[t].way][j]]
             p == [hash |-> call[t].hash, data |-> call[t].data, size |-> call[t].size]
  <2>1. /\ call[t].pc = "named"
        /\ block_arr' = [block_arr EXCEPT ![In(t)][call[t].way] =
                           [j \in Byte |-> IF j < call[t].size THEN <<call[t].data, j>>
                                           ELSE @[j]]]
        /\ put' = [put EXCEPT ![In(t)][call[t].way] = p]
        /\ call' = [call EXCEPT ![t] = Idle]
        /\ UNCHANGED <<calls, hash_arr, life_arr, overlapped>>
    BY <1>4 DEF WriteBlock
  <2>2. /\ call[t] \in Calls /\ In(t) \in Line
        /\ call[t].way \in Way /\ call[t].data \in Data
    BY <2>1, Place DEF Busy, Writing
  <2>3. block_arr' = [block_arr EXCEPT ![In(t)][call[t].way] = b]
    BY <2>1, <1>0, <2>2
  <2>4. b \in [Byte -> Cell] /\ p \in Put
    BY <1>0, <2>2 DEF Cell, Calls, Put
  <2> HIDE DEF b, p
  <2>5. block_arr' \in [Line -> [Way -> [Byte -> Cell]]]
    BY <1>0, <2>2, <2>3, <2>4
  <2>6. put' \in [Line -> [Way -> Put]]
    BY <1>0, <2>1, <2>2, <2>4
  <2>7. /\ call' \in [Thread -> Calls] /\ call'[t] = Idle
        /\ \A u \in Thread : u # t => call'[u] = call[u]
    BY <1>0, <2>1, IdleType
  <2>8. HasWay'
    BY <2>7 DEF HasWay, Busy, Writing, Way, Idle
  <2> QED
    BY <1>0, <2>1, <2>5, <2>6, <2>7, <2>8
<1> QED
  BY <1>0, <1>1, <1>2, <1>3, <1>4 DEF cache_write

-----------------------------------------------------------------------------
(* Each step keeps what threads found and what ways hold. *)

(* What a step must not break. *)
Lasting == WriterAlone /\ StillAbsent /\ StillNamed /\ HoldsPut /\ InOneWay

(* A call that leaves its line, or one that only looks at it, and changes  *)
(* neither fingerprints nor blocks.                                        *)
LEMMA LookKeeps ==
    ASSUME Lasting, NEW t \in Thread,
           \A u \in Thread \ {t} : call'[u] = call[u],
           call'[t].pc \in {"idle", "hit", "read", "miss"},
           call'[t].pc = "hit" =>
               /\ hash_arr[LineOf[call'[t].hash]][call'[t].way] = call'[t].hash
               /\ \A u \in Thread \ {t} :
                      Writing(u) /\ In(u) = LineOf[call'[t].hash] => In(u) \in overlapped',
           overlapped \subseteq overlapped',
           UNCHANGED <<hash_arr, block_arr, put>>
    PROVE  Lasting'
<1>1. \A l : Quiet(l)' => Quiet(l)
  BY DEF Quiet
<1>2. \A u \in Thread \ {t} : /\ In(u)' = In(u) /\ Busy(u)' = Busy(u)
                              /\ Writing(u)' = Writing(u)
  BY DEF In, Busy, Writing
<1>3. WriterAlone'
  <2>1. ~Writing(t)' /\ (Busy(t)' => call'[t].pc = "hit")
    BY DEF Writing, Busy
  <2> QED
    BY <1>1, <1>2, <2>1 DEF Lasting, WriterAlone, Quiet, In
<1>4. StillAbsent'
  BY <1>1, <1>2 DEF Lasting, StillAbsent, Writing
<1>5. StillNamed'
  BY <1>1, <1>2 DEF Lasting, StillNamed, In
<1>6. HoldsPut' /\ InOneWay'
  BY <1>1 DEF Lasting, HoldsPut, InOneWay
<1> QED
  BY <1>3, <1>4, <1>5, <1>6 DEF Lasting

(* cache_read. *)
LEMMA ReadKeeps ==
    ASSUME TypeOK, Lasting, NEW t \in Thread, cache_read(t)
    PROVE  Lasting'
<1>0. call \in [Thread -> Calls]
  BY DEF TypeOK, Calls
<1>1. ASSUME NEW h \in Hash, NEW size \in 1 .. g_block_size, ReadScan(t, h, size)
      PROVE  Lasting'
  <2> DEFINE l == LineOf[h]
             S == Matching(h)
             c == [Idle EXCEPT !.pc = IF S = {} THEN "miss" ELSE "hit",
                               !.hash = h, !.size = size,
                               !.way = IF S = {} THEN -1 ELSE Last(S)]
  <2>1. /\ call' = [call EXCEPT ![t] = c]
        /\ overlapped' = IF \E u \in Others(t, l) : call[u].pc # "hit"
                         THEN overlapped \cup {l} ELSE overlapped
        /\ UNCHANGED <<hash_arr, block_arr, put>>
    BY <1>1 DEF ReadScan
  <2>2. S \in SUBSET Way /\ (S # {} => Last(S) \in S)
    BY LastIsOne DEF Matching
  <2>3. S # {} => hash_arr[l][Last(S)] = h
    BY <2>2 DEF Matching
  <2> HIDE DEF S
  <2>4. /\ c.pc \in {"hit", "miss"} /\ c.hash = h
        /\ c.pc = "hit" => S # {} /\ c.way = Last(S)
    BY DEF Idle
  <2> HIDE DEF c
  <2>5. call'[t] = c /\ \A u \in Thread \ {t} : call'[u] = call[u]
    BY <1>0, <2>1
  <2>6. \A u \in Thread \ {t} : Writing(u) /\ In(u) = l => In(u) \in overlapped'
    BY <2>1 DEF Writing, Others, Busy
  <2>7. call'[t].pc = "hit" =>
          /\ hash_arr[LineOf[call'[t].hash]][call'[t].way] = call'[t].hash
          /\ \A u \in Thread \ {t} :
                 Writing(u) /\ In(u) = LineOf[call'[t].hash] => In(u) \in overlapped'
    BY <2>3, <2>4, <2>5, <2>6
  <2>8. overlapped \subseteq overlapped'
    BY <2>1
  <2> QED
    BY <2>1, <2>4, <2>5, <2>7, <2>8, LookKeeps
<1>2. CASE ReadCopy(t) \/ Return(t)
  <2>1. /\ UNCHANGED <<hash_arr, block_arr, put, overlapped>>
        /\ \A u \in Thread \ {t} : call'[u] = call[u]
        /\ call'[t].pc \in {"read", "idle"}
    BY <1>0, <1>2 DEF ReadCopy, Return, Idle, Calls
  <2> QED
    BY <2>1, LookKeeps
<1> QED
  BY <1>1, <1>2 DEF cache_read

(* cache_write. *)
LEMMA WriteKeeps ==
    ASSUME TypeOK, HasWay, Lasting, NEW t \in Thread, cache_write(t)
    PROVE  Lasting'
<1>0. /\ call \in [Thread -> Calls]
      /\ hash_arr \in [Line -> [Way -> Hash]]
      /\ block_arr \in [Line -> [Way -> [Byte -> Cell]]]
      /\ put \in [Line -> [Way -> Put]]
  BY DEF TypeOK, Calls
<1>a. WriterAlone /\ StillAbsent /\ StillNamed /\ HoldsPut /\ InOneWay
  BY DEF Lasting
<1>1. ASSUME NEW h \in Hash, WriteRefills(t, h)
      PROVE  Lasting'
  <2>1. /\ call' = [call EXCEPT ![t] = Idle]
        /\ UNCHANGED <<hash_arr, block_arr, put, overlapped>>
    BY <1>1 DEF WriteRefills
  <2>2. call'[t].pc = "idle" /\ \A u \in Thread \ {t} : call'[u] = call[u]
    BY <1>0, <2>1 DEF Idle
  <2> QED
    BY <2>1, <2>2, LookKeeps
<1>2. ASSUME NEW h \in Hash, NEW d \in Data, NEW size \in 1 .. g_block_size,
             WriteScan(t, h, d, size)
      PROVE  Lasting'
  <2>1. PICK x \in Way :
            call' = [call EXCEPT ![t] = [Idle EXCEPT !.pc = "chosen", !.hash = h,
                                         !.data = d, !.size = size, !.way = x]]
    BY <1>2 DEF WriteScan
  <2>2. /\ overlapped' = IF Others(t, LineOf[h]) # {} THEN overlapped \cup {LineOf[h]}
                         ELSE overlapped
        /\ UNCHANGED <<hash_arr, block_arr, life_arr, put>>
        /\ Refilled(h) = {}
    BY <1>2 DEF WriteScan
  <2>3. /\ call'[t].pc = "chosen" /\ call'[t].hash = h
        /\ \A u \in Thread \ {t} : call'[u] = call[u]
    BY <1>0, <2>1 DEF Idle
  <2>4. \A l : Quiet(l)' => Quiet(l)
    BY <2>2 DEF Quiet
  <2>5. /\ \A u \in Thread \ {t} : /\ In(u)' = In(u) /\ Busy(u)' = Busy(u)
                                   /\ Writing(u)' = Writing(u)
        /\ In(t)' = LineOf[h]
    BY <2>3 DEF In, Busy, Writing
  <2>6. \A u \in Thread \ {t} : Busy(u) /\ In(u) = LineOf[h] => LineOf[h] \in overlapped'
    BY <2>2 DEF Others
  <2>7. WriterAlone'
    <3>1. \A u : Writing(u) => Busy(u)
      BY DEF Writing, Busy
    <3> QED
      BY <1>a, <2>4, <2>5, <2>6, <3>1 DEF WriterAlone, Quiet
  <2>8. StillAbsent'
    <3>1. \A w \in Way : w > 0 => hash_arr[LineOf[h]][w] # h
      BY <2>2 DEF Refilled, Matching
    <3> QED
      BY <1>a, <2>2, <2>3, <2>4, <2>5, <3>1 DEF StillAbsent, Way
  <2>9. StillNamed'
    BY <1>a, <2>2, <2>3, <2>4, <2>5 DEF StillNamed
  <2>10. HoldsPut' /\ InOneWay'
    BY <1>a, <2>2, <2>4 DEF HoldsPut, InOneWay, Line, Way, Byte
  <2> QED
    BY <2>7, <2>8, <2>9, <2>10 DEF Lasting
<1>3. CASE WriteName(t)
  <2> DEFINE l == In(t)
             v == call[t].way
             h == call[t].hash
  <2>1. /\ call[t].pc = "chosen"
        /\ hash_arr' = [hash_arr EXCEPT ![l][v] = h]
        /\ put' = [put EXCEPT ![l][v] = NoPut]
        /\ call' = [call EXCEPT ![t].pc = "named"]
        /\ UNCHANGED <<calls, block_arr, overlapped>>
    BY <1>3 DEF WriteName
  <2>2. /\ call[t] \in Calls /\ l \in Line /\ v \in Way /\ h \in Hash
    BY <2>1, Place DEF Busy, Calls
  <2>3. /\ call'[t].pc = "named" /\ call'[t].hash = h /\ call'[t].way = v
        /\ \A u \in Thread \ {t} : call'[u] = call[u]
    BY <1>0, <2>1, <2>2 DEF Calls
  <2>4. /\ \A u \in Thread \ {t} : /\ In(u)' = In(u) /\ Busy(u)' = Busy(u)
                                   /\ Writing(u)' = Writing(u)
        /\ In(t)' = l /\ Busy(t) /\ Busy(t)' /\ Writing(t) /\ Writing(t)'
    BY <2>1, <2>3 DEF In, Busy, Writing
  <2>5. \A u \in Thread \ {t} : Busy(u) /\ In(u) = l => ~Quiet(l)
    BY <1>a, <2>4 DEF WriterAlone
  <2>6. Quiet(l) => \A w \in Way : w > 0 => hash_arr[l][w] # h
    BY <1>a, <2>1 DEF StillAbsent
  <2>7. /\ \A k \in Line, w \in Way :
              k # l \/ w # v => hash_arr'[k][w] = hash_arr[k][w] /\ put'[k][w] = put[k][w]
        /\ hash_arr'[l][v] = h /\ put'[l][v].size = 0
    <3>1. \A k \in Line, w \in Way :
              k # l \/ w # v => hash_arr'[k][w] = hash_arr[k][w] /\ put'[k][w] = put[k][w]
      <4> HIDE DEF l, v, h
      <4> QED
        BY <1>0, <2>1, <2>2
    <3>2. hash_arr'[l][v] = h /\ put'[l][v] = NoPut
      <4> HIDE DEF l, v, h
      <4> QED
        BY <1>0, <2>1, <2>2
    <3> QED
      BY <3>1, <3>2 DEF NoPut
  <2>8. \A k : Quiet(k)' = Quiet(k)
    BY <2>1 DEF Quiet
  <2>9. WriterAlone'
    BY <1>a, <2>4, <2>5, <2>8 DEF WriterAlone
  <2>10. StillAbsent'
    <3> SUFFICES ASSUME NEW u \in Thread, call'[u].pc = "chosen", Quiet(In(u))',
                        NEW w \in Way, w > 0
                 PROVE  hash_arr'[In(u)'][w] # call'[u].hash
      BY DEF StillAbsent, Way
    <3>1. u # t /\ call[u] = call'[u] /\ In(u)' = In(u) /\ Quiet(In(u))
      BY <2>3, <2>4, <2>8
    <3>2. In(u) # l
      BY <2>5, <3>1 DEF Busy
    <3>3. In(u) \in Line
      BY <3>1, Place
    <3> QED
      BY <1>a, <2>7, <3>1, <3>2, <3>3 DEF StillAbsent
  <2>11. StillNamed'
    <3> SUFFICES ASSUME NEW u \in Thread, call'[u].pc \in {"named", "hit"}, Quiet(In(u))'
                 PROVE  hash_arr'[In(u)'][call'[u].way] = call'[u].hash
      BY DEF StillNamed
    <3>1. CASE u = t
      BY <2>3, <2>4, <2>7, <3>1
    <3>2. CASE u # t
      <4>1. call[u] = call'[u] /\ In(u)' = In(u) /\ Quiet(In(u)) /\ Busy(u)
        BY <2>3, <2>4, <2>8, <3>2 DEF Busy
      <4>2. In(u) # l
        BY <2>5, <3>2, <4>1
      <4>3. In(u) \in Line /\ call[u].way \in Way
        BY <4>1, Place
      <4> QED
        BY <1>a, <2>7, <4>1, <4>2, <4>3 DEF StillNamed
    <3> QED
      BY <3>1, <3>2
  <2>12. HoldsPut'
    <3> SUFFICES ASSUME NEW k \in Line, NEW w \in Way, Quiet(k)', put'[k][w].size > 0
                 PROVE  /\ put'[k][w].hash = hash_arr'[k][w]
                        /\ \A j \in Byte : j < put'[k][w].size =>
                               block_arr'[k][w][j] = <<put'[k][w].data, j>>
      BY DEF HoldsPut, Line, Way, Byte
    <3>1. k # l \/ w # v
      BY <2>7
    <3> QED
      BY <1>a, <2>1, <2>7, <2>8, <3>1 DEF HoldsPut
  <2>13. InOneWay'
    <3> SUFFICES ASSUME NEW k \in Line, NEW x \in Way, NEW w \in Way, Quiet(k)',
                        0 < x, 0 < w, x # w, hash_arr'[k][x] # Zero
                 PROVE  hash_arr'[k][x] # hash_arr'[k][w]
      BY DEF InOneWay, Line, Way
    <3>1. CASE k # l \/ (x # v /\ w # v)
      BY <1>a, <2>7, <2>8, <3>1 DEF InOneWay
    <3>2. CASE k = l /\ (x = v \/ w = v)
      BY <2>6, <2>7, <2>8, <3>2
    <3> QED
      BY <3>1, <3>2
  <2> QED
    BY <2>9, <2>10, <2>11, <2>12, <2>13 DEF Lasting
<1>4. CASE WriteBlock(t)
  <2> DEFINE l == In(t)
             v == call[t].way
             c == call[t]
  <2>1. /\ c.pc = "named"
        /\ block_arr' = [block_arr EXCEPT ![l][v] =
                           [j \in Byte |-> IF j < c.size THEN <<c.data, j>> ELSE @[j]]]
        /\ put' = [put EXCEPT ![l][v] =
                     [hash |-> c.hash, data |-> c.data, size |-> c.size]]
        /\ call' = [call EXCEPT ![t] = Idle]
        /\ UNCHANGED <<hash_arr, overlapped>>
    BY <1>4 DEF WriteBlock
  <2>2. c \in Calls /\ l \in Line /\ v \in Way
    BY <2>1, Place DEF Busy
  <2>3. call'[t].pc = "idle" /\ \A u \in Thread \ {t} : call'[u] = call[u]
    BY <1>0, <2>1 DEF Idle
  <2>4. /\ \A u \in Thread \ {t} : /\ In(u)' = In(u) /\ Busy(u)' = Busy(u)
                                   /\ Writing(u)' = Writing(u)
        /\ ~Busy(t)' /\ ~Writing(t)'
    BY <2>3 DEF In, Busy, Writing
  <2>5. \A k : Quiet(k)' = Quiet(k)
    BY <2>1 DEF Quiet
  <2>6. Quiet(l) => hash_arr[l][v] = c.hash
    BY <1>a, <2>1 DEF StillNamed
  <2>7. WriterAlone'
    BY <1>a, <2>4, <2>5 DEF WriterAlone
  <2>8. StillAbsent'
    BY <1>a, <2>1, <2>3, <2>4, <2>5 DEF StillAbsent
  <2>9. StillNamed'
    BY <1>a, <2>1, <2>3, <2>4, <2>5 DEF StillNamed
  <2>10. InOneWay'
    BY <1>a, <2>1, <2>5 DEF InOneWay
  <2>11. HoldsPut'
    <3> SUFFICES ASSUME NEW k \in Line, NEW w \in Way, Quiet(k)', put'[k][w].size > 0
                 PROVE  /\ put'[k][w].hash = hash_arr'[k][w]
                        /\ \A j \in Byte : j < put'[k][w].size =>
                               block_arr'[k][w][j] = <<put'[k][w].data, j>>
      BY DEF HoldsPut, Line, Way, Byte
    <3> HIDE DEF l, v, c
    <3>1. CASE k # l \/ w # v
      <4>1. put'[k][w] = put[k][w] /\ block_arr'[k][w] = block_arr[k][w]
        BY <1>0, <2>1, <2>2, <3>1
      <4> QED
        BY <1>a, <2>1, <2>5, <4>1 DEF HoldsPut
    <3>2. CASE k = l /\ w = v
      <4>1. put'[k][w] = [hash |-> c.hash, data |-> c.data, size |-> c.size]
        BY <1>0, <2>1, <2>2, <3>2
      <4>2. block_arr'[k][w] = [j \in Byte |-> IF j < c.size THEN <<c.data, j>>
                                               ELSE block_arr[k][w][j]]
        BY <1>0, <2>1, <2>2, <3>2
      <4> QED
        BY <2>1, <2>5, <2>6, <3>2, <4>1, <4>2
    <3> QED
      BY <3>1, <3>2
  <2> QED
    BY <2>7, <2>8, <2>9, <2>10, <2>11 DEF Lasting
<1> QED
  BY <1>1, <1>2, <1>3, <1>4 DEF cache_write

-----------------------------------------------------------------------------
(* The invariants of the run. *)

(* What the cache reaches satisfies Inv. *)
THEOREM CacheInvariant == Spec => []Inv
<1>1. Inv /\ [Next]_vars => Inv'
  <2> SUFFICES ASSUME Inv, [Next]_vars PROVE Inv'
    OBVIOUS
  <2>1. TypeOK /\ HasWay /\ Lasting
    BY DEF Inv, Lasting
  <2>2. ASSUME NEW t \in Thread, cache_read(t) \/ cache_write(t)
        PROVE  TypeOK' /\ HasWay' /\ Lasting'
    BY <2>1, <2>2, ReadTypes, WriteTypes, ReadKeeps, WriteKeeps
  <2>3. CASE UNCHANGED vars
    <3>1. TypeOK'
      BY <2>1, <2>3 DEF vars, TypeOK
    <3>2. HasWay'
      BY <2>1, <2>3 DEF vars, HasWay, Busy, Writing
    <3>3. WriterAlone' /\ StillAbsent' /\ StillNamed'
      BY <2>1, <2>3 DEF vars, Lasting, WriterAlone, StillAbsent, StillNamed,
                        Writing, Busy, In, Quiet
    <3>4. HoldsPut' /\ InOneWay'
      BY <2>1, <2>3 DEF vars, Lasting, HoldsPut, InOneWay, Quiet
    <3> QED
      BY <3>1, <3>2, <3>3, <3>4 DEF Inv
  <2> QED
    BY <2>2, <2>3 DEF Next, Inv, Lasting
<1> QED
  BY InitInv, <1>1, PTL DEF Spec

(* TypeOK holds for caches of any shape and any number of threads. *)
THEOREM CacheTypes == Spec => []TypeOK
<1>1. Inv => TypeOK
  BY DEF Inv
<1> QED
  BY CacheInvariant, <1>1, PTL

(* A line that no two threads used at once, one of them writing, keeps a   *)
(* fingerprint in one way at most besides way 0.                           *)
THEOREM CacheKeepsOneWay == Spec => []OneWayBesideWayZero
<1>1. Inv => OneWayBesideWayZero
  <2> SUFFICES ASSUME Inv, NEW l \in Line \ overlapped, NEW h \in Hash \ {Zero},
                      LineOf[h] = l
               PROVE  Cardinality(Matching(h) \ {0}) <= 1
    BY DEF OneWayBesideWayZero
  <2> DEFINE S == Matching(h) \ {0}
  <2>1. \A w \in S : w \in Way /\ w > 0 /\ hash_arr[l][w] = h
    BY CacheAssumption DEF Matching, Way
  <2>2. \A v, w \in S : v = w
    BY <2>1 DEF Inv, InOneWay, Quiet
  <2> HIDE DEF S
  <2>3. ASSUME S = {} PROVE Cardinality(S) <= 1
    BY <2>3, FS_EmptySet
  <2>4. ASSUME S # {} PROVE Cardinality(S) <= 1
    <3>1. PICK w : S = {w}
      BY <2>2, <2>4
    <3>2. Cardinality({w}) = 1
      BY FS_Singleton
    <3> QED
      BY <3>1, <3>2
  <2> QED
    BY <2>3, <2>4 DEF S
<1> QED
  BY CacheInvariant, <1>1, PTL

(* As long as it was so, a hit returns what was last put under the         *)
(* fingerprint it was asked for.                                           *)
THEOREM CacheReturnsWhatWasPut == Spec => HitIsWhatWasPut
<1>1. Inv /\ [Next]_vars =>
        [\A t \in Thread :
            LET c == call[t]
                p == put[In(t)][c.way]
            IN c.pc = "hit" /\ call'[t].pc = "read" /\ In(t) \notin overlapped =>
                \A j \in Byte : j < c.size /\ j < p.size =>
                    p.hash = c.hash /\ call'[t].buf[j] = <<p.data, j>>]_vars
  <2> SUFFICES ASSUME Inv, Next, NEW t \in Thread,
                      call[t].pc = "hit", call'[t].pc = "read", In(t) \notin overlapped,
                      NEW j \in Byte, j < call[t].size,
                      j < put[In(t)][call[t].way].size
               PROVE  /\ put[In(t)][call[t].way].hash = call[t].hash
                      /\ call'[t].buf[j] = <<put[In(t)][call[t].way].data, j>>
    OBVIOUS
  <2>0. call \in [Thread -> Calls]
    BY DEF Inv, TypeOK, Calls
  <2>1. ReadCopy(t)
    <3>1. PICK u \in Thread : cache_read(u) \/ cache_write(u)
      BY SMTT(60) DEF Next
    <3>2. \E c : call' = [call EXCEPT ![u] = c]
      BY <3>1 DEF cache_read, cache_write, ReadScan, ReadCopy, Return,
                  WriteRefills, WriteScan, WriteName, WriteBlock
    <3>3. u = t
      BY <2>0, <3>2
    <3>4. /\ ~Return(t) /\ ~WriteName(t) /\ ~WriteBlock(t)
          /\ \A h, size : ~ReadScan(t, h, size)
      BY DEF Return, WriteName, WriteBlock, ReadScan
    <3>5. \A h \in Hash : ~WriteRefills(t, h)
      BY DEF WriteRefills, Puts
    <3>6. \A h, d, size : ~WriteScan(t, h, d, size)
      BY DEF WriteScan, Puts
    <3> QED
      BY <3>1, <3>3, <3>4, <3>5, <3>6 DEF cache_read, cache_write
  <2>2. call[t] \in Calls /\ In(t) \in Line /\ call[t].way \in Way
    BY Place DEF Inv, Busy
  <2>3. call'[t].buf[j] = block_arr[In(t)][call[t].way][j]
    BY <2>0, <2>1, <2>2 DEF ReadCopy, Calls
  <2>4. hash_arr[In(t)][call[t].way] = call[t].hash
    BY DEF Inv, StillNamed, Quiet
  <2>5. put[In(t)][call[t].way].size > 0
    BY <2>2, CacheAssumption, SMTT(60) DEF Byte, Inv, TypeOK, Put
  <2> QED
    BY <2>2, <2>3, <2>4, <2>5 DEF Inv, HoldsPut, Quiet
<1> QED
  BY CacheInvariant, <1>1, PTL DEF Spec, HitIsWhatWasPut
=============================================================================
