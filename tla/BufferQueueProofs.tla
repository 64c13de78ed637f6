-------------------------- MODULE BufferQueueProofs --------------------------
(***************************************************************************)
(* Proofs about the rings of the I/O threads, for every number of rings,   *)
(* slots, fingerprints and chunks: QueueInv is inductive, and with it what *)
(* is stored is what was sent, and producer and consumer never share a     *)
(* slot.                                                                   *)
(***************************************************************************)
EXTENDS BufferQueue, TLAPS

-----------------------------------------------------------------------------
(* Positions in a ring: remainders by its size. *)

(* Quotient and remainder. *)
LEMMA DivMod ==
    ASSUME NEW N \in Nat \ {0}, NEW n \in Nat
    PROVE  /\ n = N * (n \div N) + (n % N)
           /\ n \div N \in Nat
           /\ n % N \in 0 .. N - 1
  BY SMT

(* The remainder is the only one. *)
LEMMA ModIsUnique ==
    ASSUME NEW N \in Nat \ {0}, NEW x \in Int, NEW q \in Int, NEW r \in 0 .. N - 1,
           x = N * q + r
    PROVE  x % N = r
  BY SMT

(* Two multiples of N are N apart. *)
LEMMA MultiplesApart ==
    ASSUME NEW N \in Nat \ {0}, NEW a \in Int, NEW b \in Int, a < b
    PROVE  N * b - N * a >= N
<1>1. N * (b - a) >= N
  BY SMT
<1>2. N * (b - a) = N * b - N * a
  BY SMT
<1> QED
  BY <1>1, <1>2

(* Masking after each increment is masking once: head and tail may run     *)
(* round the ring for ever.                                                *)
LEMMA NextSlot ==
    ASSUME NEW N \in Nat \ {0}, NEW n \in Nat
    PROVE  ((n % N) + 1) % N = (n + 1) % N
<1> DEFINE q == n \div N
           r == n % N
<1>1. n = N * q + r /\ q \in Nat /\ r \in 0 .. N - 1
  BY DivMod
<1> HIDE DEF q, r
<1>2. CASE r + 1 < N
  <2>1. (r + 1) % N = r + 1
    BY <1>1, <1>2
  <2>2. (n + 1) % N = r + 1
    BY <1>1, <1>2, ModIsUnique
  <2> QED
    BY <2>1, <2>2 DEF r
<1>3. CASE r + 1 = N
  <2>1. (r + 1) % N = 0
    BY <1>1, <1>3
  <2>2. n + 1 = N * (q + 1) + 0
    BY <1>1, <1>3
  <2>3. q + 1 \in Int /\ 0 \in 0 .. N - 1 /\ n + 1 \in Int
    BY <1>1
  <2>4. (n + 1) % N = 0
    BY <2>2, <2>3, ModIsUnique
  <2> QED
    BY <2>1, <2>4 DEF r
<1> QED
  BY <1>1, <1>2, <1>3

(* Fewer than N consecutive positions lie in different slots. *)
LEMMA SlotsDiffer ==
    ASSUME NEW N \in Nat \ {0}, NEW i \in Nat, NEW j \in Nat, i < j, j - i < N
    PROVE  i % N # j % N
<1> DEFINE a == i \div N
           b == j \div N
<1>1. /\ i = N * a + (i % N) /\ a \in Nat /\ i % N \in 0 .. N - 1
      /\ j = N * b + (j % N) /\ b \in Nat /\ j % N \in 0 .. N - 1
  BY DivMod
<1> HIDE DEF a, b
<1> SUFFICES ASSUME i % N = j % N PROVE FALSE
  OBVIOUS
<1>2. N * a \in Int /\ N * b \in Int
  BY <1>1
<1>3. N * b - N * a = j - i
  BY <1>1, <1>2
<1>4. CASE a < b
  BY <1>1, <1>3, <1>4, MultiplesApart
<1>5. CASE b < a
  <2>1. N * a - N * b >= N
    BY <1>1, <1>5, MultiplesApart
  <2> QED
    BY <1>2, <1>3, <2>1
<1>6. CASE a = b
  BY <1>1, <1>3, <1>6
<1> QED
  BY <1>1, <1>4, <1>5, <1>6

(* What is assumed of the sizes and of the routing, without the power of   *)
(* two.                                                                    *)
LEMMA Sizes ==
    /\ NUM_BUFFER_QUEUES \in Nat \ {0}
    /\ BUFF_QUEUE_SIZE \in Nat \ {0}
    /\ Route \in [Key -> Int]
    /\ MaxChunks \in Nat
    /\ Garbage \notin Key
  BY QueueAssumption DEF QueueAssumption

-----------------------------------------------------------------------------
(* The semaphores never let a ring hold fewer than no or more than all of  *)
(* its slots: a consumer that reads has a chunk, a producer that writes    *)
(* has a free slot.                                                        *)
LEMMA RingBounds ==
    ASSUME QueueInv, NEW q \in Queue
    PROVE  /\ taken[q] \in Nat /\ Len(sent[q]) \in Nat
           /\ taken[q] <= Len(sent[q])
           /\ Len(sent[q]) - taken[q] <= BUFF_QUEUE_SIZE
           /\ cpc[q] \in {"key", "data", "head"} => taken[q] < Len(sent[q])
           /\ pc \in {"data", "key", "tail"} /\ bq = q
                 => Len(sent[q]) - taken[q] < BUFF_QUEUE_SIZE
           /\ head[q] \in Slot /\ tail[q] \in Slot
<1>1. /\ full[q] \in 0 .. BUFF_QUEUE_SIZE /\ empty[q] \in 0 .. BUFF_QUEUE_SIZE
      /\ taken[q] \in Nat /\ Len(sent[q]) \in Nat
      /\ head[q] \in Slot /\ tail[q] \in Slot
  BY DEF QueueInv, TypeOK
<1>2. Semaphores(q)
  BY DEF QueueInv, RingInv
<1> DEFINE n == Len(sent[q]) - taken[q]
           a == One(pc = "post" /\ bq = q)
           b == One(cpc[q] \in {"key", "data", "head"})
           c == One(pc \in {"data", "key", "tail"} /\ bq = q)
           d == One(cpc[q] = "post")
<1>3. /\ a \in Int /\ 0 <= a /\ b \in Int /\ 0 <= b
      /\ c \in Int /\ 0 <= c /\ d \in Int /\ 0 <= d
  BY DEF One
<1>4. /\ cpc[q] \in {"key", "data", "head"} => b = 1
      /\ pc \in {"data", "key", "tail"} /\ bq = q => c = 1
  BY DEF One
<1>5. full[q] = n - a - b /\ empty[q] = BUFF_QUEUE_SIZE - n - c - d
  BY <1>2 DEF Semaphores, InRing
<1>6. /\ full[q] \in Int /\ 0 <= full[q] /\ empty[q] \in Int /\ 0 <= empty[q]
      /\ n \in Int /\ BUFF_QUEUE_SIZE \in Int
  BY <1>1, Sizes
<1> HIDE DEF n, a, b, c, d
<1>7. 0 <= n /\ b <= n /\ n + c <= BUFF_QUEUE_SIZE
  BY <1>3, <1>5, <1>6
<1> QED
  BY <1>1, <1>3, <1>4, <1>6, <1>7, SMTT(60) DEF n

(* The rings start empty. *)
LEMMA QueueInit == Init => QueueInv
<1> SUFFICES ASSUME Init PROVE QueueInv
  OBVIOUS
<1>1. TypeOK
  <2>1. /\ started \in 0 .. NUM_BUFFER_QUEUES /\ reads \in 0 .. MaxChunks
        /\ 0 \in Slot /\ 0 \in 0 .. BUFF_QUEUE_SIZE
        /\ BUFF_QUEUE_SIZE \in 0 .. BUFF_QUEUE_SIZE
    BY Sizes DEF Init, Slot
  <2>2. <<>> \in Seq(Key) /\ <<>> \in Seq(Chunk)
    OBVIOUS
  <2> QED
    BY <2>1, <2>2 DEF Init, TypeOK
<1>2. Starting /\ ChunkInHand
  BY Sizes DEF Init, Starting, ChunkInHand, Queue
<1>3. ASSUME NEW q \in Queue PROVE RingInv(q)
  <2>1. 0 % BUFF_QUEUE_SIZE = 0
    BY Sizes
  <2>2. Semaphores(q)
    BY <1>3, Sizes DEF Init, Semaphores, InRing, One
  <2>3. Positions(q) /\ Contents(q) /\ Incoming(q) /\ Outgoing(q) /\ Stored(q)
    BY <1>3, <2>1, Sizes
    DEF Init, Positions, Contents, Incoming, Outgoing, Stored, One
  <2> QED
    BY <2>2, <2>3 DEF RingInv
<1> QED
  BY <1>1, <1>2, <1>3 DEF QueueInv

-----------------------------------------------------------------------------
(* A step leaves ring q alone: nothing of it changes, and neither does the *)
(* part the producer is in as far as this ring is concerned.               *)
LeavesAlone(q) ==
    /\ head'[q] = head[q] /\ tail'[q] = tail[q]
    /\ empty'[q] = empty[q] /\ full'[q] = full[q]
    /\ hk'[q] = hk[q] /\ cd'[q] = cd[q]
    /\ sent'[q] = sent[q] /\ taken'[q] = taken[q] /\ put'[q] = put[q]
    /\ cpc'[q] = cpc[q] /\ ckey'[q] = ckey[q] /\ cdata'[q] = cdata[q]
    /\ \A p \in {"data", "key", "tail", "post"} :
          (pc' = p /\ bq' = q) <=> (pc = p /\ bq = q)
    /\ pc \in {"key", "tail"} /\ bq = q => chunk' = chunk

(* What a step leaves alone keeps its invariant. *)
LEMMA RingFrame ==
    ASSUME NEW q \in Queue, RingInv(q), LeavesAlone(q)
    PROVE  RingInv(q)'
<1>1. /\ (pc' = "post" /\ bq' = q) <=> (pc = "post" /\ bq = q)
      /\ (pc' = "tail" /\ bq' = q) <=> (pc = "tail" /\ bq = q)
      /\ (pc' = "key" /\ bq' = q) <=> (pc = "key" /\ bq = q)
      /\ (pc' \in {"data", "key", "tail"} /\ bq' = q)
            <=> (pc \in {"data", "key", "tail"} /\ bq = q)
  BY DEF LeavesAlone
<1>2. Semaphores(q)'
  BY <1>1 DEF RingInv, LeavesAlone, Semaphores, InRing, One
<1>3. Positions(q)' /\ Contents(q)'
  BY DEF RingInv, LeavesAlone, Positions, Contents
<1>4. Incoming(q)'
  BY <1>1 DEF RingInv, LeavesAlone, Incoming
<1>5. Outgoing(q)' /\ Stored(q)'
  BY DEF RingInv, LeavesAlone, Outgoing, Stored, One
<1> QED
  BY <1>2, <1>3, <1>4, <1>5 DEF RingInv

(* thread_io_start touches no ring. *)
LEMMA MainKeeps == QueueInv /\ Main => QueueInv'
<1> SUFFICES ASSUME QueueInv, Main PROVE QueueInv'
  OBVIOUS
<1> USE Sizes
<1>1. TypeOK
  BY DEF QueueInv
<1>2. CASE StartProducer
  <2>1. TypeOK' /\ Starting' /\ ChunkInHand'
    BY <1>1, <1>2
    DEF QueueInv, StartProducer, TypeOK, Starting, ChunkInHand, bq,
        consumer, ring, ghosts
  <2>2. ASSUME NEW q \in Queue PROVE RingInv(q)'
    <3>1. pc = "none" /\ pc' = "read"
      BY <1>2 DEF QueueInv, Starting, StartProducer
    <3>2. LeavesAlone(q)
      BY <1>2, <3>1 DEF LeavesAlone, StartProducer, consumer, ring, ghosts
    <3> QED
      BY <2>2, <3>2, RingFrame DEF QueueInv
  <2> QED
    BY <2>1, <2>2 DEF QueueInv
<1>3. CASE StartProducerFails \/ StartConsumerFails
  <2>1. TypeOK' /\ Starting' /\ ChunkInHand'
    BY <1>1, <1>3, ZenonT(60)
    DEF QueueInv, StartProducerFails, StartConsumerFails, TypeOK, Starting,
        ChunkInHand, bq, producer, consumer, ring, ghosts
  <2>2. ASSUME NEW q \in Queue PROVE RingInv(q)'
    <3>1. LeavesAlone(q)
      BY <1>3 DEF LeavesAlone, StartProducerFails, StartConsumerFails, bq,
                  producer, consumer, ring, ghosts
    <3> QED
      BY <2>2, <3>1, RingFrame DEF QueueInv
  <2> QED
    BY <2>1, <2>2 DEF QueueInv
<1>4. CASE StartConsumer
  <2>1. started \in Queue /\ cpc[started] = "none"
    BY <1>1, <1>4 DEF QueueInv, StartConsumer, TypeOK, Starting, Queue
  <2>2. TypeOK'
    <3>1. started' \in 0 .. NUM_BUFFER_QUEUES
      BY <1>4, <2>1 DEF StartConsumer, Queue
    <3>2. main' \in {"producer", "consumers", "ok", "failed"} /\ consumer_running' \in BOOLEAN
      BY <1>4 DEF StartConsumer
    <3>3. cpc' \in [Queue -> {"none", "start", "wait", "key", "data", "head", "post", "put", "done"}]
      BY <1>1, <1>4 DEF StartConsumer, TypeOK
    <3> QED
      BY <1>1, <1>4, <3>1, <3>2, <3>3
      DEF StartConsumer, TypeOK, producer, ring, ghosts
  <2>3. Starting' /\ ChunkInHand'
    BY <1>1, <1>4, <2>1, SMTT(60)
    DEF QueueInv, StartConsumer, TypeOK, Starting, ChunkInHand, bq, Queue,
        producer, ring, ghosts
  <2>4. ASSUME NEW q \in Queue PROVE RingInv(q)'
    <3>1. CASE q # started
      <4>1. LeavesAlone(q)
        BY <1>1, <1>4, <2>1, <3>1
        DEF LeavesAlone, StartConsumer, TypeOK, bq, producer, ring, ghosts
      <4> QED
        BY <2>4, <4>1, RingFrame DEF QueueInv
    <3>2. CASE q = started
      <4>1. cpc[q] = "none" /\ cpc'[q] = "start"
        BY <1>1, <1>4, <2>1, <3>2 DEF StartConsumer, TypeOK
      <4>2. RingInv(q)
        BY <2>4 DEF QueueInv
      <4>3. UNCHANGED <<producer, ckey, cdata, ring, ghosts>>
        BY <1>4 DEF StartConsumer
      <4> QED
        BY <4>1, <4>2, <4>3
        DEF RingInv, Semaphores, InRing, One, Positions, Contents, Incoming,
            Outgoing, Stored, bq, producer, ring, ghosts
    <3> QED
      BY <3>1, <3>2
  <2> QED
    BY <2>2, <2>3, <2>4 DEF QueueInv
<1> QED
  BY <1>2, <1>3, <1>4 DEF Main

-----------------------------------------------------------------------------
(* The producer reads a chunk, or finds the end: no ring changes.          *)
LEMMA ReadKeeps == QueueInv /\ (ReadChunk \/ EndOfInput) => QueueInv'
<1> SUFFICES ASSUME QueueInv, ReadChunk \/ EndOfInput PROVE QueueInv'
  OBVIOUS
<1>1. TypeOK
  BY DEF QueueInv
<1>2. TypeOK'
  <2>1. /\ reads' \in 0 .. MaxChunks /\ chunk' \in Key \cup {Garbage}
        /\ over' \in BOOLEAN /\ pc' \in {"wait", "wild", "done"}
        /\ UNCHANGED <<producer_running, consumer_running>>
    <3>1. CASE ReadChunk
      <4>1. reads \in Nat /\ reads < MaxChunks /\ reads' = reads + 1
        BY <1>1, <3>1 DEF ReadChunk, TypeOK
      <4>2. reads' \in 0 .. MaxChunks
        BY <4>1, Sizes
      <4> QED
        BY <1>1, <3>1, <4>2 DEF ReadChunk, TypeOK, flags
    <3>2. CASE EndOfInput
      BY <1>1, <3>2 DEF EndOfInput, TypeOK
    <3> QED
      BY <3>1, <3>2
  <2> QED
    BY <1>1, <2>1 DEF ReadChunk, EndOfInput, TypeOK, consumer, ring, ghosts
<1>3. Starting' /\ ChunkInHand'
  BY DEF QueueInv, ReadChunk, EndOfInput, Starting, ChunkInHand, bq, flags,
         consumer, ring, ghosts
<1>4. ASSUME NEW q \in Queue PROVE RingInv(q)'
  <2>1. LeavesAlone(q)
    BY DEF LeavesAlone, ReadChunk, EndOfInput, consumer, ring, ghosts
  <2> QED
    BY <1>4, <2>1, RingFrame DEF QueueInv
<1> QED
  BY <1>2, <1>3, <1>4 DEF QueueInv

(* The producer takes a free slot. *)
LEMMA WaitEmptyKeeps == QueueInv /\ WaitEmpty => QueueInv'
<1> SUFFICES ASSUME QueueInv, WaitEmpty PROVE QueueInv'
  OBVIOUS
<1>1. TypeOK /\ bq \in Queue /\ bq' = bq
  BY DEF QueueInv, ChunkInHand, WaitEmpty, bq
<1>2. empty'[bq] = empty[bq] - 1 /\ empty[bq] - 1 \in 0 .. BUFF_QUEUE_SIZE
  BY <1>1, Sizes DEF WaitEmpty, TypeOK
<1>3. TypeOK'
  BY <1>1, <1>2 DEF WaitEmpty, TypeOK, flags, consumer, ghosts
<1>4. Starting' /\ ChunkInHand'
  BY <1>1 DEF QueueInv, WaitEmpty, Starting, ChunkInHand, flags, consumer, ghosts
<1>5. ASSUME NEW q \in Queue PROVE RingInv(q)'
  <2>1. CASE q # bq
    <3>1. LeavesAlone(q)
      BY <1>1, <2>1 DEF LeavesAlone, WaitEmpty, TypeOK, consumer, ghosts
    <3> QED
      BY <1>5, <3>1, RingFrame DEF QueueInv
  <2>2. CASE q = bq
    <3>1. RingInv(q) /\ pc = "wait" /\ pc' = "data"
      BY <1>5 DEF QueueInv, WaitEmpty
    <3>2. Semaphores(q)'
      BY <1>1, <1>2, <2>2, <3>1, Sizes, SMTT(60)
      DEF TypeOK, WaitEmpty, RingInv, Semaphores, InRing, One, consumer, ghosts
    <3>3. /\ Positions(q)' /\ Contents(q)' /\ Incoming(q)'
          /\ Outgoing(q)' /\ Stored(q)'
      BY <3>1 DEF WaitEmpty, RingInv, Positions, Contents, Incoming, Outgoing,
                  Stored, One, consumer, ghosts
    <3> QED
      BY <3>2, <3>3 DEF RingInv
  <2> QED
    BY <2>1, <2>2
<1> QED
  BY <1>3, <1>4, <1>5 DEF QueueInv

(* The producer writes a slot that holds nothing that is still to be       *)
(* taken.                                                                  *)
LEMMA FreeSlot ==
    ASSUME QueueInv, pc \in {"data", "key"}, NEW i \in taken[bq] .. Len(sent[bq]) - 1
    PROVE  i % BUFF_QUEUE_SIZE # tail[bq]
<1>1. bq \in Queue
  BY DEF QueueInv, ChunkInHand
<1>2. PICK n \in Nat, t \in Nat : /\ n = Len(sent[bq]) /\ t = taken[bq]
                                 /\ n - t < BUFF_QUEUE_SIZE
  BY <1>1, RingBounds
<1>3. i \in Nat /\ i < n /\ n - i < BUFF_QUEUE_SIZE
  BY <1>2, Sizes
<1>4. tail[bq] = n % BUFF_QUEUE_SIZE
  BY <1>1, <1>2 DEF QueueInv, RingInv, Positions
<1> QED
  BY <1>2, <1>3, <1>4, SlotsDiffer, Sizes

LEMMA CopyInKeeps == QueueInv /\ (CopyDataIn \/ CopyKeyIn) => QueueInv'
<1> SUFFICES ASSUME QueueInv, CopyDataIn \/ CopyKeyIn PROVE QueueInv'
  OBVIOUS
<1>1. /\ TypeOK /\ bq \in Queue /\ bq' = bq
      /\ chunk \in Key /\ tail[bq] \in Slot
  BY DEF QueueInv, ChunkInHand, CopyDataIn, CopyKeyIn, bq, TypeOK
<1>2. TypeOK'
  <2>1. CASE CopyDataIn
    <3>1. cd' \in [Queue -> [Slot -> Key \cup {Garbage}]]
      BY <1>1, <2>1 DEF CopyDataIn, TypeOK
    <3> QED
      BY <1>1, <2>1, <3>1 DEF CopyDataIn, TypeOK, flags, consumer, ghosts
  <2>2. CASE CopyKeyIn
    <3>1. hk' \in [Queue -> [Slot -> Key \cup {Garbage}]]
      BY <1>1, <2>2 DEF CopyKeyIn, TypeOK
    <3> QED
      BY <1>1, <2>2, <3>1 DEF CopyKeyIn, TypeOK, flags, consumer, ghosts
  <2> QED
    BY <2>1, <2>2
<1>3. Starting' /\ ChunkInHand'
  BY <1>1 DEF QueueInv, CopyDataIn, CopyKeyIn, Starting, ChunkInHand, flags,
              consumer, ghosts
<1>4. ASSUME NEW q \in Queue PROVE RingInv(q)'
  <2>1. CASE q # bq
    <3>1. LeavesAlone(q)
      BY <1>1, <2>1
      DEF LeavesAlone, CopyDataIn, CopyKeyIn, TypeOK, consumer, ghosts
    <3> QED
      BY <1>4, <3>1, RingFrame DEF QueueInv
  <2>2. CASE q = bq
    <3>1. RingInv(q)
      BY <1>4 DEF QueueInv
    <3>2. Semaphores(q)'
      BY <1>1, <2>2, <3>1
      DEF CopyDataIn, CopyKeyIn, RingInv, Semaphores, InRing, One, consumer, ghosts
    <3>3. Positions(q)' /\ Outgoing(q)' /\ Stored(q)'
      BY <3>1 DEF CopyDataIn, CopyKeyIn, RingInv, Positions, Outgoing, Stored,
                  One, consumer, ghosts
    <3>4. /\ hk'[q] = IF pc = "key" THEN [hk[q] EXCEPT ![tail[q]] = chunk] ELSE hk[q]
          /\ cd'[q] = IF pc = "data" THEN [cd[q] EXCEPT ![tail[q]] = chunk] ELSE cd[q]
          /\ hk[q] \in [Slot -> Key \cup {Garbage}]
          /\ cd[q] \in [Slot -> Key \cup {Garbage}]
          /\ tail' = tail /\ chunk' = chunk /\ sent' = sent /\ taken' = taken
      BY <1>1, <2>2 DEF CopyDataIn, CopyKeyIn, TypeOK, consumer, ghosts
    <3>5. Contents(q)'
      <4>1. SUFFICES ASSUME NEW i \in taken[q] .. Len(sent[q]) - 1
                     PROVE  /\ hk'[q][i % BUFF_QUEUE_SIZE] = sent[q][i + 1]
                            /\ cd'[q][i % BUFF_QUEUE_SIZE] = sent[q][i + 1]
        BY <3>4 DEF Contents
      <4>2. i % BUFF_QUEUE_SIZE # tail[q]
        BY <2>2, FreeSlot DEF CopyDataIn, CopyKeyIn
      <4>3. i % BUFF_QUEUE_SIZE \in Slot
        <5>1. taken[q] \in Nat /\ Len(sent[q]) \in Nat
          BY <1>4, RingBounds
        <5>2. i \in Nat
          BY <5>1
        <5> QED
          BY <5>2, DivMod, Sizes DEF Slot
      <4> QED
        BY <3>1, <3>4, <4>2, <4>3 DEF RingInv, Contents
    <3>6. Incoming(q)'
      BY <1>1, <2>2, <3>1, <3>4
      DEF CopyDataIn, CopyKeyIn, RingInv, Incoming
    <3> QED
      BY <3>2, <3>3, <3>5, <3>6 DEF RingInv
  <2> QED
    BY <2>1, <2>2
<1> QED
  BY <1>2, <1>3, <1>4 DEF QueueInv

(* The producer moves tail past what it wrote: one more chunk is sent.     *)
LEMMA AdvanceTailKeeps == QueueInv /\ AdvanceTail => QueueInv'
<1> SUFFICES ASSUME QueueInv, AdvanceTail PROVE QueueInv'
  OBVIOUS
<1>1. /\ TypeOK /\ bq \in Queue /\ bq' = bq /\ chunk \in Key
      /\ pc = "tail" /\ pc' = "post"
  BY DEF QueueInv, ChunkInHand, AdvanceTail, bq
<1>2. /\ sent[bq] \in Seq(Key) /\ sent'[bq] = Append(sent[bq], chunk)
      /\ tail'[bq] = (tail[bq] + 1) % BUFF_QUEUE_SIZE
      /\ tail[bq] = Len(sent[bq]) % BUFF_QUEUE_SIZE
  BY <1>1 DEF QueueInv, RingInv, Positions, AdvanceTail, TypeOK
<1>3. tail'[bq] = (Len(sent[bq]) + 1) % BUFF_QUEUE_SIZE
  <2>1. PICK n \in Nat : n = Len(sent[bq])
    BY <1>2
  <2>2. ((n % BUFF_QUEUE_SIZE) + 1) % BUFF_QUEUE_SIZE = (n + 1) % BUFF_QUEUE_SIZE
    BY NextSlot, Sizes
  <2> QED
    BY <1>2, <2>1, <2>2
<1>4. tail'[bq] \in Slot
  <2>1. PICK n \in Nat : n = Len(sent[bq]) + 1
    BY <1>2
  <2>2. n % BUFF_QUEUE_SIZE \in 0 .. BUFF_QUEUE_SIZE - 1
    BY DivMod, Sizes
  <2> QED
    BY <1>3, <2>1, <2>2 DEF Slot
<1>5. TypeOK'
  <2>1. tail' \in [Queue -> Slot] /\ sent' \in [Queue -> Seq(Key)]
    BY <1>1, <1>2, <1>4 DEF AdvanceTail, TypeOK
  <2> QED
    BY <1>1, <2>1 DEF AdvanceTail, TypeOK, flags, consumer
<1>6. Starting' /\ ChunkInHand'
  BY <1>1 DEF QueueInv, AdvanceTail, Starting, ChunkInHand, flags, consumer
<1>7. ASSUME NEW q \in Queue PROVE RingInv(q)'
  <2>1. CASE q # bq
    <3>1. LeavesAlone(q)
      BY <1>1, <2>1 DEF LeavesAlone, AdvanceTail, TypeOK, consumer
    <3> QED
      BY <1>7, <3>1, RingFrame DEF QueueInv
  <2>2. CASE q = bq
    <3>1. RingInv(q)
      BY <1>7 DEF QueueInv
    <3>2. /\ Len(sent'[q]) = Len(sent[q]) + 1
          /\ sent'[q][Len(sent[q]) + 1] = chunk
          /\ \A i \in 1 .. Len(sent[q]) : sent'[q][i] = sent[q][i]
          /\ Len(sent[q]) \in Nat /\ taken[q] \in Nat /\ taken[q] <= Len(sent[q])
          /\ UNCHANGED <<head, empty, full, hk, cd, taken, put, consumer>>
      BY <1>2, <1>7, <2>2, RingBounds DEF AdvanceTail
    <3>3. Semaphores(q)'
      BY <1>1, <2>2, <3>1, <3>2, Sizes, SMTT(60)
      DEF TypeOK, RingInv, Semaphores, InRing, One, consumer
    <3>4. Positions(q)'
      BY <1>3, <2>2, <3>1, <3>2 DEF RingInv, Positions
    <3>5. Contents(q)'
      <4>1. SUFFICES ASSUME NEW i \in taken[q] .. Len(sent[q])
                     PROVE  /\ hk[q][i % BUFF_QUEUE_SIZE] = sent'[q][i + 1]
                            /\ cd[q][i % BUFF_QUEUE_SIZE] = sent'[q][i + 1]
        BY <3>2 DEF Contents
      <4>2. CASE i = Len(sent[q])
        BY <1>1, <1>2, <2>2, <3>1, <3>2, <4>2 DEF RingInv, Incoming
      <4>3. CASE i < Len(sent[q])
        <5>1. i \in taken[q] .. Len(sent[q]) - 1 /\ i + 1 \in 1 .. Len(sent[q])
          BY <3>2, <4>3
        <5> QED
          BY <3>1, <3>2, <5>1 DEF RingInv, Contents
      <4> QED
        BY <3>2, <4>2, <4>3
    <3>6. Incoming(q)'
      BY <1>1 DEF Incoming
    <3>7. Outgoing(q)'
      <4>1. cpc[q] \in {"data", "head"} => taken[q] + 1 \in 1 .. Len(sent[q])
        BY <1>7, <3>2, RingBounds
      <4>2. taken[q] > 0 => taken[q] \in 1 .. Len(sent[q])
        BY <3>2
      <4> QED
        BY <3>1, <3>2, <4>1, <4>2 DEF RingInv, Outgoing, consumer
    <3>8. Stored(q)'
      <4>1. \A i \in 1 .. Len(put[q]) : i \in 1 .. Len(sent[q])
        <5>1. Len(put[q]) \in Nat /\ Len(put[q]) <= taken[q]
          BY <1>1, <1>7, <3>1, <3>2, SMTT(60) DEF RingInv, Stored, One, TypeOK
        <5> QED
          BY <3>2, <5>1
      <4> QED
        BY <3>1, <3>2, <4>1 DEF RingInv, Stored, One, consumer
    <3> QED
      BY <3>3, <3>4, <3>5, <3>6, <3>7, <3>8 DEF RingInv
  <2> QED
    BY <2>1, <2>2
<1> QED
  BY <1>5, <1>6, <1>7 DEF QueueInv

(* The producer tells the consumer. *)
LEMMA PostFullKeeps == QueueInv /\ PostFull => QueueInv'
<1> SUFFICES ASSUME QueueInv, PostFull PROVE QueueInv'
  OBVIOUS
<1>1. /\ TypeOK /\ bq \in Queue /\ bq' = bq
      /\ pc = "post" /\ pc' = "read"
  BY DEF QueueInv, ChunkInHand, PostFull, bq
<1>2. /\ full'[bq] = full[bq] + 1 /\ full[bq] \in Nat
      /\ full[bq] + 1 \in 0 .. BUFF_QUEUE_SIZE
  <2>1. full'[bq] = full[bq] + 1 /\ full[bq] \in Nat
    BY <1>1, Sizes DEF PostFull, TypeOK
  <2>2. Semaphores(bq)
    BY <1>1 DEF QueueInv, RingInv
  <2>3. Len(sent[bq]) - taken[bq] \in Int /\ Len(sent[bq]) - taken[bq] <= BUFF_QUEUE_SIZE
    BY <1>1, RingBounds
  <2>4. full[bq] <= Len(sent[bq]) - taken[bq] - 1
    BY <1>1, <2>2, <2>3 DEF Semaphores, InRing, One
  <2> QED
    BY <2>1, <2>3, <2>4, Sizes
<1>3. TypeOK'
  <2>1. full' \in [Queue -> 0 .. BUFF_QUEUE_SIZE]
    BY <1>1, <1>2 DEF PostFull, TypeOK
  <2> QED
    BY <1>1, <2>1 DEF PostFull, TypeOK, flags, consumer, ghosts
<1>4. Starting' /\ ChunkInHand'
  BY <1>1 DEF QueueInv, PostFull, Starting, ChunkInHand, flags, consumer, ghosts
<1>5. ASSUME NEW q \in Queue PROVE RingInv(q)'
  <2>1. CASE q # bq
    <3>1. LeavesAlone(q)
      BY <1>1, <2>1 DEF LeavesAlone, PostFull, TypeOK, consumer, ghosts
    <3> QED
      BY <1>5, <3>1, RingFrame DEF QueueInv
  <2>2. CASE q = bq
    <3>1. RingInv(q)
      BY <1>5 DEF QueueInv
    <3>2. Semaphores(q)'
      <4>1. /\ UNCHANGED <<empty, sent, taken, cpc>>
            /\ Len(sent[q]) \in Nat /\ taken[q] \in Nat
        BY <1>1, <1>5, RingBounds DEF PostFull, consumer, ghosts
      <4>2. full[q] = Len(sent[q]) - taken[q] - 1 - One(cpc[q] \in {"key", "data", "head"})
        BY <1>1, <2>2, <3>1 DEF RingInv, Semaphores, InRing, One
      <4> DEFINE b == One(cpc[q] \in {"key", "data", "head"})
      <4>3. b \in Int
        BY DEF One
      <4> HIDE DEF b
      <4>4. full'[q] = Len(sent[q]) - taken[q] - b
        BY <1>2, <2>2, <4>1, <4>2, <4>3 DEF b
      <4>5. full'[q] = Len(sent[q]) - taken[q] - 0 - b
        BY <4>1, <4>3, <4>4
      <4> QED
        BY <1>1, <2>2, <3>1, <4>1, <4>5 DEF b, RingInv, Semaphores, InRing, One
    <3>3. /\ Positions(q)' /\ Contents(q)' /\ Incoming(q)'
          /\ Outgoing(q)' /\ Stored(q)'
      BY <1>1, <3>1 DEF PostFull, RingInv, Positions, Contents, Incoming,
                        Outgoing, Stored, One, consumer, ghosts
    <3> QED
      BY <3>2, <3>3 DEF RingInv
  <2> QED
    BY <2>1, <2>2
<1> QED
  BY <1>3, <1>4, <1>5 DEF QueueInv

-----------------------------------------------------------------------------
(* A step of the consumer of ring q leaves the other rings alone, and of   *)
(* the rest of the state only what belongs to its own ring changes.        *)
LEMMA OtherRings ==
    ASSUME QueueInv, NEW q \in Queue, Consumer(q),
           NEW r \in Queue, r # q
    PROVE  RingInv(r)'
<1>1. LeavesAlone(r)
  BY SMTT(60) DEF QueueInv, TypeOK, LeavesAlone, Consumer, Begin, WaitFull, CopyKeyOut, CopyDataOut,
         AdvanceHead, PostEmpty, PutNewChunk, bq, producer, ring, ghosts
<1> QED
  BY <1>1, RingFrame DEF QueueInv

(* Nothing but ring q needs a look at a step of its consumer.              *)
LEMMA ConsumerFrame ==
    ASSUME QueueInv, NEW q \in Queue, Consumer(q), TypeOK', RingInv(q)'
    PROVE  QueueInv'
<1>1. UNCHANGED <<main, started, pc, chunk, bq>>
  BY DEF Consumer, Begin, WaitFull, CopyKeyOut, CopyDataOut, AdvanceHead, PostEmpty,
         PutNewChunk, producer, bq
<1>2. cpc[q] # "none" /\ \E c : cpc' = [cpc EXCEPT ![q] = c]
  BY DEF Consumer, Begin, WaitFull, CopyKeyOut, CopyDataOut, AdvanceHead, PostEmpty,
         PutNewChunk
<1>3. Starting'
  BY <1>1, <1>2 DEF QueueInv, TypeOK, Starting
<1>4. ChunkInHand'
  BY <1>1 DEF QueueInv, ChunkInHand
<1>5. ASSUME NEW r \in Queue PROVE RingInv(r)'
  BY <1>5, OtherRings
<1> QED
  BY <1>3, <1>4, <1>5 DEF QueueInv

(* The consumer begins, and has nothing yet. *)
LEMMA BeginKeeps ==
    ASSUME QueueInv, NEW q \in Queue, Begin(q) PROVE QueueInv'
<1>1. /\ TypeOK /\ RingInv(q) /\ cpc[q] = "start" /\ cpc'[q] \in {"wait", "done"}
      /\ \E c \in {"wait", "done"} : cpc' = [cpc EXCEPT ![q] = c]
      /\ UNCHANGED <<main, started, flags, producer, bq, ckey, cdata, ring, ghosts>>
  BY DEF QueueInv, Begin, TypeOK, bq, producer
<1>2. TypeOK'
  BY <1>1 DEF TypeOK, flags, producer, ring, ghosts
<1>3. RingInv(q)'
  BY <1>1 DEF RingInv, Semaphores, InRing, One, Positions, Contents, Incoming,
              Outgoing, Stored, producer, ring, ghosts
<1> QED
  BY <1>2, <1>3, ConsumerFrame DEF Consumer

(* The consumer takes a chunk that was announced. *)
LEMMA WaitFullKeeps ==
    ASSUME QueueInv, NEW q \in Queue, WaitFull(q) PROVE QueueInv'
<1>1. /\ TypeOK /\ RingInv(q)
      /\ cpc[q] = "wait" /\ cpc' = [cpc EXCEPT ![q] = "key"] /\ cpc'[q] = "key"
  BY DEF QueueInv, WaitFull, TypeOK
<1>2. full'[q] = full[q] - 1 /\ full[q] - 1 \in 0 .. BUFF_QUEUE_SIZE
  BY <1>1, Sizes DEF WaitFull, TypeOK
<1>3. TypeOK'
  <2>1. full' \in [Queue -> 0 .. BUFF_QUEUE_SIZE]
    BY <1>1, <1>2 DEF WaitFull, TypeOK
  <2> QED
    BY <1>1, <2>1 DEF WaitFull, TypeOK, flags, producer, ghosts
<1>4. Semaphores(q)'
  <2>1. /\ UNCHANGED <<empty, sent, taken, pc, bq>>
        /\ Len(sent[q]) \in Nat /\ taken[q] \in Nat
    BY RingBounds DEF WaitFull, producer, ghosts, bq
  <2> DEFINE a == One(pc = "post" /\ bq = q)
  <2>2. a \in Int
    BY DEF One
  <2>3. full[q] = Len(sent[q]) - taken[q] - a - 0
    BY <1>1 DEF RingInv, Semaphores, InRing, One
  <2> HIDE DEF a
  <2>4. full'[q] = Len(sent[q]) - taken[q] - a - 1
    BY <1>2, <2>1, <2>2, <2>3
  <2> QED
    BY <1>1, <2>1, <2>4 DEF a, RingInv, Semaphores, InRing, One
<1>5. /\ Positions(q)' /\ Contents(q)' /\ Incoming(q)' /\ Outgoing(q)' /\ Stored(q)'
  BY <1>1 DEF WaitFull, RingInv, Positions, Contents, Incoming, Outgoing, Stored,
              One, bq, producer, ghosts
<1> QED
  BY <1>3, <1>4, <1>5, ConsumerFrame DEF Consumer, RingInv

(* The consumer copies the oldest chunk of its ring. *)
LEMMA CopyOutKeeps ==
    ASSUME QueueInv, NEW q \in Queue, CopyKeyOut(q) \/ CopyDataOut(q) PROVE QueueInv'
<1>1. /\ TypeOK /\ RingInv(q) /\ head[q] \in Slot
      /\ cpc[q] \in {"key", "data"}
      /\ cpc' = [cpc EXCEPT ![q] = IF cpc[q] = "key" THEN "data" ELSE "head"]
  BY DEF QueueInv, CopyKeyOut, CopyDataOut, TypeOK
<1>2. TypeOK'
  <2>1. hk[q][head[q]] \in Key \cup {Garbage} /\ cd[q][head[q]] \in Key \cup {Garbage}
    BY <1>1 DEF TypeOK
  <2>2. /\ ckey' \in [Queue -> Key \cup {Garbage}]
        /\ cdata' \in [Queue -> Key \cup {Garbage}]
    BY <1>1, <2>1 DEF CopyKeyOut, CopyDataOut, TypeOK
  <2> QED
    BY <1>1, <2>2, SMTT(60) DEF CopyKeyOut, CopyDataOut, TypeOK, flags, producer, ring, ghosts
<1>3. /\ hk[q][head[q]] = sent[q][taken[q] + 1]
      /\ cd[q][head[q]] = sent[q][taken[q] + 1]
  <2>1. taken[q] \in taken[q] .. Len(sent[q]) - 1
    BY <1>1, RingBounds
  <2> QED
    BY <1>1, <2>1 DEF RingInv, Contents, Positions
<1>4. Semaphores(q)' /\ Positions(q)' /\ Contents(q)' /\ Incoming(q)' /\ Stored(q)'
  BY <1>1, ZenonT(60) DEF CopyKeyOut, CopyDataOut, TypeOK, RingInv, Semaphores, InRing, Positions,
              Contents, Incoming, Stored, One, bq, producer, ring, ghosts
<1>5. Outgoing(q)'
  BY <1>1, <1>3 DEF CopyKeyOut, CopyDataOut, TypeOK, RingInv, Outgoing, ring, ghosts
<1> QED
  BY <1>2, <1>4, <1>5, ConsumerFrame DEF Consumer, RingInv

(* The consumer moves head past what it copied: one more chunk is taken.   *)
LEMMA AdvanceHeadKeeps ==
    ASSUME QueueInv, NEW q \in Queue, AdvanceHead(q) PROVE QueueInv'
<1>1. /\ TypeOK /\ RingInv(q) /\ cpc[q] = "head" /\ cpc'[q] = "post"
      /\ taken[q] \in Nat /\ taken'[q] = taken[q] + 1
      /\ head'[q] = (head[q] + 1) % BUFF_QUEUE_SIZE
      /\ head[q] = taken[q] % BUFF_QUEUE_SIZE
      /\ UNCHANGED <<flags, producer, bq, ckey, cdata, tail, empty, full, hk, cd, sent, put>>
  BY DEF QueueInv, AdvanceHead, TypeOK, RingInv, Positions, bq, producer
<1>2. head'[q] = (taken[q] + 1) % BUFF_QUEUE_SIZE
  <2>1. PICK n \in Nat : n = taken[q]
    BY <1>1
  <2>2. ((n % BUFF_QUEUE_SIZE) + 1) % BUFF_QUEUE_SIZE = (n + 1) % BUFF_QUEUE_SIZE
    BY NextSlot, Sizes
  <2> QED
    BY <1>1, <2>1, <2>2
<1>3. TypeOK'
  <2>1. PICK n \in Nat : n = taken[q] + 1
    BY <1>1
  <2>2. n % BUFF_QUEUE_SIZE \in 0 .. BUFF_QUEUE_SIZE - 1
    BY DivMod, Sizes
  <2>3. head'[q] \in Slot /\ taken'[q] \in Nat
    BY <1>1, <1>2, <2>1, <2>2 DEF Slot
  <2>4. head' \in [Queue -> Slot] /\ taken' \in [Queue -> Nat]
    BY <1>1, <2>3 DEF AdvanceHead, TypeOK
  <2> QED
    BY <1>1, <2>4 DEF AdvanceHead, TypeOK, flags, producer
<1>4. taken[q] < Len(sent[q]) /\ Len(sent[q]) \in Nat
  BY <1>1, RingBounds
<1>5. Semaphores(q)'
  <2> DEFINE a == One(pc = "post" /\ bq = q)
             c == One(pc \in {"data", "key", "tail"} /\ bq = q)
  <2>1. a \in Int /\ c \in Int
    BY DEF One
  <2>2. /\ full[q] = Len(sent[q]) - taken[q] - a - 1
        /\ empty[q] = BUFF_QUEUE_SIZE - (Len(sent[q]) - taken[q]) - c - 0
    BY <1>1 DEF RingInv, Semaphores, InRing, One
  <2> HIDE DEF a, c
  <2>3. /\ taken[q] \in Int /\ taken'[q] = taken[q] + 1
        /\ Len(sent[q]) \in Int /\ BUFF_QUEUE_SIZE \in Int
    BY <1>1, <1>4, Sizes
  <2>4. Len(sent[q]) - taken[q] = Len(sent[q]) - taken'[q] + 1
    BY <2>3
  <2>5. Len(sent[q]) - taken'[q] \in Int
    BY <2>3
  <2>6. full[q] = Len(sent[q]) - taken'[q] - a - 0
    BY <2>1, <2>2, <2>4, <2>5
  <2>7. empty[q] = BUFF_QUEUE_SIZE - (Len(sent[q]) - taken'[q]) - c - 1
    BY <2>1, <2>2, <2>3, <2>4, <2>5
  <2> QED
    BY <1>1, <2>6, <2>7 DEF a, c, Semaphores, InRing, One, producer
<1>6. Positions(q)' /\ Incoming(q)'
  BY <1>1, <1>2 DEF RingInv, Positions, Incoming, producer
<1>7. Contents(q)'
  <2>1. \A i \in taken[q] + 1 .. Len(sent[q]) - 1 : i \in taken[q] .. Len(sent[q]) - 1
    BY <1>1, <1>4
  <2> QED
    BY <1>1, <2>1 DEF RingInv, Contents
<1>8. Outgoing(q)'
  BY <1>1 DEF RingInv, Outgoing
<1>9. Stored(q)'
  <2>1. Len(put[q]) = taken[q] - 0
    BY <1>1 DEF RingInv, Stored, One
  <2>2. Len(put[q]) = taken'[q] - 1
    BY <1>1, <2>1
  <2> QED
    BY <1>1, <2>2 DEF RingInv, Stored, One
<1> QED
  BY <1>3, <1>5, <1>6, <1>7, <1>8, <1>9, ConsumerFrame DEF Consumer, RingInv

(* The consumer gives the slot back. *)
LEMMA PostEmptyKeeps ==
    ASSUME QueueInv, NEW q \in Queue, PostEmpty(q) PROVE QueueInv'
<1>1. /\ TypeOK /\ RingInv(q) /\ cpc[q] = "post" /\ cpc'[q] = "put"
      /\ empty[q] \in Nat /\ empty'[q] = empty[q] + 1
      /\ UNCHANGED <<flags, producer, bq, ckey, cdata, head, tail, full, hk, cd, ghosts>>
  BY Sizes DEF QueueInv, PostEmpty, TypeOK, bq, producer
<1>2. /\ taken[q] \in Nat /\ Len(sent[q]) \in Nat
      /\ taken[q] <= Len(sent[q])
  BY RingBounds
<1> DEFINE c == One(pc \in {"data", "key", "tail"} /\ bq = q)
<1>3. c \in Int /\ 0 <= c
  BY DEF One
<1>4. empty[q] = BUFF_QUEUE_SIZE - (Len(sent[q]) - taken[q]) - c - 1
  BY <1>1 DEF RingInv, Semaphores, InRing, One
<1> HIDE DEF c
<1>5. /\ empty'[q] = BUFF_QUEUE_SIZE - (Len(sent[q]) - taken[q]) - c - 0
      /\ empty'[q] \in 0 .. BUFF_QUEUE_SIZE
  BY <1>1, <1>2, <1>3, <1>4, Sizes, SMTT(60)
<1>6. TypeOK'
  <2>1. empty' \in [Queue -> 0 .. BUFF_QUEUE_SIZE]
    BY <1>1, <1>5 DEF PostEmpty, TypeOK
  <2> QED
    BY <1>1, <2>1 DEF PostEmpty, TypeOK, flags, producer, ghosts
<1>7. Semaphores(q)'
  BY <1>1, <1>5 DEF c, RingInv, Semaphores, InRing, One, producer, ghosts
<1>8. /\ Positions(q)' /\ Contents(q)' /\ Incoming(q)' /\ Outgoing(q)' /\ Stored(q)'
  BY <1>1 DEF RingInv, Positions, Contents, Incoming, Outgoing, Stored, One,
              producer, ghosts
<1> QED
  BY <1>6, <1>7, <1>8, ConsumerFrame DEF Consumer, RingInv

(* The consumer stores the chunk in its buffers. *)
LEMMA PutKeeps ==
    ASSUME QueueInv, NEW q \in Queue, PutNewChunk(q) PROVE QueueInv'
<1> DEFINE new == [key |-> ckey[q], data |-> cdata[q]]
<1>1. /\ TypeOK /\ RingInv(q) /\ cpc[q] = "put" /\ cpc'[q] \in {"wait", "done"}
      /\ put[q] \in Seq(Chunk) /\ put'[q] = Append(put[q], new) /\ new \in Chunk
      /\ UNCHANGED <<flags, producer, bq, ckey, cdata, ring, sent, taken>>
  BY DEF QueueInv, PutNewChunk, TypeOK, bq, producer, Chunk
<1>2. TypeOK'
  <2>1. put' \in [Queue -> Seq(Chunk)]
    BY <1>1 DEF PutNewChunk, TypeOK
  <2> QED
    BY <1>1, <2>1 DEF PutNewChunk, TypeOK, flags, producer, ring
<1>3. /\ taken[q] \in Nat /\ taken[q] > 0
      /\ new = [key |-> sent[q][taken[q]], data |-> sent[q][taken[q]]]
      /\ Len(put[q]) = taken[q] - 1
  BY <1>1 DEF TypeOK, RingInv, Outgoing, Stored, One
<1> HIDE DEF new
<1>4. /\ Semaphores(q)' /\ Positions(q)' /\ Contents(q)' /\ Incoming(q)' /\ Outgoing(q)'
  BY <1>1 DEF RingInv, Semaphores, InRing, Positions, Contents, Incoming, Outgoing,
              One, producer, ring
<1>5. Stored(q)'
  <2>1. /\ Len(put'[q]) = taken[q] /\ put'[q][taken[q]] = new
        /\ \A i \in 1 .. taken[q] - 1 : put'[q][i] = put[q][i]
    BY <1>1, <1>3
  <2>2. \A i \in 1 .. taken[q] : i = taken[q] \/ i \in 1 .. taken[q] - 1
    BY <1>3
  <2>3. \A i \in 1 .. taken[q] : put'[q][i] = [key |-> sent[q][i], data |-> sent[q][i]]
    BY <1>1, <1>3, <2>1, <2>2 DEF RingInv, Stored
  <2> QED
    BY <1>1, <1>3, <2>1, <2>3 DEF Stored, One
<1> QED
  BY <1>2, <1>4, <1>5, ConsumerFrame DEF Consumer, RingInv

-----------------------------------------------------------------------------
(* QueueInv is inductive: it holds of the rings in every state of the      *)
(* threads of thread-mgr.c.                                                *)
THEOREM QueueInvariant == Spec => []QueueInv
<1>1. Init => QueueInv
  BY QueueInit
<1>2. QueueInv /\ [Next]_vars => QueueInv'
  <2> SUFFICES ASSUME QueueInv, [Next]_vars PROVE QueueInv'
    OBVIOUS
  <2>1. CASE Main
    BY <2>1, MainKeeps
  <2>2. CASE Producer
    BY <2>2, ReadKeeps, WaitEmptyKeeps, CopyInKeeps, AdvanceTailKeeps, PostFullKeeps
    DEF Producer
  <2>3. CASE \E q \in Queue : Consumer(q)
    BY <2>3, BeginKeeps, WaitFullKeeps, CopyOutKeeps, AdvanceHeadKeeps, PostEmptyKeeps, PutKeeps
    DEF Consumer
  <2>4. CASE UNCHANGED vars
    <3>1. UNCHANGED <<main, started, producer_running, consumer_running, over, pc, chunk,
                      reads, cpc, ckey, cdata, head, tail, empty, full, hk, cd, sent,
                      taken, put, bq>>
      BY <2>4 DEF vars, flags, producer, consumer, ring, ghosts, bq
    <3>2. TypeOK'
      BY <3>1 DEF QueueInv, TypeOK
    <3>3. Starting' /\ ChunkInHand'
      BY <3>1 DEF QueueInv, Starting, ChunkInHand
    <3>4. ASSUME NEW q \in Queue PROVE RingInv(q)'
      BY <3>1 DEF QueueInv, RingInv, Semaphores, InRing, One, Positions, Contents,
                  Incoming, Outgoing, Stored
    <3> QED
      BY <3>2, <3>3, <3>4 DEF QueueInv
  <2> QED
    BY <2>1, <2>2, <2>3, <2>4 DEF Next
<1> QED
  BY <1>1, <1>2, PTL DEF Spec

(* Types and bounds: no semaphore ever counts more than the slots of a     *)
(* ring, and no index leaves it.                                           *)
THEOREM QueueTypes == Spec => []TypeOK
<1>1. QueueInv => TypeOK
  BY DEF QueueInv
<1> QED
  BY <1>1, QueueInvariant, PTL

(* What a consumer hands to put_new_chunk is what the producer put into    *)
(* its ring, whole and in order.                                           *)
THEOREM QueueStoresInOrder == Spec => []StoredInOrder
<1>1. QueueInv => StoredInOrder
  <2> SUFFICES ASSUME QueueInv, NEW q \in Queue
               PROVE  /\ Len(put[q]) <= Len(sent[q])
                      /\ \A i \in 1 .. Len(put[q]) :
                            put[q][i] = [key |-> sent[q][i], data |-> sent[q][i]]
    BY DEF StoredInOrder
  <2>1. Stored(q)
    BY DEF QueueInv, RingInv
  <2>2. Len(put[q]) <= taken[q]
    BY <2>1, RingBounds DEF Stored, One
  <2>3. Len(put[q]) \in Nat
    BY DEF QueueInv, TypeOK
  <2> QED
    BY <2>1, <2>2, <2>3, RingBounds DEF Stored
<1> QED
  BY <1>1, QueueInvariant, PTL

(* The semaphores alone keep the producer off the slot a consumer reads.   *)
THEOREM QueueHasNoSlotRace == Spec => []NoSlotRace
<1>1. QueueInv => NoSlotRace
  <2> SUFFICES ASSUME QueueInv, NEW q \in Queue, Writing(q), Reading(q)
               PROVE  head[q] # tail[q]
    BY DEF NoSlotRace
  <2>1. PICK n \in Nat, t \in Nat : /\ n = Len(sent[q]) /\ t = taken[q]
                                   /\ t < n /\ n - t < BUFF_QUEUE_SIZE
    BY RingBounds DEF Writing, Reading
  <2>2. tail[q] = n % BUFF_QUEUE_SIZE /\ head[q] = t % BUFF_QUEUE_SIZE
    BY <2>1 DEF QueueInv, RingInv, Positions
  <2> QED
    BY <2>1, <2>2, SlotsDiffer, Sizes
<1> QED
  BY <1>1, QueueInvariant, PTL
=============================================================================
