----------------------------- MODULE BufferQueue -----------------------------
(***************************************************************************)
(* The I/O threads of the server (src/src/io/thread-mgr.c): one producer   *)
(* reads chunks and routes each, by the first int of its fingerprint, to   *)
(* one of NUM_BUFFER_QUEUES ring buffers; one consumer per ring takes them *)
(* out and hands them to put_new_chunk.  The main thread starts them all.  *)
(*                                                                         *)
(* A ring has two semaphores and copies key and data one after the other.  *)
(* The producer takes no lock; the consumer's mutex is one nobody else     *)
(* takes, and is left out.                                                 *)
(*                                                                         *)
(* The data of a chunk is named by its key: a slot, or a consumer's        *)
(* buffers, with two different names hold a torn chunk.                    *)
(***************************************************************************)
EXTENDS Integers, Sequences

CONSTANTS NUM_BUFFER_QUEUES,  \* rings, and consumer threads
          BUFF_QUEUE_SIZE,    \* slots of a ring
          Key,                \* fingerprints
          Route,              \* the first int of a fingerprint
          MaxChunks,          \* bound: chunks the producer reads
          Garbage             \* what malloc left in a slot

Queue == 0 .. NUM_BUFFER_QUEUES - 1
Slot  == 0 .. BUFF_QUEUE_SIZE - 1

(* Ring indices are masked with BUFF_QUEUE_SIZE - 1. *)
ASSUME QueueAssumption ==
    /\ NUM_BUFFER_QUEUES \in Nat \ {0}
    /\ BUFF_QUEUE_SIZE \in Nat \ {0}
    /\ BUFF_QUEUE_SIZE \in {2 ^ n : n \in 0 .. 30}
    /\ Route \in [Key -> Int]
    /\ MaxChunks \in Nat
    /\ Garbage \notin Key

VARIABLES
    main,              \* where thread_io_start is, or what it returned
    started,           \* consumer threads created
    producer_running, consumer_running, over,   \* the global flags
    pc,                \* the producer's next step
    chunk,             \* its chunk_data and hash_key
    reads,             \* chunks it read
    cpc,               \* each consumer's next step
    ckey, cdata,       \* and its buffers
    head, tail, empty, full, hk, cd,            \* the rings
    sent, taken, put   \* ghosts: chunks put into a ring, taken out, stored

flags    == <<producer_running, consumer_running, over>>
producer == <<pc, chunk, reads>>
consumer == <<cpc, ckey, cdata>>
ring     == <<head, tail, empty, full, hk, cd>>
ghosts   == <<sent, taken, put>>
vars     == <<main, started, flags, producer, consumer, ring, ghosts>>

Chunk == [key : Key \cup {Garbage}, data : Key \cup {Garbage}]

TypeOK ==
    /\ main \in {"producer", "consumers", "ok", "failed"}
    /\ started \in 0 .. NUM_BUFFER_QUEUES
    /\ producer_running \in BOOLEAN /\ consumer_running \in BOOLEAN /\ over \in BOOLEAN
    /\ pc \in {"none", "read", "wait", "data", "key", "tail", "post", "wild", "done"}
    /\ chunk \in Key \cup {Garbage}
    /\ reads \in 0 .. MaxChunks
    /\ cpc \in [Queue -> {"none", "start", "wait", "key", "data", "head", "post", "put", "done"}]
    /\ ckey \in [Queue -> Key \cup {Garbage}] /\ cdata \in [Queue -> Key \cup {Garbage}]
    /\ head \in [Queue -> Slot] /\ tail \in [Queue -> Slot]
    /\ empty \in [Queue -> 0 .. BUFF_QUEUE_SIZE] /\ full \in [Queue -> 0 .. BUFF_QUEUE_SIZE]
    /\ hk \in [Queue -> [Slot -> Key \cup {Garbage}]]
    /\ cd \in [Queue -> [Slot -> Key \cup {Garbage}]]
    /\ sent \in [Queue -> Seq(Key)]
    /\ taken \in [Queue -> Nat]
    /\ put \in [Queue -> Seq(Chunk)]

(* Mutant: sem_init gives a ring one slot too many. *)
InitOneTooMany ==
    /\ main = "producer" /\ started = 0
    /\ producer_running = FALSE /\ consumer_running = FALSE /\ over = FALSE
    /\ pc = "none" /\ chunk = Garbage /\ reads = 0
    /\ cpc = [q \in Queue |-> "none"]
    /\ ckey = [q \in Queue |-> Garbage] /\ cdata = [q \in Queue |-> Garbage]
    /\ head = [q \in Queue |-> 0] /\ tail = [q \in Queue |-> 0]
    /\ empty = [q \in Queue |-> BUFF_QUEUE_SIZE + 1] /\ full = [q \in Queue |-> 0]
    /\ hk = [q \in Queue |-> [s \in Slot |-> Garbage]]
    /\ cd = [q \in Queue |-> [s \in Slot |-> Garbage]]
    /\ sent = [q \in Queue |-> <<>>]
    /\ taken = [q \in Queue |-> 0]
    /\ put = [q \in Queue |-> <<>>]

(* The rings as init_buffer_queue leaves them; no thread runs yet. *)
Init ==
    /\ main = "producer" /\ started = 0
    /\ producer_running = FALSE /\ consumer_running = FALSE /\ over = FALSE
    /\ pc = "none" /\ chunk = Garbage /\ reads = 0
    /\ cpc = [q \in Queue |-> "none"]
    /\ ckey = [q \in Queue |-> Garbage] /\ cdata = [q \in Queue |-> Garbage]
    /\ head = [q \in Queue |-> 0] /\ tail = [q \in Queue |-> 0]
    /\ empty = [q \in Queue |-> BUFF_QUEUE_SIZE] /\ full = [q \in Queue |-> 0]
    /\ hk = [q \in Queue |-> [s \in Slot |-> Garbage]]
    /\ cd = [q \in Queue |-> [s \in Slot |-> Garbage]]
    /\ sent = [q \in Queue |-> <<>>]
    /\ taken = [q \in Queue |-> 0]
    /\ put = [q \in Queue |-> <<>>]

-----------------------------------------------------------------------------
(* thread_io_start: the producer first, then the consumers.  A thread that *)
(* cannot be created clears the flag all threads of its kind loop on;      *)
(* attributes that cannot be set come before the flag is touched.          *)
StartProducer ==
    /\ main = "producer"
    /\ main' = "consumers" /\ pc' = "read" /\ producer_running' = TRUE
    /\ UNCHANGED <<started, consumer_running, over, chunk, reads, consumer, ring, ghosts>>

StartProducerFails ==
    /\ main = "producer"
    /\ main' = "failed" /\ producer_running' = FALSE
    /\ UNCHANGED <<started, consumer_running, over, producer, consumer, ring, ghosts>>

StartConsumer ==
    /\ main = "consumers"
    /\ started' = started + 1
    /\ cpc' = [cpc EXCEPT ![started] = "start"]
    /\ consumer_running' = TRUE
    /\ main' = IF started' = NUM_BUFFER_QUEUES THEN "ok" ELSE main
    /\ UNCHANGED <<producer_running, over, producer, ckey, cdata, ring, ghosts>>

StartConsumerFails ==
    /\ main = "consumers"
    /\ main' = "failed" /\ consumer_running' \in {FALSE, consumer_running}
    /\ UNCHANGED <<started, producer_running, over, producer, consumer, ring, ghosts>>

Main == StartProducer \/ StartProducerFails \/ StartConsumer \/ StartConsumerFails

-----------------------------------------------------------------------------
(* producer_thread_fun *)
bq == Route[chunk]

ReadChunk ==
    /\ pc = "read" /\ producer_running /\ reads < MaxChunks
    /\ \E k \in Key :
          /\ chunk' = k
          /\ pc' = IF Route[k] \in Queue THEN "wait" ELSE "wild"
    /\ reads' = reads + 1
    /\ UNCHANGED <<main, started, flags, consumer, ring, ghosts>>

(* get_one_chunk returns 0 or less: end of the input, or an error *)
EndOfInput ==
    /\ pc = "read"
    /\ pc' = "done" /\ over' = TRUE
    /\ UNCHANGED <<main, started, producer_running, consumer_running, chunk, reads,
                   consumer, ring, ghosts>>

(* Mutant: the producer does not wait for a slot. *)
WaitForNothing ==
    /\ pc = "wait"
    /\ pc' = "data"
    /\ UNCHANGED <<main, started, flags, chunk, reads, consumer, ring, ghosts>>

WaitEmpty ==
    /\ pc = "wait" /\ empty[bq] > 0
    /\ pc' = "data"
    /\ empty' = [empty EXCEPT ![bq] = @ - 1]
    /\ UNCHANGED <<main, started, flags, chunk, reads, consumer,
                   head, tail, full, hk, cd, ghosts>>

CopyDataIn ==
    /\ pc = "data"
    /\ pc' = "key"
    /\ cd' = [cd EXCEPT ![bq][tail[bq]] = chunk]
    /\ UNCHANGED <<main, started, flags, chunk, reads, consumer,
                   head, tail, empty, full, hk, ghosts>>

CopyKeyIn ==
    /\ pc = "key"
    /\ pc' = "tail"
    /\ hk' = [hk EXCEPT ![bq][tail[bq]] = chunk]
    /\ UNCHANGED <<main, started, flags, chunk, reads, consumer,
                   head, tail, empty, full, cd, ghosts>>

(* Mutant: a ring of one slot less, by a wrong mask. *)
TailMaskedWrong ==
    /\ pc = "tail"
    /\ pc' = "post"
    /\ tail' = [tail EXCEPT ![bq] = IF BUFF_QUEUE_SIZE > 1 THEN (@ + 1) % (BUFF_QUEUE_SIZE - 1) ELSE 0]
    /\ sent' = [sent EXCEPT ![bq] = Append(@, chunk)]
    /\ UNCHANGED <<main, started, flags, chunk, reads, consumer,
                   head, empty, full, hk, cd, taken, put>>

AdvanceTail ==
    /\ pc = "tail"
    /\ pc' = "post"
    /\ tail' = [tail EXCEPT ![bq] = (@ + 1) % BUFF_QUEUE_SIZE]
    /\ sent' = [sent EXCEPT ![bq] = Append(@, chunk)]
    /\ UNCHANGED <<main, started, flags, chunk, reads, consumer,
                   head, empty, full, hk, cd, taken, put>>

PostFull ==
    /\ pc = "post"
    /\ pc' = "read"
    /\ full' = [full EXCEPT ![bq] = @ + 1]
    /\ UNCHANGED <<main, started, flags, chunk, reads, consumer,
                   head, tail, empty, hk, cd, ghosts>>

Producer == \/ ReadChunk \/ EndOfInput \/ WaitEmpty
            \/ CopyDataIn \/ CopyKeyIn \/ AdvanceTail \/ PostFull

-----------------------------------------------------------------------------
(* Mutant: the consumer does not wait for a chunk. *)
TakeUnasked(q) ==
    /\ cpc[q] = "wait"
    /\ cpc' = [cpc EXCEPT ![q] = "key"]
    /\ UNCHANGED <<main, started, flags, producer, ckey, cdata, ring, ghosts>>

(* consumer_thread_fun of ring q.  It looks at consumer_thread_running     *)
(* first, and then only between chunks: one that waits for a chunk takes   *)
(* one more.                                                               *)
Begin(q) ==
    /\ cpc[q] = "start"
    /\ cpc' = [cpc EXCEPT ![q] = IF consumer_running THEN "wait" ELSE "done"]
    /\ UNCHANGED <<main, started, flags, producer, ckey, cdata, ring, ghosts>>

WaitFull(q) ==
    /\ cpc[q] = "wait" /\ full[q] > 0
    /\ cpc' = [cpc EXCEPT ![q] = "key"]
    /\ full' = [full EXCEPT ![q] = @ - 1]
    /\ UNCHANGED <<main, started, flags, producer, ckey, cdata,
                   head, tail, empty, hk, cd, ghosts>>

CopyKeyOut(q) ==
    /\ cpc[q] = "key"
    /\ cpc' = [cpc EXCEPT ![q] = "data"]
    /\ ckey' = [ckey EXCEPT ![q] = hk[q][head[q]]]
    /\ UNCHANGED <<main, started, flags, producer, cdata, ring, ghosts>>

CopyDataOut(q) ==
    /\ cpc[q] = "data"
    /\ cpc' = [cpc EXCEPT ![q] = "head"]
    /\ cdata' = [cdata EXCEPT ![q] = cd[q][head[q]]]
    /\ UNCHANGED <<main, started, flags, producer, ckey, ring, ghosts>>

AdvanceHead(q) ==
    /\ cpc[q] = "head"
    /\ cpc' = [cpc EXCEPT ![q] = "post"]
    /\ head' = [head EXCEPT ![q] = (@ + 1) % BUFF_QUEUE_SIZE]
    /\ taken' = [taken EXCEPT ![q] = @ + 1]
    /\ UNCHANGED <<main, started, flags, producer, ckey, cdata,
                   tail, empty, full, hk, cd, sent, put>>

PostEmpty(q) ==
    /\ cpc[q] = "post"
    /\ cpc' = [cpc EXCEPT ![q] = "put"]
    /\ empty' = [empty EXCEPT ![q] = @ + 1]
    /\ UNCHANGED <<main, started, flags, producer, ckey, cdata,
                   head, tail, full, hk, cd, ghosts>>

(* Mutant: the consumer loops until the input is over. *)
PutUntilOver(q) ==
    /\ cpc[q] = "put"
    /\ cpc' = [cpc EXCEPT ![q] = IF over THEN "done" ELSE "wait"]
    /\ put' = [put EXCEPT ![q] = Append(@, [key |-> ckey[q], data |-> cdata[q]])]
    /\ UNCHANGED <<main, started, flags, producer, ckey, cdata, ring, sent, taken>>

PutNewChunk(q) ==
    /\ cpc[q] = "put"
    /\ cpc' = [cpc EXCEPT ![q] = IF consumer_running THEN "wait" ELSE "done"]
    /\ put' = [put EXCEPT ![q] = Append(@, [key |-> ckey[q], data |-> cdata[q]])]
    /\ UNCHANGED <<main, started, flags, producer, ckey, cdata, ring, sent, taken>>

Consumer(q) == \/ Begin(q) \/ WaitFull(q) \/ CopyKeyOut(q) \/ CopyDataOut(q)
               \/ AdvanceHead(q) \/ PostEmpty(q) \/ PutNewChunk(q)

Next == Main \/ Producer \/ \E q \in Queue : Consumer(q)

(* The system schedules every thread; no other thread waits on the         *)
(* semaphores a thread waits on.                                           *)
Fairness == WF_vars(Main) /\ WF_vars(Producer) /\ \A q \in Queue : WF_vars(Consumer(q))

Spec == Init /\ [][Next]_vars /\ Fairness

-----------------------------------------------------------------------------
(* What a consumer stores is what the producer sent to its ring, in the    *)
(* order it was sent, each key with its own data, nothing twice and        *)
(* nothing left out.                                                       *)
StoredInOrder ==
    \A q \in Queue :
        /\ Len(put[q]) <= Len(sent[q])
        /\ \A i \in 1 .. Len(put[q]) :
              put[q][i] = [key |-> sent[q][i], data |-> sent[q][i]]

(* The producer never writes the slot a consumer is reading, though it     *)
(* takes no lock.                                                          *)
Writing(q) == pc \in {"data", "key"} /\ bq = q
Reading(q) == cpc[q] \in {"key", "data"}
NoSlotRace == \A q \in Queue : Writing(q) /\ Reading(q) => head[q] # tail[q]

(* No index leaves the array of rings. *)
NeverWild == pc # "wild"

(* Once every thread was started, whatever the producer sent is stored in  *)
(* the end: no chunk stays behind in a ring.                               *)
EverythingIsStored ==
    main = "ok" ~> over /\ \A q \in Queue : Len(put[q]) = Len(sent[q])

-----------------------------------------------------------------------------
(* The inductive invariant behind StoredInOrder and NoSlotRace.  The two   *)
(* semaphores of a ring count its chunks and its free slots up to the step *)
(* a thread is in; head and tail stand for the chunks taken and sent; the  *)
(* slots between them hold what was sent and not yet taken.                *)
One(p) == IF p THEN 1 ELSE 0
InRing(q) == Len(sent[q]) - taken[q]

Starting ==
    /\ main \in {"producer", "consumers"} => started < NUM_BUFFER_QUEUES
    /\ main = "producer" => pc = "none"
    /\ \A q \in Queue : started <= q => cpc[q] = "none"

ChunkInHand ==
    pc \in {"wait", "data", "key", "tail", "post"} => chunk \in Key /\ bq \in Queue

Semaphores(q) ==
    /\ full[q] = InRing(q) - One(pc = "post" /\ bq = q)
                           - One(cpc[q] \in {"key", "data", "head"})
    /\ empty[q] = BUFF_QUEUE_SIZE - InRing(q)
                           - One(pc \in {"data", "key", "tail"} /\ bq = q)
                           - One(cpc[q] = "post")

Positions(q) == /\ tail[q] = Len(sent[q]) % BUFF_QUEUE_SIZE
                /\ head[q] = taken[q] % BUFF_QUEUE_SIZE

Contents(q) ==
    \A i \in taken[q] .. Len(sent[q]) - 1 :
        /\ hk[q][i % BUFF_QUEUE_SIZE] = sent[q][i + 1]
        /\ cd[q][i % BUFF_QUEUE_SIZE] = sent[q][i + 1]

Incoming(q) ==
    /\ pc \in {"key", "tail"} /\ bq = q => cd[q][tail[q]] = chunk
    /\ pc = "tail" /\ bq = q => hk[q][tail[q]] = chunk

Outgoing(q) ==
    /\ cpc[q] \in {"data", "head"} => ckey[q] = sent[q][taken[q] + 1]
    /\ cpc[q] = "head" => cdata[q] = sent[q][taken[q] + 1]
    /\ cpc[q] \in {"post", "put"} => /\ taken[q] > 0
                                     /\ ckey[q] = sent[q][taken[q]]
                                     /\ cdata[q] = sent[q][taken[q]]

Stored(q) ==
    /\ Len(put[q]) = taken[q] - One(cpc[q] \in {"post", "put"})
    /\ \A i \in 1 .. Len(put[q]) : put[q][i] = [key |-> sent[q][i], data |-> sent[q][i]]

RingInv(q) == /\ Semaphores(q) /\ Positions(q) /\ Contents(q)
              /\ Incoming(q) /\ Outgoing(q) /\ Stored(q)

QueueInv == TypeOK /\ Starting /\ ChunkInHand /\ \A q \in Queue : RingInv(q)
=============================================================================
