-------------------------------- MODULE Server --------------------------------
(***************************************************************************)
(* The server process: main (src/src/server/agilefs-server.c), the threads *)
(* it starts (thread_io_start) and the teardown it runs beside them        *)
(* (release_chunk_file in expat-xml.c, meta_server_close).  main waits for *)
(* `over' only when thread_io_start failed; otherwise it goes on to close  *)
(* the input, save the free-chunk lists, free cfi and close the database   *)
(* while the producer reads and the consumer stores.                       *)
(*                                                                         *)
(* There is one consumer (NUM_SERVER_THREADS is 1) and one ring, which is  *)
(* the queue BufferQueue shows it to be; keys are those whose first int is *)
(* its index.  A chunk takes one slot of a chunk file and a list is the    *)
(* stack FreeList implements; slots of the file that neither a list nor a  *)
(* record names hold chunks of earlier runs.                               *)
(*                                                                         *)
(* Descriptors are numbers, because they are used again: the number of the *)
(* input is the next fopen's, and the number of a chunk file is free when  *)
(* its list file is opened.  The threads keep using the numbers they know. *)
(***************************************************************************)
EXTENDS Integers, Sequences

CONSTANTS Key,              \* fingerprints
          Config,           \* the fingerprint of the configuration file
          Files,            \* number of chunk files
          Slots,            \* slots of a full chunk file
          BUFF_QUEUE_SIZE,  \* chunks of the ring
          MaxChunks,        \* bound: chunks read
          InitFree,         \* free-chunk lists the server may start with
          InitSize,         \* and sizes of its chunk files, in slots
          None

File == 1 .. Files
Slot == 0 .. Slots - 1
Fd   == 0 .. Files     \* 0: the input; i: chunk file i

ASSUME ServerAssumption ==
    /\ Files \in Nat \ {0} /\ Slots \in Nat \ {0}
    /\ BUFF_QUEUE_SIZE \in Nat \ {0} /\ MaxChunks \in Nat
    /\ Config \in Key /\ None \notin Key /\ None \notin File \X Slot
    /\ InitFree \subseteq Seq(Slot) /\ InitSize \subseteq 0 .. Slots
    /\ \A s \in InitFree : \A j, k \in DOMAIN s : j # k => s[j] # s[k]

VARIABLES
    pc,         \* main
    idx,        \* the file release_chunk_file is at
    listFd,     \* the descriptor of the list file it writes
    fdOf,       \* what a descriptor is of
    configRead, \* the producer has read the configuration away
    freed,      \* cfi is freed
    pages,      \* lists whose pages are still there
    cur_size, fcls,
    data,       \* the chunk files, by slot
    fclFile,    \* the list files
    db,         \* the records
    dbOpen,
    over,
    producer,   \* "none", "read", "wait" or "done"
    chunk,      \* what it read
    ring,
    consumer,   \* "none", "wait", "get", "write" or "record"
    put,        \* its chunk, and the place it goes to
    reads,      \* chunks read
    seen,       \* ghost: their keys
    lost,       \* ghost: keys whose last put failed, which nobody is told
    quiet,      \* ghost: all was stored when main closed the input
    strayed,    \* ghost: keys whose data went into a list file
    junk        \* ghost: a slot was taken off a freed page

cfi     == <<freed, pages, cur_size, fcls>>
disk    == <<data, fclFile>>
dbs     == <<db, dbOpen>>
mainV   == <<pc, idx, listFd, fdOf>>
threads == <<over, producer, chunk, ring, consumer, put, reads, configRead>>
ghosts  == <<seen, lost, quiet, strayed, junk>>
vars    == <<mainV, cfi, disk, dbs, threads, ghosts>>

Kind(k, i) == <<k, i>>
Closed     == Kind("closed", 0)
Kinds      == {Closed, Kind("input", 0), Kind("config", 0)}
                  \cup ({"data", "list"} \X File)

TypeOK ==
    /\ pc \in {"producer", "consumer", "spin", "input", "fopen", "parse", "data",
               "list", "write", "close", "free", "db", "return", "exit", "dead"}
    /\ idx \in File /\ listFd \in Fd
    /\ fdOf \in [Fd -> Kinds]
    /\ configRead \in BOOLEAN /\ freed \in BOOLEAN /\ pages \subseteq File
    /\ cur_size \in [File -> 0 .. Slots] /\ fcls \in [File -> Seq(Slot)]
    /\ data \in [File -> [Slot -> Key \cup {None}]]
    /\ fclFile \in [File -> [saved : Seq(Slot), damaged : BOOLEAN]]
    /\ db \in [Key -> (File \X Slot) \cup {None}] /\ dbOpen \in BOOLEAN
    /\ over \in BOOLEAN
    /\ producer \in {"none", "read", "wait", "done"} /\ chunk \in Key
    /\ ring \in Seq(Key) /\ Len(ring) <= BUFF_QUEUE_SIZE
    /\ consumer \in {"none", "wait", "get", "write", "record"}
    /\ put \in [key : Key, file : File, slot : Slot]
    /\ reads \in 0 .. MaxChunks
    /\ seen \subseteq Key /\ lost \subseteq Key /\ strayed \subseteq Key
    /\ quiet \in BOOLEAN /\ junk \in BOOLEAN

(* main, after meta_server_init, init_chunk_file and open, which may have  *)
(* failed.                                                                 *)
Init ==
    /\ pc = "producer" /\ idx = 1 /\ listFd = 0
    /\ \E input \in {Closed, Kind("input", 0)} :
          fdOf = [n \in Fd |-> IF n = 0 THEN input ELSE Kind("data", n)]
    /\ configRead = FALSE /\ freed = FALSE /\ pages = File
    /\ fcls \in [File -> InitFree] /\ cur_size \in [File -> InitSize]
    /\ \A i \in File : \A j \in DOMAIN fcls[i] : fcls[i][j] < cur_size[i]
    /\ data = [i \in File |-> [s \in Slot |-> None]]
    /\ fclFile = [i \in File |-> [saved |-> fcls[i], damaged |-> FALSE]]
    /\ db = [k \in Key |-> None] /\ dbOpen = TRUE
    /\ over = FALSE /\ producer = "none" /\ chunk = Config /\ ring = <<>>
    /\ consumer = "none" /\ put = [key |-> Config, file |-> 1, slot |-> 0]
    /\ reads = 0
    /\ seen = {} /\ lost = {} /\ quiet = FALSE /\ strayed = {} /\ junk = FALSE

Running == pc \notin {"exit", "dead"}
Goto(from, to) == pc = from /\ pc' = to

-----------------------------------------------------------------------------
(* thread_io_start: a thread that is not created makes main wait for the   *)
(* producer.                                                               *)
StartProducer ==
    /\ Goto("producer", "consumer")
    /\ producer' = "read"
    /\ UNCHANGED <<idx, listFd, fdOf, cfi, disk, dbs, over, chunk, ring, consumer, put,
                   reads, configRead, ghosts>>

StartConsumer ==
    /\ Goto("consumer", "input")
    /\ consumer' = "wait"
    /\ UNCHANGED <<idx, listFd, fdOf, cfi, disk, dbs, over, producer, chunk, ring, put,
                   reads, configRead, ghosts>>

StartFails ==
    /\ Goto("producer", "spin") \/ Goto("consumer", "spin")
    /\ UNCHANGED <<idx, listFd, fdOf, cfi, disk, dbs, threads, ghosts>>

(* Mutant: an `if' instead of the `while'. *)
SpinOnce ==
    /\ Goto("spin", "input")
    /\ UNCHANGED <<idx, listFd, fdOf, cfi, disk, dbs, threads, ghosts>>

Spin ==
    /\ Goto("spin", "input")
    /\ over
    /\ UNCHANGED <<idx, listFd, fdOf, cfi, disk, dbs, threads, ghosts>>

AllStored == over /\ ring = <<>> /\ consumer \in {"none", "wait"}

CloseInput ==
    /\ Goto("input", "fopen")
    /\ fdOf' = [fdOf EXCEPT ![0] = Closed]
    /\ quiet' = AllStored
    /\ UNCHANGED <<idx, listFd, cfi, disk, dbs, threads, seen, lost, strayed, junk>>

-----------------------------------------------------------------------------
(* release_chunk_file.  Nothing is saved or freed when the configuration   *)
(* cannot be opened or parsed; main does not look.                         *)
FopenConfig ==
    /\ \/ Goto("fopen", "parse") /\ fdOf' = [fdOf EXCEPT ![0] = Kind("config", 0)]
       \/ Goto("fopen", "db") /\ UNCHANGED fdOf
    /\ UNCHANGED <<idx, listFd, cfi, disk, dbs, threads, ghosts>>

Parse ==
    /\ Goto("parse", IF configRead THEN "db" ELSE "data")
    /\ configRead' = TRUE
    /\ UNCHANGED <<idx, listFd, fdOf, cfi, disk, dbs, over, producer, chunk, ring,
                   consumer, put, reads, ghosts>>

CloseData ==
    /\ Goto("data", "list")
    /\ fdOf' = [fdOf EXCEPT ![idx] = Closed]
    /\ UNCHANGED <<idx, listFd, cfi, disk, dbs, threads, ghosts>>

Free(n) == fdOf[n] = Closed /\ \A m \in Fd : m < n => fdOf[m] # Closed

(* flush_free_chunk: the lowest free descriptor, and an empty file. *)
OpenList ==
    /\ Goto("list", "write")
    /\ \E n \in Fd :
          /\ Free(n)
          /\ listFd' = n
          /\ fdOf' = [fdOf EXCEPT ![n] = Kind("list", idx)]
    /\ fclFile' = [fclFile EXCEPT ![idx] = [saved |-> <<>>, damaged |-> FALSE]]
    /\ UNCHANGED <<idx, cfi, data, dbs, threads, ghosts>>

NextFile ==
    IF idx < Files THEN pc' = "data" /\ idx' = idx + 1
    ELSE pc' = "free" /\ UNCHANGED idx

(* start_element_release does not look at what flush_free_chunk returns. *)
OpenListFails ==
    /\ pc = "list" /\ NextFile
    /\ UNCHANGED <<listFd, fdOf, cfi, disk, dbs, threads, ghosts>>

(* Mutant: the pages are freed and not written. *)
FreePages ==
    /\ Goto("write", "close")
    /\ pages' = pages \ {idx}
    /\ UNCHANGED <<idx, listFd, fdOf, freed, cur_size, fcls, data, fclFile, dbs,
                   threads, ghosts>>

WriteList ==
    /\ Goto("write", "close")
    /\ fclFile' = [fclFile EXCEPT ![idx].saved = fcls[idx]]
    /\ pages' = pages \ {idx}
    /\ UNCHANGED <<idx, listFd, fdOf, freed, cur_size, fcls, data, dbs, threads, ghosts>>

CloseList ==
    /\ pc = "close" /\ NextFile
    /\ fdOf' = [fdOf EXCEPT ![listFd] = Closed]
    /\ UNCHANGED <<listFd, cfi, disk, dbs, threads, ghosts>>

(* fclose of the configuration; fcls, fds and cur_size are freed and NULL. *)
FreeCfi ==
    /\ Goto("free", "db")
    /\ fdOf' = [fdOf EXCEPT ![0] = Closed]
    /\ freed' = TRUE
    /\ UNCHANGED <<idx, listFd, pages, cur_size, fcls, disk, dbs, threads, ghosts>>

meta_server_close ==
    /\ Goto("db", "return")
    /\ dbOpen' = FALSE
    /\ UNCHANGED <<idx, listFd, fdOf, cfi, disk, db, threads, ghosts>>

(* main returns, and the threads end wherever they are. *)
Return ==
    /\ Goto("return", "exit")
    /\ UNCHANGED <<idx, listFd, fdOf, cfi, disk, dbs, threads, ghosts>>

Main == \/ StartProducer \/ StartConsumer \/ StartFails \/ Spin \/ CloseInput
        \/ FopenConfig \/ Parse \/ CloseData \/ OpenList \/ OpenListFails
        \/ WriteList \/ CloseList \/ FreeCfi \/ meta_server_close \/ Return

-----------------------------------------------------------------------------
(* The producer reads from descriptor 0, whatever that is by now.          *)
Got(k) ==
    /\ reads < MaxChunks
    /\ chunk' = k /\ producer' = "wait" /\ reads' = reads + 1
    /\ seen' = seen \cup {k}
    /\ UNCHANGED over

ReadChunk ==
    /\ Running /\ producer = "read"
    /\ \/ fdOf[0] = Kind("input", 0) /\ (\E k \in Key \ {Config} : Got(k)) /\ UNCHANGED configRead
       \/ /\ fdOf[0] = Kind("config", 0) /\ ~configRead
          /\ Got(Config) /\ configRead' = TRUE
    /\ UNCHANGED <<mainV, cfi, disk, dbs, ring, consumer, put, lost, quiet, strayed, junk>>

(* Mutant: `over' is set and the loop goes on. *)
EndOfInputGoesOn ==
    /\ Running /\ producer = "read"
    /\ over' = TRUE
    /\ UNCHANGED <<mainV, cfi, disk, dbs, producer, chunk, ring, consumer, put, reads,
                   configRead, ghosts>>

(* Mutant: the loop ends and `over' is not set. *)
EndOfInputSilently ==
    /\ Running /\ producer = "read"
    /\ producer' = "done"
    /\ UNCHANGED <<mainV, cfi, disk, dbs, over, chunk, ring, consumer, put, reads,
                   configRead, ghosts>>

(* The end of the input, an error, or a descriptor that is closed. *)
EndOfInput ==
    /\ Running /\ producer = "read"
    /\ producer' = "done" /\ over' = TRUE
    /\ UNCHANGED <<mainV, cfi, disk, dbs, chunk, ring, consumer, put, reads,
                   configRead, ghosts>>

(* Mutant: the producer does not wait for a slot. *)
SendAnyway ==
    /\ Running /\ producer = "wait"
    /\ ring' = Append(ring, chunk)
    /\ producer' = "read"
    /\ UNCHANGED <<mainV, cfi, disk, dbs, over, chunk, consumer, put, reads,
                   configRead, ghosts>>

Send ==
    /\ Running /\ producer = "wait"
    /\ Len(ring) < BUFF_QUEUE_SIZE
    /\ ring' = Append(ring, chunk)
    /\ producer' = "read"
    /\ UNCHANGED <<mainV, cfi, disk, dbs, over, chunk, consumer, put, reads,
                   configRead, ghosts>>

Producer == ReadChunk \/ EndOfInput \/ Send

-----------------------------------------------------------------------------
(* The consumer, and put_new_chunk step by step. *)
Take ==
    /\ Running /\ consumer = "wait"
    /\ ring # <<>>
    /\ put' = [put EXCEPT !.key = Head(ring)]
    /\ ring' = Tail(ring)
    /\ consumer' = "get"
    /\ UNCHANGED <<mainV, cfi, disk, dbs, over, producer, chunk, reads, configRead, ghosts>>

(* The consumer does not look at what put_new_chunk returns: a put that    *)
(* fails is the next one's turn.                                           *)
Answered == consumer' = "wait" /\ lost' = lost \ {put.key}
Failed   == consumer' = "wait" /\ lost' = lost \cup {put.key}

(* db_get finds the key.  Its count is put back, or is not: the record     *)
(* stays where it points.                                                  *)
PutKnown ==
    /\ Running /\ consumer = "get"
    /\ dbOpen /\ db[put.key] # None
    /\ Answered \/ Failed
    /\ UNCHANGED <<mainV, cfi, disk, dbs, over, producer, chunk, ring, put, reads,
                   configRead, seen, quiet, strayed, junk>>

(* capcity, in slots: a list of one free chunk has current = 0 and is      *)
(* counted as none.                                                        *)
Used(i) == cur_size[i] - (IF fcls[i] = <<>> THEN 0 ELSE Len(fcls[i]) - 1)

(* get_proper_chunk_file: the first of the least used that are not full. *)
Proper(i) ==
    /\ Used(i) < Slots
    /\ \A j \in File : Used(i) < Used(j) \/ (Used(i) = Used(j) /\ i <= j)

(* Mutant: a file grows where it is, and the size is counted later. *)
TakeSlotUncounted(i) ==
    /\ cur_size[i] < Slots
    /\ put' = [put EXCEPT !.file = i, !.slot = cur_size[i]]
    /\ UNCHANGED <<cur_size, fcls, junk>>

(* The slot comes off the list, whose page may be freed by now, or the     *)
(* file grows.  Bound: what a freed page holds is a slot of the file.      *)
TakeSlot(i) ==
    \/ /\ fcls[i] # <<>>
       /\ fcls' = [fcls EXCEPT ![i] = SubSeq(@, 1, Len(@) - 1)]
       /\ \E s \in IF i \in pages THEN {fcls[i][Len(fcls[i])]} ELSE Slot :
             put' = [put EXCEPT !.file = i, !.slot = s]
       /\ junk' = (junk \/ i \notin pages)
       /\ UNCHANGED cur_size
    \/ /\ fcls[i] = <<>> /\ cur_size[i] < Slots
       /\ put' = [put EXCEPT !.file = i, !.slot = cur_size[i]]
       /\ cur_size' = [cur_size EXCEPT ![i] = @ + 1]
       /\ UNCHANGED <<fcls, junk>>

(* block_write, of a key that db_get did not find, or failed to get. *)
PutNew ==
    /\ Running /\ consumer = "get"
    /\ dbOpen /\ ~freed
    /\ \E i \in File : Proper(i) /\ TakeSlot(i)
    /\ consumer' = "write"
    /\ UNCHANGED <<mainV, freed, pages, disk, dbs, over, producer, chunk, ring, reads,
                   configRead, seen, lost, quiet, strayed>>

(* pwrite to the descriptor of the chunk file: the chunk file's, nobody's  *)
(* (EBADF) or a list file's.                                               *)
Pwrite ==
    LET to == fdOf[put.file] IN
    /\ Running /\ consumer = "write" /\ ~freed
    /\ to # Closed
    /\ data' = IF to[1] = "data" THEN [data EXCEPT ![to[2]][put.slot] = put.key] ELSE data
    /\ fclFile' = IF to[1] = "list" THEN [fclFile EXCEPT ![to[2]].damaged = TRUE] ELSE fclFile
    /\ strayed' = IF to[1] = "list" THEN strayed \cup {put.key} ELSE strayed
    /\ consumer' = "record"
    /\ UNCHANGED <<mainV, cfi, dbs, over, producer, chunk, ring, put, reads,
                   configRead, seen, lost, quiet, junk>>

(* It fails, or writes part of the chunk: the slot is taken and nothing is *)
(* recorded.                                                               *)
PwriteFails ==
    LET to == fdOf[put.file] IN
    /\ Running /\ consumer = "write" /\ ~freed
    /\ \/ UNCHANGED disk
       \/ /\ to[1] = "data" /\ data' = [data EXCEPT ![to[2]][put.slot] = None]
          /\ UNCHANGED fclFile
       \/ /\ to[1] = "list" /\ fclFile' = [fclFile EXCEPT ![to[2]].damaged = TRUE]
          /\ UNCHANGED data
    /\ Failed
    /\ UNCHANGED <<mainV, cfi, dbs, over, producer, chunk, ring, put, reads,
                   configRead, seen, quiet, strayed, junk>>

WriteHashDb ==
    /\ Running /\ consumer = "record" /\ dbOpen
    /\ db' = [db EXCEPT ![put.key] = <<put.file, put.slot>>]
    /\ Answered
    /\ UNCHANGED <<mainV, cfi, disk, dbOpen, over, producer, chunk, ring, put, reads,
                   configRead, seen, quiet, strayed, junk>>

(* The data has no record. *)
WriteHashDbFails ==
    /\ Running /\ consumer = "record" /\ dbOpen
    /\ Failed
    /\ UNCHANGED <<mainV, cfi, disk, dbs, over, producer, chunk, ring, put, reads,
                   configRead, seen, quiet, strayed, junk>>

(* cfi.fcls or cfi.fds is NULL, the database is closed, or no file is      *)
(* proper and the assertion of block_write fails: the end of the process.  *)
ConsumerDies ==
    /\ Running
    /\ \/ consumer = "get" /\ (~dbOpen \/ freed \/ \A i \in File : ~Proper(i))
       \/ consumer = "write" /\ freed
       \/ consumer = "record" /\ ~dbOpen
    /\ pc' = "dead"
    /\ UNCHANGED <<idx, listFd, fdOf, cfi, disk, dbs, threads, ghosts>>

Consumer == \/ Take \/ PutKnown \/ PutNew \/ Pwrite \/ PwriteFails \/ WriteHashDb
            \/ WriteHashDbFails \/ ConsumerDies

-----------------------------------------------------------------------------
Next == Main \/ Producer \/ Consumer

(* The scheduler runs every thread, and reads and writes of files return.  *)
Fairness == WF_vars(Main) /\ WF_vars(Producer) /\ WF_vars(Consumer)

Spec == Init /\ [][Next]_vars /\ Fairness

-----------------------------------------------------------------------------
(* A stop in which the consumer was done with everything read before main  *)
(* closed the input loses only what a failed write or database call lost:  *)
(* every other key read has a record, each record's data is in its slot,   *)
(* and each list file that release_chunk_file came to write is what the    *)
(* list was and names no slot in use.  It is the wait for this that main   *)
(* lacks.                                                                  *)
QuietStopKeepsAll ==
    quiet /\ pc = "exit" =>
        /\ \A k \in seen \ lost : db[k] # None
        /\ \A k \in Key : db[k] # None => data[db[k][1]][db[k][2]] = k
        /\ \A i \in File \ pages :
              /\ fclFile[i] = [saved |-> fcls[i], damaged |-> FALSE]
              /\ \A k \in Key, j \in DOMAIN fcls[i] : db[k] # <<i, fcls[i][j]>>

(* Whatever the teardown does to the threads, a record is wrong in two     *)
(* ways only: its data went to the descriptor a list file had taken over,  *)
(* or a slot came off a page that was freed.                               *)
RecordsWrongByTeardownOnly ==
    \A k \in Key : db[k] # None /\ ~junk /\ k \notin strayed =>
        data[db[k][1]][db[k][2]] = k

(* Both of these, and a death, need a chunk that was not stored when main  *)
(* closed the input.                                                       *)
QuietStopIsSafe == quiet => strayed = {} /\ ~junk /\ pc # "dead"

(* main waits for ever in two cases only: the producer was never created,  *)
(* or there is no consumer and the ring is full.                           *)
Stuck == /\ pc = "spin" /\ ~over
         /\ \/ producer = "none"
            \/ producer = "wait" /\ consumer = "none" /\ Len(ring) = BUFF_QUEUE_SIZE

SpinEndsUnlessStuck == pc = "spin" ~> (pc \in {"exit", "dead"} \/ Stuck)

(* And then nothing helps. *)
StuckForEver == [][Stuck => Stuck']_vars
=============================================================================
