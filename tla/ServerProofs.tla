----------------------------- MODULE ServerProofs -----------------------------
(***************************************************************************)
(* What Server promises for any number of chunk files, slots, keys and     *)
(* reads, and any length of the ring.                                      *)
(***************************************************************************)
EXTENDS Server, TLAPS

Main0 == {"producer", "consumer", "spin", "input"}   \* main has closed nothing

(* Who has started, and what `over' says. *)
Threads ==
    /\ pc = "producer" => producer = "none"
    /\ pc = "consumer" => producer # "none" /\ consumer = "none"
    /\ producer = "none" => consumer = "none"
    /\ over => producer = "done"

(* A number above 0 is of its chunk file, of a list file or of nothing.    *)
Descriptors ==
    \A n \in File : fdOf[n] \in {Closed, Kind("data", n)} \cup ({"list"} \X File)

(* Before the teardown nothing is wrong; a quiet one finds all stored.     *)
Teardown ==
    /\ pc \in Main0 => /\ ~quiet /\ strayed = {} /\ ~junk /\ pages = File
                       /\ \A i \in File : fdOf[i] = Kind("data", i)
    /\ quiet => AllStored /\ strayed = {} /\ ~junk /\ pc # "dead"

(* The slots of a list are different and were handed out before. *)
ListsAreSets ==
    \A i \in File : \A j \in DOMAIN fcls[i] :
        /\ fcls[i][j] < cur_size[i]
        /\ \A l \in DOMAIN fcls[i] : j # l => fcls[i][j] # fcls[i][l]

InUse(i, s) == s < cur_size[i] /\ \A j \in DOMAIN fcls[i] : fcls[i][j] # s

Writing == consumer \in {"write", "record"}

(* No slot that a record names, or that is being written, is on a list,    *)
(* and no record names the slot that is being written.                     *)
SlotsInUse ==
    /\ ~junk => \A k \in Key : db[k] # None => InUse(db[k][1], db[k][2])
    /\ ~junk /\ Writing => /\ InUse(put.file, put.slot)
                           /\ \A k \in Key : db[k] # <<put.file, put.slot>>

(* The data of a chunk that is about to be recorded is in its slot.        *)
DataWritten ==
    ~junk /\ consumer = "record" /\ put.key \notin strayed =>
        data[put.file][put.slot] = put.key

(* A key that was read is recorded, lost to a put that failed, or on its   *)
(* way.                                                                    *)
Kept(k) == \/ db[k] # None \/ k \in lost
           \/ \E j \in DOMAIN ring : ring[j] = k
           \/ consumer \in {"get", "write", "record"} /\ put.key = k
           \/ producer = "wait" /\ chunk = k

KeysKept == pc \in Main0 \/ quiet => \A k \in seen : Kept(k)

(* The teardown reaches the files in order, each once. *)
ListsSaved ==
    /\ pc \in Main0 \cup {"fopen", "parse"} => idx = 1 /\ pages = File
    /\ pc \in {"data", "list", "write"} => \A i \in File : i >= idx => i \in pages
    /\ pc = "close" => \A i \in File : i > idx => i \in pages
    /\ quiet /\ pc = "write" => ~fclFile[idx].damaged
    /\ quiet => \A i \in File \ pages : fclFile[i] = [saved |-> fcls[i], damaged |-> FALSE]

Inv == /\ TypeOK /\ Threads /\ Descriptors /\ Teardown /\ ListsAreSets /\ SlotsInUse
       /\ DataWritten /\ RecordsWrongByTeardownOnly /\ KeysKept /\ ListsSaved

LEMMA Constants ==
    /\ Files \in Nat /\ Files >= 1 /\ Slots \in Nat /\ Slots >= 1
    /\ BUFF_QUEUE_SIZE \in Nat /\ BUFF_QUEUE_SIZE >= 1 /\ MaxChunks \in Nat
    /\ Config \in Key /\ None \notin Key
    /\ InitFree \subseteq Seq(Slot) /\ InitSize \subseteq 0 .. Slots
    /\ 1 \in File /\ 0 \in Slot /\ 0 \in Fd /\ File \subseteq Fd
  BY ServerAssumption DEF File, Slot, Fd

LEMMA InitType == Init => TypeOK
  <1> SUFFICES ASSUME Init PROVE TypeOK
    OBVIOUS
  <1>1. fcls \in [File -> Seq(Slot)]
    BY Constants DEF Init
  <1>2. cur_size \in [File -> 0 .. Slots]
    BY Constants DEF Init
  <1>3. fdOf \in [Fd -> Kinds]
    <2> PICK input \in {Closed, Kind("input", 0)} :
            fdOf = [n \in Fd |-> IF n = 0 THEN input ELSE Kind("data", n)]
      BY DEF Init
    <2>1. \A n \in Fd : n # 0 => n \in File
      BY Constants DEF Fd, File
    <2>2. QED
      BY <2>1 DEF Kinds, Closed, Kind
  <1>4. fclFile \in [File -> [saved : Seq(Slot), damaged : BOOLEAN]]
    BY <1>1 DEF Init
  <1>5. data \in [File -> [Slot -> Key \cup {None}]]
    BY DEF Init
  <1>6. db \in [Key -> (File \X Slot) \cup {None}]
    BY DEF Init
  <1>7. ring \in Seq(Key) /\ Len(ring) <= BUFF_QUEUE_SIZE
    BY Constants DEF Init
  <1>8. put \in [key : Key, file : File, slot : Slot]
    BY Constants DEF Init
  <1>9. /\ pc = "producer" /\ producer = "none" /\ consumer = "none"
        /\ idx \in File /\ listFd \in Fd /\ pages \subseteq File
        /\ chunk \in Key /\ reads \in 0 .. MaxChunks
        /\ seen \subseteq Key /\ lost \subseteq Key /\ strayed \subseteq Key
    BY Constants DEF Init
  <1>10. /\ configRead \in BOOLEAN /\ freed \in BOOLEAN /\ dbOpen \in BOOLEAN
         /\ over \in BOOLEAN /\ quiet \in BOOLEAN /\ junk \in BOOLEAN
    BY DEF Init
  <1>11. /\ pc \in {"producer", "consumer", "spin", "input", "fopen", "parse", "data",
                    "list", "write", "close", "free", "db", "return", "exit", "dead"}
         /\ producer \in {"none", "read", "wait", "done"}
         /\ consumer \in {"none", "wait", "get", "write", "record"}
    BY <1>9
  <1>12. QED
    BY <1>1, <1>2, <1>3, <1>4, <1>5, <1>6, <1>7, <1>8, <1>9, <1>10, <1>11, Zenon DEF TypeOK


LEMMA MainType == TypeOK /\ Main => TypeOK'
  <1> SUFFICES ASSUME TypeOK, Main PROVE TypeOK'
    OBVIOUS
  <1>K. {Closed, Kind("input", 0), Kind("config", 0)} \subseteq Kinds
        /\ Kind("list", idx) \in Kinds
    BY DEF Kinds, Kind, TypeOK
  <1>N. idx < Files => idx + 1 \in File
    BY Constants DEF TypeOK, File
  <1>1. CASE StartProducer \/ StartConsumer \/ StartFails \/ Spin
    <2>1. UNCHANGED <<idx, listFd, fdOf, cfi, disk, dbs, over, chunk, ring, put, reads,
                      configRead, ghosts>>
          /\ pc' \in {"consumer", "input", "spin"}
          /\ producer' \in {producer, "read"} /\ consumer' \in {consumer, "wait"}
      BY <1>1 DEF StartProducer, StartConsumer, StartFails, Spin, Goto, threads
    <2>2. QED
      BY <2>1, SMTT(60) DEF TypeOK, cfi, disk, dbs, ghosts
  <1>2. CASE CloseInput
    <2>1. quiet' \in BOOLEAN
      BY <1>2 DEF CloseInput, AllStored
    <2>2. fdOf' \in [Fd -> Kinds]
      BY <1>2, <1>K DEF CloseInput, TypeOK
    <2>3. pc' = "fopen" /\ UNCHANGED <<idx, listFd, cfi, disk, dbs, threads, seen, lost, strayed, junk>>
      BY <1>2 DEF CloseInput, Goto
    <2>4. QED
      BY <2>1, <2>2, <2>3, SMTT(60) DEF TypeOK, cfi, disk, dbs, threads
  <1>3. CASE FopenConfig \/ CloseData \/ CloseList \/ OpenListFails
    <2>1. fdOf' \in [Fd -> Kinds]
      BY <1>3, <1>K DEF FopenConfig, CloseData, CloseList, OpenListFails, TypeOK
    <2>2. pc' \in {"parse", "db", "list", "data", "free"} /\ idx' \in File
      BY <1>3, <1>N DEF FopenConfig, CloseData, CloseList, OpenListFails, Goto, NextFile, TypeOK
    <2>3. UNCHANGED <<listFd, cfi, disk, dbs, threads, ghosts>>
      BY <1>3 DEF FopenConfig, CloseData, CloseList, OpenListFails
    <2>4. QED
      BY <2>1, <2>2, <2>3, SMTT(60) DEF TypeOK, cfi, disk, dbs, threads, ghosts
  <1>4. CASE Parse \/ meta_server_close \/ Return
    <2>1. UNCHANGED <<idx, listFd, fdOf, cfi, disk, db, over, producer, chunk, ring,
                      consumer, put, reads, ghosts>>
          /\ pc' \in {"db", "data", "return", "exit"}
      BY <1>4 DEF Parse, meta_server_close, Return, Goto, dbs, threads
    <2>2. configRead' \in BOOLEAN /\ dbOpen' \in BOOLEAN
      BY <1>4, Zenon DEF Parse, meta_server_close, Return, dbs, threads, TypeOK
    <2>3. QED
      BY <2>1, <2>2, SMTT(60) DEF TypeOK, cfi, disk, ghosts
  <1>5. CASE OpenList
    <2>1. listFd' \in Fd /\ fdOf' \in [Fd -> Kinds]
      BY <1>5, <1>K DEF OpenList, TypeOK
    <2>2. fclFile' \in [File -> [saved : Seq(Slot), damaged : BOOLEAN]]
      BY <1>5 DEF OpenList, TypeOK
    <2>3. pc' = "write" /\ UNCHANGED <<idx, cfi, data, dbs, threads, ghosts>>
      BY <1>5 DEF OpenList, Goto
    <2>4. QED
      BY <2>1, <2>2, <2>3, SMTT(60) DEF TypeOK, cfi, dbs, threads, ghosts
  <1>6. CASE WriteList
    <2>1. fclFile' \in [File -> [saved : Seq(Slot), damaged : BOOLEAN]]
      BY <1>6, ZenonT(60) DEF WriteList, TypeOK
    <2>2. pc' = "close" /\ pages' \subseteq File
          /\ UNCHANGED <<idx, listFd, fdOf, freed, cur_size, fcls, data, dbs, threads, ghosts>>
      BY <1>6 DEF WriteList, Goto, TypeOK
    <2>3. QED
      BY <2>1, <2>2, SMTT(60) DEF TypeOK, dbs, threads, ghosts
  <1>7. CASE FreeCfi
    <2>1. fdOf' \in [Fd -> Kinds]
      BY <1>7, <1>K DEF FreeCfi, TypeOK
    <2>2. pc' = "db" /\ freed' \in BOOLEAN
          /\ UNCHANGED <<idx, listFd, pages, cur_size, fcls, disk, dbs, threads, ghosts>>
      BY <1>7 DEF FreeCfi, Goto
    <2>3. QED
      BY <2>1, <2>2, SMTT(60) DEF TypeOK, disk, dbs, threads, ghosts
  <1>8. QED
    BY <1>1, <1>2, <1>3, <1>4, <1>5, <1>6, <1>7 DEF Main

LEMMA ProducerType == TypeOK /\ Producer => TypeOK'
  <1> SUFFICES ASSUME TypeOK, Producer PROVE TypeOK'
    OBVIOUS
  <1>1. CASE ReadChunk
    <2>1. PICK k \in Key : Got(k)
      BY <1>1, Constants DEF ReadChunk
    <2>2. reads' \in 0 .. MaxChunks
      BY <2>1, Constants, SMTT(60) DEF Got, TypeOK
    <2>3. configRead' \in BOOLEAN
      BY <1>1, Zenon DEF ReadChunk, TypeOK
    <2>4. producer' = "wait" /\ chunk' \in Key /\ seen' \subseteq Key /\ UNCHANGED over
      BY <2>1 DEF Got, TypeOK
    <2>5. UNCHANGED <<mainV, cfi, disk, dbs, ring, consumer, put, lost, quiet, strayed, junk>>
      BY <1>1 DEF ReadChunk
    <2>6. QED
      BY <2>2, <2>3, <2>4, <2>5, SMTT(60) DEF TypeOK, mainV, cfi, disk, dbs
  <1>2. CASE EndOfInput
    <2>1. producer' = "done" /\ over' = TRUE
          /\ UNCHANGED <<mainV, cfi, disk, dbs, chunk, ring, consumer, put, reads,
                         configRead, ghosts>>
      BY <1>2 DEF EndOfInput
    <2>2. QED
      BY <2>1, SMTT(60) DEF TypeOK, mainV, cfi, disk, dbs, ghosts
  <1>3. CASE Send
    <2>1. ring' \in Seq(Key) /\ Len(ring') <= BUFF_QUEUE_SIZE
      BY <1>3, Constants DEF Send, TypeOK
    <2>2. producer' = "read"
          /\ UNCHANGED <<mainV, cfi, disk, dbs, over, chunk, consumer, put, reads,
                         configRead, ghosts>>
      BY <1>3 DEF Send
    <2>3. QED
      BY <2>1, <2>2, SMTT(60) DEF TypeOK, mainV, cfi, disk, dbs, ghosts
  <1>4. QED
    BY <1>1, <1>2, <1>3 DEF Producer

LEMMA ConsumerType == TypeOK /\ Consumer => TypeOK'
  <1> SUFFICES ASSUME TypeOK, Consumer PROVE TypeOK'
    OBVIOUS
  <1>1. CASE Take
    <2>1. ring \in Seq(Key) /\ ring # <<>> /\ ring' = Tail(ring)
          /\ Len(ring) <= BUFF_QUEUE_SIZE
      BY <1>1 DEF Take, TypeOK
    <2>2. ring' \in Seq(Key) /\ Head(ring) \in Key /\ Len(ring') = Len(ring) - 1
      BY <2>1
    <2>3. Len(ring') <= BUFF_QUEUE_SIZE
      BY <2>1, <2>2, Constants
    <2>4. put' \in [key : Key, file : File, slot : Slot]
      BY <1>1, <2>2 DEF Take, TypeOK
    <2>5. consumer' = "get"
          /\ UNCHANGED <<mainV, cfi, disk, dbs, over, producer, chunk, reads, configRead, ghosts>>
      BY <1>1 DEF Take
    <2>6. ring' \in Seq(Key)
      BY <2>2
    <2>7. QED
      BY <2>6, <2>3, <2>4, <2>5, SMTT(60) DEF TypeOK, mainV, cfi, disk, dbs, ghosts
  <1>2. CASE PutKnown \/ WriteHashDbFails
    <2>1. consumer' = "wait" /\ lost' \subseteq Key
          /\ UNCHANGED <<mainV, cfi, disk, dbs, over, producer, chunk, ring, put, reads,
                         configRead, seen, quiet, strayed, junk>>
      BY <1>2 DEF PutKnown, WriteHashDbFails, Answered, Failed, TypeOK
    <2>2. QED
      BY <2>1, SMTT(60) DEF TypeOK, mainV, cfi, disk, dbs
  <1>3. CASE PutNew
    <2> PICK i \in File : TakeSlot(i)
      BY <1>3 DEF PutNew
    <2>1. cur_size' \in [File -> 0 .. Slots]
      <3>1. cur_size \in [File -> 0 .. Slots]
        BY DEF TypeOK
      <3>2. cur_size[i] < Slots => cur_size[i] + 1 \in 0 .. Slots
        BY <3>1, Constants
      <3>3. QED
        BY <3>1, <3>2 DEF TakeSlot
    <2>2. fcls' \in [File -> Seq(Slot)]
      <3>1. fcls[i] # <<>> => SubSeq(fcls[i], 1, Len(fcls[i]) - 1) \in Seq(Slot)
        BY SMTT(60) DEF TypeOK
      <3>2. QED
        BY <3>1 DEF TakeSlot, TypeOK
    <2>3. put' \in [key : Key, file : File, slot : Slot]
      <3>1. CASE fcls[i] # <<>>
        <4>1. fcls[i][Len(fcls[i])] \in Slot
          BY <3>1 DEF TypeOK
        <4>2. QED
          BY <3>1, <4>1, ZenonT(60) DEF TakeSlot, TypeOK
      <3>2. CASE fcls[i] = <<>>
        <4>1. cur_size[i] < Slots => cur_size[i] \in Slot
          BY Constants, SMTT(60) DEF Slot, TypeOK
        <4>2. QED
          BY <3>2, <4>1 DEF TakeSlot, TypeOK
      <3>3. QED
        BY <3>1, <3>2
    <2>4. junk' \in BOOLEAN
      BY DEF TakeSlot, TypeOK
    <2>5. consumer' = "write"
          /\ UNCHANGED <<mainV, freed, pages, disk, dbs, over, producer, chunk, ring, reads,
                         configRead, seen, lost, quiet, strayed>>
      BY <1>3 DEF PutNew
    <2>6. consumer' = "write"
          /\ UNCHANGED <<pc, idx, listFd, fdOf>> /\ UNCHANGED <<freed, pages, data, fclFile>>
          /\ UNCHANGED <<db, dbOpen, over, producer, chunk, ring, reads>>
          /\ UNCHANGED <<configRead, seen, lost, quiet, strayed>>
      BY <2>5, Zenon DEF mainV, disk, dbs
    <2>7. QED
      BY <2>1, <2>2, <2>3, <2>4, <2>6, ZenonT(60) DEF TypeOK
  <1>4. CASE Pwrite
    <2> DEFINE to == fdOf[put.file]
    <2>1. to \in Kinds /\ put.key \in Key /\ put.slot \in Slot
      BY Constants DEF TypeOK
    <2>2. to[1] \in {"data", "list"} => to[2] \in File
      BY <2>1 DEF Kinds, Closed, Kind
    <2>3. data' \in [File -> [Slot -> Key \cup {None}]]
      BY <1>4, <2>1, <2>2 DEF Pwrite, TypeOK
    <2>4. fclFile' \in [File -> [saved : Seq(Slot), damaged : BOOLEAN]]
      BY <1>4, <2>1, <2>2, ZenonT(60) DEF Pwrite, TypeOK
    <2>5. strayed' \subseteq Key /\ consumer' = "record"
          /\ UNCHANGED <<mainV, cfi, dbs, over, producer, chunk, ring, put, reads,
                         configRead, seen, lost, quiet, junk>>
      BY <1>4, <2>1 DEF Pwrite, TypeOK
    <2>6. QED
      BY <2>3, <2>4, <2>5, SMTT(60) DEF TypeOK, mainV, cfi, dbs
  <1>5. CASE WriteHashDb
    <2>1. db' \in [Key -> (File \X Slot) \cup {None}]
      BY <1>5 DEF WriteHashDb, TypeOK
    <2>2. consumer' = "wait" /\ lost' \subseteq Key
          /\ UNCHANGED <<mainV, cfi, disk, dbOpen, over, producer, chunk, ring, put, reads,
                         configRead, seen, quiet, strayed, junk>>
      BY <1>5 DEF WriteHashDb, Answered, TypeOK
    <2>3. QED
      BY <2>1, <2>2, SMTT(60) DEF TypeOK, mainV, cfi, disk
  <1>6. CASE ConsumerDies
    <2>1. pc' = "dead" /\ UNCHANGED <<idx, listFd, fdOf, cfi, disk, dbs, threads, ghosts>>
      BY <1>6 DEF ConsumerDies
    <2>2. QED
      BY <2>1, SMTT(60) DEF TypeOK, cfi, disk, dbs, threads, ghosts
  <1>7. CASE PwriteFails
    <2> DEFINE to == fdOf[put.file]
    <2>1. to \in Kinds /\ put.key \in Key /\ put.slot \in Slot
      BY Constants DEF TypeOK
    <2>2. to[1] \in {"data", "list"} => to[2] \in File
      BY <2>1 DEF Kinds, Closed, Kind
    <2>3. data' \in [File -> [Slot -> Key \cup {None}]]
      <3>1. \/ UNCHANGED data
            \/ to[1] = "data" /\ data' = [data EXCEPT ![to[2]][put.slot] = None]
        BY <1>7 DEF PwriteFails, disk
      <3>2. data \in [File -> [Slot -> Key \cup {None}]]
        BY DEF TypeOK
      <3> HIDE DEF to
      <3>3. QED
        BY <2>1, <2>2, <3>1, <3>2
    <2>4. fclFile' \in [File -> [saved : Seq(Slot), damaged : BOOLEAN]]
      <3>1. \/ UNCHANGED fclFile
            \/ to[1] = "list" /\ fclFile' = [fclFile EXCEPT ![to[2]].damaged = TRUE]
        BY <1>7 DEF PwriteFails, disk
      <3>2. fclFile \in [File -> [saved : Seq(Slot), damaged : BOOLEAN]]
        BY DEF TypeOK
      <3> HIDE DEF to
      <3>3. QED
        BY <2>2, <3>1, <3>2, ZenonT(60)
    <2>5. lost' \subseteq Key /\ consumer' = "wait"
          /\ UNCHANGED <<mainV, cfi, dbs, over, producer, chunk, ring, put, reads,
                         configRead, seen, quiet, strayed, junk>>
      BY <1>7, <2>1 DEF PwriteFails, Failed, TypeOK
    <2>6. QED
      BY <2>3, <2>4, <2>5, SMTT(60) DEF TypeOK, mainV, cfi, dbs
  <1>8. QED
    BY <1>1, <1>2, <1>3, <1>4, <1>5, <1>6, <1>7 DEF Consumer

LEMMA StepType == TypeOK /\ [Next]_vars => TypeOK'
  <1>1. TypeOK /\ UNCHANGED vars => TypeOK'
    BY SMTT(60) DEF TypeOK, vars, mainV, cfi, disk, dbs, threads, ghosts
  <1>2. QED
    BY <1>1, MainType, ProducerType, ConsumerType DEF Next

(* Types of the server's state; the ring never holds more chunks than it   *)
(* has slots, though producer and consumer run beside main's teardown.     *)
THEOREM ServerTypes == Spec => []TypeOK
  <1>1. QED
    BY InitType, StepType, PTL DEF Spec

-----------------------------------------------------------------------------
(* What main and the producer leave to the consumer. *)
LEMMA MainKeeps ==
  ASSUME Main, Threads
  PROVE  /\ UNCHANGED <<cur_size, fcls, data, db, put, ring, seen, lost, strayed, junk, chunk,
                      over>>
         /\ consumer' = consumer \/ (consumer = "none" /\ consumer' = "wait")
         /\ producer' = producer \/ (producer = "none" /\ producer' = "read")
  BY DEF Main, StartProducer, StartConsumer, StartFails, Spin, CloseInput, FopenConfig, Parse,
         CloseData, OpenList, OpenListFails, WriteList, CloseList, FreeCfi, meta_server_close,
         Return, Threads, Goto, cfi, disk, dbs, threads, ghosts

LEMMA ProducerKeeps ==
  ASSUME Producer
  PROVE  UNCHANGED <<mainV, cfi, disk, dbs, consumer, put, lost, quiet, strayed, junk>>
  BY SMTT(60) DEF Producer, ReadChunk, EndOfInput, Send, ghosts

LEMMA ConsumerKeeps ==
  ASSUME Consumer
  PROVE  /\ UNCHANGED <<idx, listFd, fdOf, freed, pages, dbOpen, over, producer, chunk, reads,
                        configRead, seen, quiet>>
         /\ pc' = pc \/ pc' = "dead"
  BY DEF Consumer, Take, PutKnown, PutNew, Pwrite, PwriteFails,
         WriteHashDb, WriteHashDbFails, ConsumerDies,
         mainV, cfi, disk, dbs, threads, ghosts

LEMMA InitInv == Init => Inv
  <1> SUFFICES ASSUME Init PROVE Inv
    OBVIOUS
  <1>1. TypeOK
    BY InitType
  <1>2. \A n \in File : fdOf[n] = Kind("data", n)
    BY Constants DEF Init, File, Fd
  <1>3. ListsAreSets
    <2> SUFFICES ASSUME NEW i \in File, NEW j \in DOMAIN fcls[i]
                 PROVE  /\ fcls[i][j] < cur_size[i]
                        /\ \A l \in DOMAIN fcls[i] : j # l => fcls[i][j] # fcls[i][l]
      BY DEF ListsAreSets
    <2>1. fcls[i] \in InitFree /\ fcls[i][j] < cur_size[i]
      BY DEF Init
    <2>2. QED
      BY <2>1, ServerAssumption
  <1>4. pc = "producer" /\ idx = 1 /\ pages = File /\ ~over /\ ~quiet /\ ~junk
        /\ strayed = {} /\ seen = {} /\ producer = "none" /\ consumer = "none"
        /\ \A k \in Key : db[k] = None
    BY DEF Init
  <1>5. Threads /\ Descriptors /\ Teardown
    BY <1>2, <1>4 DEF Threads, Descriptors, Teardown
  <1>6. SlotsInUse /\ DataWritten /\ RecordsWrongByTeardownOnly /\ KeysKept
    BY <1>4 DEF SlotsInUse, Writing, DataWritten, RecordsWrongByTeardownOnly, KeysKept
  <1>7. ListsSaved
    BY <1>4 DEF ListsSaved
  <1>8. QED
    BY <1>1, <1>3, <1>5, <1>6, <1>7 DEF Inv

LEMMA StepThreads == ASSUME Threads, [Next]_vars PROVE Threads'
  <1>1. CASE Main
    <2>1. CASE StartProducer \/ StartConsumer
      <3>1. over' => producer' = "done"
        <4>1. over' = over
          BY <2>1, Zenon DEF StartProducer, StartConsumer
        <4>2. over => producer = "done" /\ ~StartProducer
          BY DEF StartProducer, Goto, Threads
        <4>3. StartConsumer => producer' = producer
          BY DEF StartConsumer
        <4>4. QED
          BY <2>1, <4>1, <4>2, <4>3, Zenon
      <3>2. pc' \in {"consumer", "input"} /\ producer' # "none"
            /\ (pc' = "consumer" => consumer' = "none")
        BY <2>1 DEF StartProducer, StartConsumer, Goto, Threads
      <3>3. QED
        BY <3>1, <3>2, Zenon DEF Threads
    <2>2. CASE ~(StartProducer \/ StartConsumer)
      <3>1. pc' \notin {"producer", "consumer"} /\ UNCHANGED <<over, producer, consumer>>
        BY <1>1, <2>2 DEF Main, StartFails, Spin, CloseInput, FopenConfig, Parse, CloseData,
           OpenList, OpenListFails, WriteList, CloseList, FreeCfi, meta_server_close, Return,
           NextFile, Goto, threads
      <3>2. QED
        BY <3>1, Zenon DEF Threads
    <2>3. QED
      BY <2>1, <2>2
  <1>2. CASE Producer
    BY <1>2 DEF Producer, ReadChunk, Got, EndOfInput, Send, Threads, mainV
  <1>3. CASE Consumer
    <2>1. consumer # "none"
      BY <1>3 DEF Consumer, Take, PutKnown, PutNew, Pwrite, PwriteFails,
         WriteHashDb, WriteHashDbFails, ConsumerDies
    <2>2. QED
      BY <1>3, <2>1, ConsumerKeeps, SMTT(60) DEF Threads
  <1>4. CASE UNCHANGED vars
    BY <1>4 DEF vars, mainV, threads, Threads
  <1>5. QED
    BY <1>1, <1>2, <1>3, <1>4 DEF Next

LEMMA StepDescriptors ==
  ASSUME TypeOK, Descriptors, [Next]_vars PROVE Descriptors'
  <1>1. CASE CloseInput \/ FopenConfig \/ CloseData \/ OpenList \/ CloseList \/ FreeCfi
    <2> SUFFICES ASSUME NEW n \in File
                 PROVE  fdOf'[n] \in {Closed, Kind("data", n)} \cup ({"list"} \X File)
      BY DEF Descriptors
    <2>1. n # 0 /\ n \in Fd
      BY Constants DEF File
    <2>2. fdOf'[n] = fdOf[n] \/ fdOf'[n] = Closed \/ fdOf'[n] = Kind("list", idx)
      BY <1>1, <2>1 DEF CloseInput, FopenConfig, CloseData, OpenList, CloseList, FreeCfi, TypeOK
    <2>3. Kind("list", idx) \in {"list"} \X File
      BY DEF Kind, TypeOK
    <2>4. QED
      BY <2>2, <2>3 DEF Descriptors
  <1>2. UNCHANGED fdOf => Descriptors'
    BY DEF Descriptors
  <1>3. QED
    BY <1>1, <1>2, ProducerKeeps, ConsumerKeeps DEF Next, Main, StartProducer, StartConsumer,
       StartFails, Spin, Parse, OpenListFails, WriteList, meta_server_close, Return, vars, mainV

LEMMA StepTeardown ==
  ASSUME TypeOK, Threads, Teardown, [Next]_vars PROVE Teardown'
  <1>1. CASE Main
    <2>1. CASE StartProducer \/ StartConsumer \/ StartFails \/ Spin
      BY <2>1 DEF StartProducer, StartConsumer, StartFails, Spin, Goto, Teardown, Main0,
         AllStored, cfi, ghosts
    <2>2. CASE CloseInput
      BY <2>2 DEF CloseInput, Goto, Teardown, Main0, AllStored, threads
    <2>3. CASE ~(StartProducer \/ StartConsumer \/ StartFails \/ Spin \/ CloseInput)
      <3>1. pc' \notin Main0 /\ pc' # "dead" /\ UNCHANGED <<over, ring, consumer, ghosts>>
        BY <1>1, <2>3 DEF Main, FopenConfig, Parse, CloseData, OpenList, OpenListFails, WriteList,
           CloseList, FreeCfi, meta_server_close, Return, NextFile, Goto, Main0, threads
      <3>2. QED
        BY <3>1 DEF Teardown, AllStored, ghosts
    <2>4. QED
      BY <2>1, <2>2, <2>3
  <1>2. CASE Producer
    <2>1. quiet => FALSE
      BY <1>2 DEF Producer, ReadChunk, EndOfInput, Send, Teardown, Threads, AllStored
    <2>2. QED
      BY <1>2, <2>1, ProducerKeeps DEF Teardown, mainV, cfi
  <1>3. CASE Consumer
    <2>1. quiet => FALSE
      BY <1>3 DEF Consumer, Take, PutKnown, PutNew, Pwrite, PwriteFails,
         WriteHashDb, WriteHashDbFails, ConsumerDies, Teardown,
         AllStored
    <2>2. pc' \in Main0 => pc \in Main0 /\ pages' = File
                           /\ \A i \in File : fdOf'[i] = Kind("data", i)
      BY <1>3, ConsumerKeeps DEF Teardown, Main0
    <2>3. pc' \in Main0 => strayed' = {} /\ ~junk'
      <3> SUFFICES ASSUME pc' \in Main0 PROVE strayed' = {} /\ ~junk'
        OBVIOUS
      <3>1. pc \in Main0 /\ strayed = {} /\ ~junk /\ pages = File
            /\ fdOf[put.file] = Kind("data", put.file)
        BY <2>2 DEF Teardown, TypeOK
      <3>2. CASE PutNew
        <4>1. PICK i \in File : TakeSlot(i)
          BY <3>2 DEF PutNew
        <4>2. ~junk'
          BY <3>1, <4>1, Zenon DEF TakeSlot
        <4>3. QED
          BY <3>1, <3>2, <4>2 DEF PutNew
      <3>3. CASE Pwrite
        BY <3>1, <3>3 DEF Pwrite, Kind, Closed
      <3>4. QED
        BY <1>3, <3>1, <3>2, <3>3 DEF Consumer, Take, PutKnown, PwriteFails, WriteHashDb,
           WriteHashDbFails, ConsumerDies, ghosts
    <2>4. QED
      BY <1>3, <2>1, <2>2, <2>3, ConsumerKeeps, SMTT(60) DEF Teardown
  <1>4. CASE UNCHANGED vars
    BY <1>4 DEF Teardown, AllStored, vars, mainV, cfi, threads, ghosts
  <1>5. QED
    BY <1>1, <1>2, <1>3, <1>4 DEF Next

(* TakeSlot: the slot leaves the list, or lies past the slots counted.     *)
LEMMA TakenSlot ==
  ASSUME TypeOK, ListsAreSets, NEW i \in File, TakeSlot(i)
  PROVE  /\ put'.file = i /\ put'.key = put.key
         /\ cur_size[i] <= cur_size'[i]
         /\ \A f \in File : f # i => cur_size'[f] = cur_size[f] /\ fcls'[f] = fcls[f]
         /\ DOMAIN fcls'[i] \subseteq DOMAIN fcls[i]
         /\ \A j \in DOMAIN fcls'[i] : fcls'[i][j] = fcls[i][j]
         /\ ~junk' => /\ ~junk
                      /\ put'.slot < cur_size'[i]
                      /\ \A j \in DOMAIN fcls'[i] : fcls[i][j] # put'.slot
                      /\ \/ put'.slot = cur_size[i]
                         \/ \E j \in DOMAIN fcls[i] : fcls[i][j] = put'.slot
  <1>1. fcls[i] \in Seq(Slot) /\ cur_size[i] \in Int /\ put \in [key : Key, file : File, slot : Slot]
    BY Constants DEF TypeOK
  <1>2. CASE fcls[i] # <<>>
    <2> DEFINE n == Len(fcls[i])
    <2>1. PICK s \in IF i \in pages THEN {fcls[i][n]} ELSE Slot :
              put' = [put EXCEPT !.file = i, !.slot = s]
      BY <1>2 DEF TakeSlot
    <2>2. /\ fcls' = [fcls EXCEPT ![i] = SubSeq(@, 1, n - 1)] /\ UNCHANGED cur_size
      BY <1>2 DEF TakeSlot
    <2>3. n \in Nat /\ n >= 1 /\ DOMAIN fcls[i] = 1 .. n
      BY <1>1, <1>2
    <2>4. fcls'[i] = SubSeq(fcls[i], 1, n - 1)
      BY <2>2 DEF TypeOK
    <2>5. DOMAIN fcls'[i] = 1 .. (n - 1) /\ \A j \in 1 .. (n - 1) : fcls'[i][j] = fcls[i][j]
      BY <1>1, <2>3, <2>4
    <2>6. put'.file = i /\ put'.key = put.key /\ put'.slot = s
      BY <1>1, <2>1
    <2>7. junk' <=> (junk \/ i \notin pages)
      BY <1>2, Zenon DEF TakeSlot
    <2>8. ~junk' => ~junk /\ s = fcls[i][n]
      BY <2>1, <2>7
    <2>9. fcls[i][n] < cur_size[i] /\ \A j \in 1 .. (n - 1) : fcls[i][j] # fcls[i][n]
      BY <2>3 DEF ListsAreSets
    <2>10. \A f \in File : f # i => cur_size'[f] = cur_size[f] /\ fcls'[f] = fcls[f]
      BY <2>2 DEF TypeOK
    <2>11. ~junk' => /\ ~junk /\ s < cur_size'[i]
                     /\ \A j \in DOMAIN fcls'[i] : fcls[i][j] # s
                     /\ fcls[i][n] = s /\ n \in DOMAIN fcls[i]
      BY <2>2, <2>3, <2>5, <2>8, <2>9
    <2>12. cur_size[i] <= cur_size'[i] /\ DOMAIN fcls'[i] \subseteq DOMAIN fcls[i]
      BY <1>1, <2>2, <2>3, <2>5
    <2> HIDE DEF n
    <2>13. QED
      BY <2>5, <2>6, <2>10, <2>11, <2>12
  <1>3. CASE fcls[i] = <<>>
    <2>1. /\ put' = [put EXCEPT !.file = i, !.slot = cur_size[i]]
          /\ cur_size' = [cur_size EXCEPT ![i] = @ + 1] /\ UNCHANGED fcls
      BY <1>3 DEF TakeSlot
    <2>2. ~junk' => ~junk
      BY <1>3, Zenon DEF TakeSlot
    <2>3. cur_size'[i] = cur_size[i] + 1
      BY <2>1 DEF TypeOK
    <2>4. put'.file = i /\ put'.key = put.key /\ put'.slot = cur_size[i]
      BY <1>1, <2>1
    <2>5. \A f \in File : f # i => cur_size'[f] = cur_size[f]
      BY <2>1 DEF TypeOK
    <2>6. DOMAIN fcls[i] = {}
      BY <1>3
    <2>7. QED
      BY <1>1, <2>1, <2>2, <2>3, <2>4, <2>5, <2>6
  <1>4. QED
    BY <1>2, <1>3

LEMMA StepLists ==
  ASSUME TypeOK, Threads, ListsAreSets, [Next]_vars PROVE ListsAreSets'
  <1>1. CASE PutNew
    <2> PICK i \in File : TakeSlot(i)
      BY <1>1 DEF PutNew
    <2> SUFFICES ASSUME NEW f \in File, NEW j \in DOMAIN fcls'[f]
                 PROVE  /\ fcls'[f][j] < cur_size'[f]
                        /\ \A l \in DOMAIN fcls'[f] : j # l => fcls'[f][j] # fcls'[f][l]
      BY DEF ListsAreSets
    <2>1. CASE f # i
      BY <2>1, TakenSlot DEF ListsAreSets
    <2>2. CASE f = i
      <3>1. TypeOK'
        BY StepType
      <3>2. cur_size[i] \in 0 .. Slots /\ cur_size'[i] \in 0 .. Slots
        BY <3>1 DEF TypeOK
      <3>3. fcls[i] \in Seq(Slot) /\ cur_size[i] \in Int /\ cur_size'[i] \in Int
        BY <3>2, Constants, SMTT(60) DEF TypeOK
      <3>4. j \in DOMAIN fcls[i]
        BY <2>2, TakenSlot
      <3>5. fcls[i][j] \in Slot
        BY <3>3, <3>4
      <3>6. fcls[i][j] \in Int
        BY <3>5 DEF Slot
      <3>7. fcls[i][j] < cur_size[i] /\ cur_size[i] <= cur_size'[i]
        BY <3>4, TakenSlot DEF ListsAreSets
      <3>8. QED
        BY <2>2, <3>3, <3>4, <3>6, <3>7, TakenSlot DEF ListsAreSets
    <2>3. QED
      BY <2>1, <2>2
  <1>2. UNCHANGED <<cur_size, fcls>> => ListsAreSets'
    BY DEF ListsAreSets
  <1>3. QED
    BY <1>1, <1>2, MainKeeps, ProducerKeeps DEF Next, Consumer, Take, PutKnown, Pwrite, PwriteFails,
       WriteHashDb, WriteHashDbFails, ConsumerDies, cfi, vars

Stores == SlotsInUse /\ DataWritten /\ RecordsWrongByTeardownOnly

LEMMA StepPutNew ==
  ASSUME TypeOK, ListsAreSets, Stores, PutNew PROVE Stores'
  <1> PICK i \in File : TakeSlot(i)
    BY DEF PutNew
  <1>1. /\ consumer' = "write" /\ UNCHANGED <<data, db, strayed>>
    BY DEF PutNew, disk, dbs
  <1>2. put'.key = put.key /\ put'.file = i /\ put'.slot \in Slot
        /\ put' \in [key : Key, file : File, slot : Slot]
    BY TakenSlot, StepType DEF Next, Consumer, TypeOK
  <1>3. DataWritten' /\ RecordsWrongByTeardownOnly'
    BY <1>1, TakenSlot DEF DataWritten, Stores, RecordsWrongByTeardownOnly
  <1>4. \A f \in File : cur_size[f] \in Int /\ cur_size'[f] \in Int
    <2>1. TypeOK'
      BY StepType DEF Next, Consumer
    <2>2. cur_size \in [File -> 0 .. Slots] /\ cur_size' \in [File -> 0 .. Slots]
      BY <2>1 DEF TypeOK
    <2>3. QED
      BY <2>2, Constants
  <1>5. ASSUME ~junk', NEW k \in Key, db[k] # None
        PROVE  /\ db[k] # <<i, put'.slot>>
               /\ db[k][2] < cur_size'[db[k][1]]
               /\ \A j \in DOMAIN fcls'[db[k][1]] : fcls'[db[k][1]][j] # db[k][2]
    <2> DEFINE f == db[k][1]  s == db[k][2]
    <2>1. f \in File /\ s \in Slot /\ db[k] = <<f, s>> /\ s \in Int
      BY <1>5, SMTT(60) DEF TypeOK, Slot
    <2>2. ~junk /\ InUse(f, s)
      BY <1>5, TakenSlot DEF Stores, SlotsInUse
    <2> HIDE DEF f, s
    <2>3. f = i => s # put'.slot
      BY <1>4, <1>5, <2>1, <2>2, TakenSlot DEF InUse
    <2>4. s < cur_size'[f]
      <3>1. s < cur_size[f] /\ cur_size[f] <= cur_size'[f]
        BY <1>4, <2>1, <2>2, TakenSlot DEF InUse
      <3>2. QED
        BY <1>4, <2>1, <3>1
    <2>5. \A j \in DOMAIN fcls'[f] : fcls'[f][j] # s
      BY <2>1, <2>2, TakenSlot DEF InUse
    <2>6. QED
      BY <2>1, <2>3, <2>4, <2>5 DEF f, s
  <1>6. ~junk' => \A k \in Key : db'[k] # None => InUse(db[k][1], db[k][2])'
    BY <1>1, <1>5 DEF InUse
  <1>7. ~junk' => InUse(put.file, put.slot)'
    BY <1>2, TakenSlot DEF InUse
  <1>8. ~junk' => \A k \in Key : db'[k] # <<put'.file, put'.slot>>
    <2>1. <<i, put'.slot>> # None
      BY <1>2, ServerAssumption
    <2>2. SUFFICES ASSUME ~junk', NEW k \in Key PROVE db[k] # <<i, put'.slot>>
      BY <1>1, <1>2
    <2>3. CASE db[k] = None
      BY <2>1, <2>3
    <2>4. CASE db[k] # None
      BY <1>5, <2>2, <2>4
    <2>5. QED
      BY <2>3, <2>4
  <1>9. SlotsInUse'
    BY <1>1, <1>2, <1>6, <1>7, <1>8 DEF SlotsInUse, Writing
  <1>10. QED
    BY <1>3, <1>9 DEF Stores

(* What is written to the slot of a put does not touch a recorded chunk.   *)
LEMMA OthersAreLeft ==
  ASSUME TypeOK, Stores, consumer = "write", UNCHANGED <<db, junk>>, strayed \subseteq strayed',
         \/ UNCHANGED data
         \/ \E v \in Key \cup {None} : data' = [data EXCEPT ![put.file][put.slot] = v]
  PROVE  RecordsWrongByTeardownOnly'
  <1> SUFFICES ASSUME NEW k \in Key, db'[k] # None, ~junk', k \notin strayed'
               PROVE  data'[db'[k][1]][db'[k][2]] = k
    BY DEF RecordsWrongByTeardownOnly
  <1>1. db[k] # None /\ ~junk /\ k \notin strayed /\ db' = db
    OBVIOUS
  <1>2. db[k] \in File \X Slot /\ db[k] # <<put.file, put.slot>>
    BY <1>1 DEF TypeOK, Stores, SlotsInUse, Writing
  <1>3. data[db[k][1]][db[k][2]] = k
    BY <1>1 DEF Stores, RecordsWrongByTeardownOnly
  <1>4. db[k][1] # put.file \/ db[k][2] # put.slot
    BY <1>2
  <1>5. put.file \in File /\ put.slot \in Slot
    BY DEF TypeOK
  <1>6. data'[db[k][1]][db[k][2]] = data[db[k][1]][db[k][2]]
    BY <1>2, <1>4, <1>5 DEF TypeOK
  <1>7. QED
    BY <1>1, <1>3, <1>6

LEMMA StepPwrite ==
  ASSUME TypeOK, Descriptors, Stores, Pwrite \/ PwriteFails PROVE Stores'
  <1> DEFINE to == fdOf[put.file]
  <1>1. put.file \in File /\ put.slot \in Slot /\ put.key \in Key
    BY DEF TypeOK
  <1>2. to \in {Closed, Kind("data", put.file)} \cup ({"list"} \X File)
    BY <1>1 DEF Descriptors
  <1>3. consumer = "write" /\ UNCHANGED <<db, cur_size, fcls, put, junk>>
    BY DEF Pwrite, PwriteFails, cfi, dbs
  <1>4. \/ /\ consumer' = "record" /\ UNCHANGED strayed
           /\ data' = [data EXCEPT ![put.file][put.slot] = put.key]
        \/ consumer' = "record" /\ strayed' = strayed \cup {put.key} /\ UNCHANGED data
        \/ /\ consumer' = "wait" /\ UNCHANGED strayed
           /\ UNCHANGED data \/ data' = [data EXCEPT ![put.file][put.slot] = None]
    <2>1. CASE to = Closed
      BY <2>1 DEF Pwrite, PwriteFails, Failed, Closed, Kind, disk
    <2>2. CASE to = Kind("data", put.file)
      BY <2>2, SMTT(60) DEF Pwrite, PwriteFails, Failed, Closed, Kind, disk
    <2>3. CASE to \in {"list"} \X File
      BY <2>3 DEF Pwrite, PwriteFails, Failed, Closed, Kind, disk
    <2>4. QED
      BY <1>2, <2>1, <2>2, <2>3
  <1>5. SlotsInUse'
    BY <1>3, <1>4 DEF Stores, SlotsInUse, Writing, InUse
  <1>6. DataWritten'
    BY <1>1, <1>3, <1>4 DEF Stores, DataWritten, TypeOK
  <1>7. RecordsWrongByTeardownOnly'
    BY <1>1, <1>3, <1>4, OthersAreLeft
  <1>8. QED
    BY <1>5, <1>6, <1>7 DEF Stores

LEMMA StepRecord ==
  ASSUME TypeOK, Stores, WriteHashDb PROVE Stores'
  <1>1. /\ consumer = "record" /\ consumer' = "wait"
        /\ db' = [db EXCEPT ![put.key] = <<put.file, put.slot>>]
        /\ UNCHANGED <<data, cur_size, fcls, put, junk, strayed>>
    BY DEF WriteHashDb, Answered, cfi, disk
  <1>2. put.file \in File /\ put.slot \in Slot /\ put.key \in Key
    BY DEF TypeOK
  <1>3. ~junk => InUse(put.file, put.slot)
    BY <1>1 DEF Stores, SlotsInUse, Writing
  <1>4. \A k \in Key : db'[k] = IF k = put.key THEN <<put.file, put.slot>> ELSE db[k]
    BY <1>1 DEF TypeOK
  <1>5. SlotsInUse' /\ DataWritten'
    BY <1>1, <1>3, <1>4 DEF Stores, SlotsInUse, DataWritten, Writing, InUse
  <1>6. RecordsWrongByTeardownOnly'
    BY <1>1, <1>4 DEF Stores, DataWritten, RecordsWrongByTeardownOnly
  <1>7. QED
    BY <1>5, <1>6 DEF Stores

LEMMA StepStores ==
  ASSUME TypeOK, Threads, Descriptors, ListsAreSets, Stores, [Next]_vars PROVE Stores'
  <1>1. ASSUME UNCHANGED <<cur_size, fcls, data, db, strayed, junk>>,
               Writing' => consumer' = consumer /\ UNCHANGED put
        PROVE  Stores'
    BY <1>1 DEF Stores, SlotsInUse, DataWritten, RecordsWrongByTeardownOnly, Writing, InUse
  <1>2. CASE Main
    BY <1>1, <1>2, MainKeeps DEF Writing
  <1>3. CASE Producer
    BY <1>1, <1>3, ProducerKeeps DEF cfi, disk, dbs
  <1>4. CASE Take \/ PutKnown \/ WriteHashDbFails \/ ConsumerDies
    BY <1>1, <1>4 DEF Take, PutKnown, WriteHashDbFails, Answered, Failed, ConsumerDies, Writing,
       cfi, disk, dbs, threads, ghosts
  <1>5. CASE UNCHANGED vars
    BY <1>1, <1>5 DEF vars, cfi, disk, dbs, threads, ghosts
  <1>6. QED
    BY <1>2, <1>3, <1>4, <1>5, StepPutNew, StepPwrite, StepRecord DEF Next, Consumer

LEMMA StepKept ==
  ASSUME TypeOK, Threads, Teardown, KeysKept, [Next]_vars PROVE KeysKept'
  <1> SUFFICES ASSUME pc' \in Main0 \/ quiet', NEW k \in seen'
               PROVE  Kept(k)'
    BY DEF KeysKept
  <1>1. CASE Main
    <2>1. pc \in Main0 \/ quiet
      BY <1>1 DEF Main, StartProducer, StartConsumer, StartFails, Spin, CloseInput, FopenConfig,
         Parse, CloseData, OpenList, OpenListFails, WriteList, CloseList, FreeCfi,
         meta_server_close, Return, NextFile, Goto, Main0, ghosts
    <2>2. Kept(k)
      BY <1>1, <2>1, MainKeeps DEF KeysKept
    <2>3. QED
      BY <1>1, <2>2, MainKeeps DEF Kept
  <1>2. CASE Producer
    <2>1. pc \in Main0 \/ quiet
      BY <1>2, ProducerKeeps DEF mainV
    <2>2. CASE ReadChunk
      <3>1. producer = "read" /\ producer' = "wait" /\ seen' = seen \cup {chunk'}
            /\ UNCHANGED <<db, lost, ring, consumer, put>>
        BY <2>2 DEF ReadChunk, Got, dbs
      <3>2. QED
        BY <2>1, <3>1 DEF KeysKept, Kept
    <2>3. CASE EndOfInput
      BY <2>1, <2>3 DEF EndOfInput, KeysKept, Kept, dbs, ghosts
    <2>4. CASE Send
      <3>1. ring' = Append(ring, chunk) /\ ring \in Seq(Key) /\ chunk \in Key
            /\ UNCHANGED <<db, lost, consumer, put, chunk, seen>>
        BY <2>4 DEF Send, dbs, ghosts, TypeOK
      <3>2. /\ DOMAIN ring = 1 .. Len(ring) /\ DOMAIN ring' = 1 .. (Len(ring) + 1)
            /\ \A j \in DOMAIN ring : j \in DOMAIN ring' /\ ring'[j] = ring[j]
            /\ Len(ring) + 1 \in DOMAIN ring' /\ ring'[Len(ring) + 1] = chunk
        BY <3>1
      <3>3. QED
        BY <2>1, <3>1, <3>2 DEF KeysKept, Kept
    <2>5. QED
      BY <1>2, <2>2, <2>3, <2>4 DEF Producer
  <1>3. CASE Consumer
    <2>1. (pc \in Main0 \/ quiet) /\ ~quiet /\ seen' = seen
      BY <1>3, ConsumerKeeps DEF Main0, Consumer, Take, PutKnown, PutNew, Pwrite, PwriteFails,
         WriteHashDb, WriteHashDbFails,
         ConsumerDies, Teardown, AllStored
    <2>2. pc \in Main0 /\ Kept(k)
      BY <2>1 DEF KeysKept
    <2>3. CASE Take
      <3>1. ring' = Tail(ring) /\ ring \in Seq(Key) /\ ring # <<>> /\ consumer = "wait"
            /\ put'.key = Head(ring) /\ consumer' = "get" /\ UNCHANGED <<db, lost, producer, chunk>>
        BY <2>3 DEF Take, dbs, ghosts, TypeOK
      <3>2. /\ DOMAIN ring = 1 .. Len(ring) /\ DOMAIN ring' = 1 .. (Len(ring) - 1)
            /\ Head(ring) = ring[1]
            /\ \A j \in DOMAIN ring : j # 1 => j - 1 \in DOMAIN ring' /\ ring'[j - 1] = ring[j]
        BY <3>1
      <3>3. QED
        BY <2>2, <3>1, <3>2 DEF Kept
    <2>4. CASE PutKnown \/ WriteHashDb
      <3>1. UNCHANGED <<ring, producer, chunk>> /\ lost \subseteq lost' \cup {put.key}
            /\ consumer' = "wait" /\ put.key \in Key
        BY <2>4 DEF PutKnown, WriteHashDb, Answered, Failed, TypeOK
      <3>2. /\ db'[put.key] # None
            /\ \A l \in Key : db[l] # None => db'[l] # None
        <4>1. CASE PutKnown
          BY <4>1 DEF PutKnown, dbs
        <4>2. CASE WriteHashDb
          <5>1. put.file \in File /\ put.slot \in Slot
            BY DEF TypeOK
          <5>2. <<put.file, put.slot>> # None
            BY <5>1, ServerAssumption
          <5>3. \A l \in Key : db'[l] = IF l = put.key THEN <<put.file, put.slot>> ELSE db[l]
            BY <4>2 DEF WriteHashDb, TypeOK
          <5>4. QED
            BY <3>1, <5>2, <5>3
        <4>3. QED
          BY <2>4, <4>1, <4>2
      <3>3. k \in Key
        BY <2>1 DEF TypeOK
      <3>4. CASE k = put.key
        BY <3>2, <3>4 DEF Kept
      <3>5. CASE k # put.key
        BY <2>2, <3>1, <3>2, <3>3, <3>5 DEF Kept
      <3>6. QED
        BY <3>4, <3>5
    <2>5. CASE PutNew
      <3>1. put'.key = put.key
        BY <2>5, ZenonT(60) DEF PutNew, TakeSlot, TypeOK
      <3>2. QED
        BY <2>2, <2>5, <3>1 DEF PutNew, Kept, dbs
    <2>6. CASE Pwrite
      <3>1. consumer' = "record" /\ UNCHANGED <<db, lost, ring, producer, chunk, put>>
        BY <2>6 DEF Pwrite, dbs
      <3>2. QED
        BY <2>2, <2>6, <3>1 DEF Pwrite, Kept
    <2>9. CASE PwriteFails \/ WriteHashDbFails
      <3>1. lost' = lost \cup {put.key} /\ UNCHANGED <<db, ring, producer, chunk, put>>
        BY <2>9 DEF PwriteFails, WriteHashDbFails, Failed, dbs
      <3>2. QED
        BY <2>2, <3>1 DEF Kept
    <2>7. CASE ConsumerDies
      BY <2>1, <2>7 DEF ConsumerDies, Main0, ghosts
    <2>8. QED
      BY <1>3, <2>3, <2>4, <2>5, <2>6, <2>7, <2>9, SMTT(60) DEF Consumer
  <1>4. CASE UNCHANGED vars
    BY <1>4 DEF KeysKept, Kept, vars, mainV, dbs, threads, ghosts
  <1>5. QED
    BY <1>1, <1>2, <1>3, <1>4 DEF Next

LEMMA StepSaved ==
  ASSUME TypeOK, Threads, Teardown, ListsSaved, [Next]_vars PROVE ListsSaved'
  <1> DEFINE Saved(i) == fclFile[i] = [saved |-> fcls[i], damaged |-> FALSE]
  <1>1. CASE Main
    <2>1. UNCHANGED fcls
      BY <1>1, MainKeeps
    <2>2. CASE StartProducer \/ StartConsumer \/ StartFails \/ Spin \/ CloseInput \/ FopenConfig
      <3>1. /\ pc \in Main0 \cup {"fopen"} /\ pc' \in Main0 \cup {"fopen", "parse", "db"}
            /\ UNCHANGED <<idx, pages, fclFile>>
        BY <2>2 DEF StartProducer, StartConsumer, StartFails, Spin, CloseInput, FopenConfig,
           Goto, Main0, cfi, disk
      <3>2. QED
        BY <3>1 DEF ListsSaved, Main0
    <2>3. CASE Parse \/ CloseData \/ OpenListFails \/ CloseList \/ FreeCfi \/ meta_server_close
               \/ Return
      <3>1. UNCHANGED <<pages, fclFile, quiet>> /\ pc' \notin Main0 \cup {"fopen", "parse", "write", "close"}
        BY <2>3 DEF Parse, CloseData, OpenListFails, CloseList, FreeCfi, meta_server_close, Return,
           NextFile, Goto, Main0, cfi, disk, ghosts
      <3>2. pc' \in {"data", "list"} => \A i \in File : i >= idx' => i \in pages
        <4>1. CASE Parse \/ CloseData
          BY <4>1 DEF Parse, CloseData, Goto, ListsSaved
        <4>2. CASE OpenListFails \/ CloseList
          <5>1. idx \in Int /\ File \subseteq Int
            BY Constants DEF TypeOK, File
          <5>2. pc' \in {"data", "list"} => idx' = idx + 1
            BY <4>2 DEF OpenListFails, CloseList, NextFile
          <5>3. \A i \in File : i > idx => i \in pages
            BY <4>2, <5>1 DEF OpenListFails, CloseList, ListsSaved
          <5>4. QED
            BY <5>1, <5>2, <5>3
        <4>3. CASE FreeCfi \/ meta_server_close \/ Return
          BY <4>3 DEF FreeCfi, meta_server_close, Return, Goto
        <4>4. QED
          BY <2>3, <4>1, <4>2, <4>3
      <3>3. QED
        BY <2>1, <3>1, <3>2 DEF ListsSaved
    <2>4. CASE OpenList
      <3>1. /\ pc = "list" /\ pc' = "write" /\ idx' = idx /\ UNCHANGED <<pages, quiet>>
            /\ fclFile' = [fclFile EXCEPT ![idx] = [saved |-> <<>>, damaged |-> FALSE]]
        BY <2>4 DEF OpenList, Goto, cfi, ghosts
      <3>2. idx \in pages /\ \A i \in File : i >= idx => i \in pages
        BY <3>1, Constants DEF ListsSaved, TypeOK, File
      <3>3. ~fclFile'[idx].damaged /\ \A i \in File : i # idx => fclFile'[i] = fclFile[i]
        BY <3>1 DEF TypeOK
      <3>4. QED
        BY <2>1, <3>1, <3>2, <3>3 DEF ListsSaved, Main0
    <2>5. CASE WriteList
      <3>1. /\ pc = "write" /\ pc' = "close" /\ idx' = idx /\ UNCHANGED <<quiet>>
            /\ fclFile' = [fclFile EXCEPT ![idx].saved = fcls[idx]] /\ pages' = pages \ {idx}
        BY <2>5 DEF WriteList, Goto, ghosts
      <3>2. \A i \in File : i > idx => i \in pages'
        <4>1. idx \in Int /\ File \subseteq Int
          BY Constants DEF TypeOK, File
        <4>2. QED
          BY <3>1, <4>1 DEF ListsSaved
      <3>3. \A i \in File : i # idx => fclFile'[i] = fclFile[i]
        BY <3>1 DEF TypeOK
      <3>4. quiet => fclFile'[idx] = [saved |-> fcls[idx], damaged |-> FALSE]
        <4>1. fclFile[idx] \in [saved : Seq(Slot), damaged : BOOLEAN]
          BY DEF TypeOK
        <4>2. quiet => fclFile[idx].damaged = FALSE
          BY <3>1, <4>1, Zenon DEF ListsSaved
        <4>3. fclFile'[idx] = [fclFile[idx] EXCEPT !.saved = fcls[idx]]
          BY <3>1 DEF TypeOK
        <4>4. QED
          BY <4>1, <4>2, <4>3
      <3>5. QED
        BY <2>1, <3>1, <3>2, <3>3, <3>4 DEF ListsSaved, Main0
    <2>6. QED
      BY <1>1, <2>2, <2>3, <2>4, <2>5 DEF Main
  <1>2. CASE Producer
    BY <1>2, ProducerKeeps DEF ListsSaved, mainV, cfi, disk
  <1>3. CASE Consumer
    <2>1. ~quiet
      BY <1>3 DEF Consumer, Take, PutKnown, PutNew, Pwrite, PwriteFails,
         WriteHashDb, WriteHashDbFails, ConsumerDies, Teardown,
         AllStored
    <2>2. QED
      BY <1>3, <2>1, ConsumerKeeps DEF ListsSaved, Main0
  <1>4. CASE UNCHANGED vars
    BY <1>4 DEF ListsSaved, vars, mainV, cfi, disk, ghosts
  <1>5. QED
    BY <1>1, <1>2, <1>3, <1>4 DEF Next

-----------------------------------------------------------------------------
(* The inductive invariant of the server and of its teardown. *)
THEOREM ServerInvariant == Spec => []Inv
  <1>1. Inv /\ [Next]_vars => Inv'
    BY StepType, StepThreads, StepDescriptors, StepTeardown, StepLists, StepStores, StepKept,
       StepSaved DEF Inv, Stores
  <1>2. QED
    BY <1>1, InitInv, PTL DEF Spec

(* Only a list file that took the number of a chunk file, or a page that   *)
(* was freed, makes a record wrong, whatever main tears down meanwhile.    *)
THEOREM TeardownOnlyStrays == Spec => []RecordsWrongByTeardownOnly
  <1>1. Inv => RecordsWrongByTeardownOnly
    BY DEF Inv
  <1>2. QED
    BY <1>1, ServerInvariant, PTL

(* The wait that main lacks would be enough: then no data strays, no freed *)
(* page is read and the consumer does not end the process.                 *)
THEOREM WaitingIsEnough == Spec => []QuietStopIsSafe
  <1>1. Inv => QuietStopIsSafe
    BY DEF Inv, Teardown, QuietStopIsSafe
  <1>2. QED
    BY <1>1, ServerInvariant, PTL

(* And it loses nothing but what a failed put lost: every other key that   *)
(* was read has a record, each record its data, and each list file that    *)
(* was written is the list.                                                *)
THEOREM WaitingKeepsAll == Spec => []QuietStopKeepsAll
  <1>1. ASSUME Inv, quiet, pc = "exit"
        PROVE  /\ \A k \in seen \ lost : db[k] # None
               /\ \A k \in Key : db[k] # None => data[db[k][1]][db[k][2]] = k
               /\ \A i \in File \ pages :
                     /\ fclFile[i] = [saved |-> fcls[i], damaged |-> FALSE]
                     /\ \A k \in Key, j \in DOMAIN fcls[i] : db[k] # <<i, fcls[i][j]>>
    <2>1. over /\ ring = <<>> /\ consumer \in {"none", "wait"} /\ producer = "done"
          /\ strayed = {} /\ ~junk
      BY <1>1 DEF Inv, Teardown, AllStored, Threads
    <2>2. \A k \in seen \ lost : db[k] # None
      BY <1>1, <2>1 DEF Inv, KeysKept, Kept
    <2>3. \A k \in Key : db[k] # None => data[db[k][1]][db[k][2]] = k
      BY <2>1, <1>1 DEF Inv, RecordsWrongByTeardownOnly
    <2>4. \A i \in File \ pages : fclFile[i] = [saved |-> fcls[i], damaged |-> FALSE]
      BY <1>1 DEF Inv, ListsSaved
    <2>5. ASSUME NEW i \in File, NEW k \in Key, NEW j \in DOMAIN fcls[i], db[k] = <<i, fcls[i][j]>>
          PROVE  FALSE
      <3>1. fcls[i][j] \in Slot
        BY <1>1 DEF Inv, TypeOK
      <3>2. <<i, fcls[i][j]>> # None
        BY <3>1, ServerAssumption
      <3>3. InUse(db[k][1], db[k][2])
        BY <1>1, <2>1, <2>5, <3>2 DEF Inv, SlotsInUse
      <3>4. db[k][1] = i /\ db[k][2] = fcls[i][j]
        BY <2>5
      <3>5. QED
        BY <3>3, <3>4 DEF InUse
    <2>6. QED
      BY <2>2, <2>3, <2>4, <2>5
  <1>2. Inv => QuietStopKeepsAll
    BY <1>1, Zenon DEF QuietStopKeepsAll
  <1>3. QED
    BY <1>2, ServerInvariant, PTL

(* A main that waits for a producer that was never created, or for one     *)
(* that no consumer makes room for, waits for ever.                        *)
THEOREM StuckStays == Spec => StuckForEver
  <1>1. Inv /\ [Next]_vars => (Stuck => Stuck')
    <2> SUFFICES ASSUME Inv, [Next]_vars, Stuck PROVE Stuck'
      OBVIOUS
    <2>1. pc = "spin" /\ consumer = "none" /\ ~over
          /\ (producer = "none" \/ (producer = "wait" /\ Len(ring) = BUFF_QUEUE_SIZE))
      BY DEF Stuck, Inv, Threads
    <2>2. ~Main
      BY <2>1 DEF Main, StartProducer, StartConsumer, StartFails, Spin, CloseInput, FopenConfig,
         Parse, CloseData, OpenList, OpenListFails, WriteList, CloseList, FreeCfi,
         meta_server_close, Return, Goto
    <2>3. ~Producer
      BY <2>1, Constants DEF Producer, ReadChunk, EndOfInput, Send
    <2>4. ~Consumer
      BY <2>1 DEF Consumer, Take, PutKnown, PutNew, Pwrite, PwriteFails,
         WriteHashDb, WriteHashDbFails, ConsumerDies
    <2>5. UNCHANGED vars
      BY <2>2, <2>3, <2>4 DEF Next
    <2>6. QED
      BY <2>5 DEF Stuck, vars, mainV, threads
  <1>2. QED
    BY <1>1, ServerInvariant, PTL DEF Spec, StuckForEver

=============================================================================
