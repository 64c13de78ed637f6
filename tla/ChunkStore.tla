----------------------------- MODULE ChunkStore -----------------------------
(***************************************************************************)
(* The chunk store of a server (src/src/server/chunks-io.c, db_ops.c, and  *)
(* the chunk-file half of expat-xml.c) as one thread drives it.  A chunk's *)
(* data goes to one of NumFiles chunk files, and a record                  *)
(* (fd_index, ref_count, offset) under its key to the hash database.       *)
(*                                                                         *)
(* put_new_chunk of a new key is two steps, the pwrite and the record, for *)
(* the process may die between them.  The database has no log              *)
(* (DB_CREATE | DB_INIT_MPOOL): its cache writes records back when it      *)
(* likes, and a crash leaves either what the cache held or what was        *)
(* written back.  A crash is the death of the process, not of the machine: *)
(* what pwrite wrote stays.                                                *)
(*                                                                         *)
(* Sizes and offsets are in bytes, of which a chunk has FSP_SIZE, so that  *)
(* a short write leaves a file whose size is not a multiple of a chunk.    *)
(* A free-chunk list is the stack ChunkStack promises: a sequence of chunk *)
(* numbers, or Damaged once part of it was lost, when it may give out any  *)
(* chunk of its file, free or not.                                         *)
(*                                                                         *)
(* There is one database (NUM_SERVER_DBS), and the keys are fingerprints   *)
(* whose first int is its index: db_put, db_get and db_del index dbp[] by  *)
(* that int as it is.  What any other fingerprint does is BufferQueue's    *)
(* NeverWild.                                                              *)
(***************************************************************************)
EXTENDS Integers, Sequences

CONSTANTS Key,                  \* fingerprints
          NumFiles,             \* the <file> elements of global.xml
          FSP_SIZE,             \* bytes of a chunk
          MAX_CHUNK_FILE_SIZE,  \* bytes of a full chunk file
          JunkSize,             \* what an uninitialised long may hold
          MaxPuts,              \* bound: puts of one key that succeed
          MaxFree,              \* bound: entries of a free list
          Damaged,              \* a free list that promises nothing
          NoRecord, Hole, Idle  \* "no such record, byte, write"

File == 0 .. NumFiles - 1
Byte == 0 .. MAX_CHUNK_FILE_SIZE + FSP_SIZE - 1
Part == 0 .. FSP_SIZE - 1
Record == [fd_index : File, ref_count : 1 .. MaxPuts, offset : Byte]
List   == Seq(Nat) \cup {Damaged}

ASSUME SizeAssumption ==
    /\ NumFiles \in Nat \ {0}
    /\ FSP_SIZE \in Nat \ {0}
    /\ MAX_CHUNK_FILE_SIZE \in Nat /\ MAX_CHUNK_FILE_SIZE >= FSP_SIZE
    /\ JunkSize \subseteq Int
    /\ MaxPuts \in Nat \ {0} /\ MaxFree \in Nat

ASSUME SentinelAssumption ==
    /\ NoRecord \notin Record
    /\ Hole \notin Key \X Part
    /\ Idle \notin [key : Key, fd_index : File, offset : Byte]
    /\ Damaged \notin Seq(Nat)

VARIABLES
    phase,       \* "down", "up", or "closing": released, database still open
    hashDb,      \* the database as its users see it
    hashDbFile,  \* the records written back to its file
    chunkFile,   \* the bytes of every chunk file
    st_size,     \* and its size
    fclFile,     \* the free-list files
    fds,         \* whether open() gave a descriptor for the file
    cur_size,    \* where the next chunk is appended
    fcls,        \* the free-chunk lists
    pending,     \* a chunk written whose record is not
    acked,       \* ghost: puts answered with 0, per key
    clean,       \* ghost: no call failed and the process never died
    astray       \* ghost: a damaged list has given out a chunk

disk  == <<chunkFile, st_size, astray>>
cfi   == <<fds, cur_size, fcls>>
vars  == <<phase, hashDb, hashDbFile, disk, fclFile, cfi, pending, acked, clean>>

TypeOK ==
    /\ phase \in {"down", "up", "closing"}
    /\ hashDb \in [Key -> Record \cup {NoRecord}]
    /\ hashDbFile \in [Key -> Record \cup {NoRecord}]
    /\ chunkFile \in [File -> [Byte -> (Key \X Part) \cup {Hole}]]
    /\ st_size \in [File -> 0 .. MAX_CHUNK_FILE_SIZE + FSP_SIZE]
    /\ fclFile \in [File -> List]
    /\ fds \in [File -> BOOLEAN]
    /\ cur_size \in [File -> Int]
    /\ fcls \in [File -> List]
    /\ pending \in [key : Key, fd_index : File, offset : Byte] \cup {Idle}
    /\ acked \in [Key -> 0 .. MaxPuts]
    /\ clean \in BOOLEAN
    /\ astray \in BOOLEAN

NoLists == [f \in File |-> <<>>]

(* A store that was just created, before its first start. *)
Init == /\ phase = "down"
        /\ hashDb = [k \in Key |-> NoRecord]
        /\ hashDbFile = hashDb
        /\ chunkFile = [f \in File |-> [b \in Byte |-> Hole]]
        /\ st_size = [f \in File |-> 0]
        /\ fclFile = NoLists
        /\ fds = [f \in File |-> FALSE]
        /\ cur_size = [f \in File |-> 0]
        /\ fcls = NoLists
        /\ pending = Idle
        /\ acked = [k \in Key |-> 0]
        /\ clean = TRUE /\ astray = FALSE

Known(k) == hashDb[k] # NoRecord
Ready    == phase = "up" /\ pending = Idle

-----------------------------------------------------------------------------
(* current, which a damaged list may hold at anything it ever had. *)
Tops == {top \in [File -> -1 .. MaxFree - 1] :
            \A f \in File : fcls[f] # Damaged => top[f] = Len(fcls[f]) - 1}

(* get_proper_chunk_file: the first of the files with the least capcity,   *)
(* __min starting at 0xffffffff.  A list with current = 0 holds one free   *)
(* chunk, and is counted as none.                                          *)
capcity(f, top) == cur_size[f] - (IF top[f] = -1 THEN 0 ELSE top[f] * FSP_SIZE)

(* Mutant: a full file is chosen like any other. *)
AnyLeastFile(f, top) ==
    \A g \in File : IF g < f THEN capcity(f, top) < capcity(g, top)
                              ELSE capcity(f, top) <= capcity(g, top)

(* Mutant: the first file with room. *)
FirstFile(f, top) ==
    /\ capcity(f, top) < MAX_CHUNK_FILE_SIZE - 1
    /\ \A g \in File : g < f => capcity(g, top) >= MAX_CHUNK_FILE_SIZE - 1

ProperFile(f, top) ==
    /\ capcity(f, top) < MAX_CHUNK_FILE_SIZE - 1
    /\ \A g \in File : IF g < f THEN capcity(f, top) < capcity(g, top)
                                ELSE capcity(f, top) <= capcity(g, top)

(* Mutant: cur_size does not move. *)
AllocateStuck(f, off) ==
    /\ fcls[f] = <<>> /\ off = cur_size[f]
    /\ UNCHANGED <<cur_size, fcls, astray>>

ChunkStarts == {b \in 0 .. MAX_CHUNK_FILE_SIZE : b % FSP_SIZE = 0}

(* get_first_free_chunk, and where block_write then puts the chunk: at the *)
(* end of the file, in the chunk on top of the list, or, where the list is *)
(* damaged, wherever the junk in its page says.  Bound: junk is a chunk of *)
(* the file, or the -1 that is taken for an empty list while there is room *)
(* at the end; junk pwrite refuses is one of its failures.                 *)
Allocate(f, off) ==
    \/ /\ \/ fcls[f] = <<>>
          \/ fcls[f] = Damaged /\ cur_size[f] < MAX_CHUNK_FILE_SIZE - 1
       /\ off = cur_size[f]
       /\ cur_size' = [cur_size EXCEPT ![f] = @ + FSP_SIZE]
       /\ UNCHANGED <<fcls, astray>>
    \/ /\ fcls[f] \notin {<<>>, Damaged}
       /\ off = fcls[f][Len(fcls[f])] * FSP_SIZE
       /\ fcls' = [fcls EXCEPT ![f] = SubSeq(@, 1, Len(@) - 1)]
       /\ UNCHANGED <<cur_size, astray>>
    \/ /\ fcls[f] = Damaged
       /\ off \in ChunkStarts
       /\ astray' = TRUE
       /\ UNCHANGED <<cur_size, fcls>>

(* pwrite of the first n bytes of k's chunk *)
Pwrite(k, f, offset, n) ==
    /\ chunkFile' = [chunkFile EXCEPT ![f] = [b \in Byte |->
                        IF offset <= b /\ b < offset + n THEN <<k, b - offset>>
                        ELSE chunkFile[f][b]]]
    /\ st_size' = [st_size EXCEPT ![f] =
                        IF n > 0 /\ @ < offset + n THEN offset + n ELSE @]

(* block_write up to its pwrite, which writes all of the chunk and leaves  *)
(* the record to write_hash_db, or less of it and is answered -1.          *)
WriteChunk(k, n) ==
    \E top \in Tops, f \in File :
        /\ ProperFile(f, top)
        /\ fds[f] \/ n = 0
        /\ \E off \in {cur_size[f]} \cup ChunkStarts :
              /\ Allocate(f, off)
              /\ Pwrite(k, f, off, n)
              /\ pending' = IF n = FSP_SIZE
                            THEN [key |-> k, fd_index |-> f, offset |-> off]
                            ELSE Idle
        /\ UNCHANGED <<phase, hashDb, hashDbFile, fclFile, fds, acked>>

(* Mutant: a chunk is written whether or not its key is there. *)
PutAlways(k) == /\ Ready /\ acked[k] < MaxPuts
                /\ WriteChunk(k, FSP_SIZE)
                /\ UNCHANGED clean

(* put_new_chunk of a key db_get does not find *)
PutNew(k) == /\ Ready /\ ~Known(k) /\ acked[k] < MaxPuts
             /\ WriteChunk(k, FSP_SIZE)
             /\ UNCHANGED clean

(* pwrite fails, or writes part of the chunk *)
PutNewFails(k) == /\ Ready /\ ~Known(k)
                  /\ \E n \in 0 .. FSP_SIZE - 1 : WriteChunk(k, n)
                  /\ clean' = FALSE

(* db_get fails on a key that is there: put_new_chunk takes it for new *)
PutGetFails(k) == /\ Ready /\ Known(k) /\ acked[k] < MaxPuts
                  /\ \E n \in 0 .. FSP_SIZE : WriteChunk(k, n)
                  /\ clean' = FALSE

(* write_hash_db (not in the repository): a record with one reference *)
WriteHashDb ==
    /\ phase = "up" /\ pending # Idle
    /\ hashDb' = [hashDb EXCEPT ![pending.key] =
                    [fd_index |-> pending.fd_index, ref_count |-> 1,
                     offset |-> pending.offset]]
    /\ acked' = [acked EXCEPT ![pending.key] = @ + 1]
    /\ pending' = Idle
    /\ UNCHANGED <<phase, hashDbFile, disk, fclFile, cfi, clean>>

WriteHashDbFails ==
    /\ phase = "up" /\ pending # Idle
    /\ pending' = Idle
    /\ clean' = FALSE
    /\ UNCHANGED <<phase, hashDb, hashDbFile, disk, fclFile, cfi, acked>>

(* Mutant: the new count is not put back. *)
PutUncounted(k) ==
    /\ Ready /\ Known(k) /\ acked[k] < MaxPuts
    /\ acked' = [acked EXCEPT ![k] = @ + 1]
    /\ UNCHANGED <<phase, hashDb, hashDbFile, disk, fclFile, cfi, pending, clean>>

(* put_new_chunk of a key that is there.  A db_put that fails changes      *)
(* nothing.                                                                *)
PutDuplicate(k) ==
    /\ Ready /\ Known(k) /\ acked[k] < MaxPuts
    /\ hashDb[k].ref_count < MaxPuts
    /\ hashDb' = [hashDb EXCEPT ![k].ref_count = @ + 1]
    /\ acked' = [acked EXCEPT ![k] = @ + 1]
    /\ UNCHANGED <<phase, hashDbFile, disk, fclFile, cfi, pending, clean>>

-----------------------------------------------------------------------------
(* del_chunk acts when db_get did not find the key: bd is still all zero,  *)
(* so it frees chunk 0 of file 0 and deletes a record that is not there.   *)
(* Where add_free_chunk has no memory for a new page, current and          *)
(* total_cnt have moved all the same and the list has a hole.              *)
AddChunkZero == \/ /\ fcls[0] # Damaged /\ Len(fcls[0]) < MaxFree
                   /\ fcls' = [fcls EXCEPT ![0] = Append(@, 0)]
                \/ fcls[0] = Damaged /\ UNCHANGED fcls
AddFails == /\ fcls[0] # Damaged /\ Len(fcls[0]) < MaxFree
            /\ fcls' = [fcls EXCEPT ![0] = Damaged]

DelAbsent(k) ==
    /\ Ready /\ ~Known(k)
    /\ \/ AddChunkZero /\ UNCHANGED clean
       \/ AddFails /\ clean' = FALSE
    /\ UNCHANGED <<phase, hashDb, hashDbFile, disk, fclFile, fds, cur_size,
                   pending, acked>>

(* db_get fails on a key that is there.  db_del leaves most of its DBT     *)
(* uninitialised, so that the delete is done or refused.                   *)
DelGetFails(k) ==
    /\ Ready /\ Known(k)
    /\ AddChunkZero \/ AddFails
    /\ hashDb' \in {hashDb, [hashDb EXCEPT ![k] = NoRecord]}
    /\ clean' = FALSE
    /\ UNCHANGED <<phase, hashDbFile, disk, fclFile, fds, cur_size, pending, acked>>

(* Mutant: the chunk is freed and its record stays. *)
DelKeepsRecord(k) ==
    /\ Ready /\ Known(k)
    /\ LET f == hashDb[k].fd_index
       IN /\ fcls[f] # Damaged /\ Len(fcls[f]) < MaxFree
          /\ fcls' = [fcls EXCEPT ![f] = Append(@, hashDb[k].offset \div FSP_SIZE)]
    /\ UNCHANGED <<phase, hashDb, hashDbFile, disk, fclFile, fds, cur_size,
                   pending, acked, clean>>

(* A key that is found is left as it is, and 0 returned. *)
DelKnown(k) == Ready /\ Known(k) /\ UNCHANGED vars

del_chunk(k) == DelAbsent(k) \/ DelGetFails(k) \/ DelKnown(k)

-----------------------------------------------------------------------------
(* The database cache writes a record back, or its deletion. *)
MpoolWriteBack(k) ==
    /\ phase # "down"
    /\ hashDbFile[k] # hashDb[k]
    /\ hashDbFile' = [hashDbFile EXCEPT ![k] = hashDb[k]]
    /\ UNCHANGED <<phase, hashDb, disk, fclFile, cfi, pending, acked, clean>>

(* What init_free_chunk makes of a list file: the list, an empty one where *)
(* open() failed, or a damaged one where malloc or a read did.             *)
Loading == {"loaded", "lost", "damaged"}
Loaded(f, how) == CASE how = "loaded"  -> fclFile[f]
                    [] how = "lost"    -> <<>>
                    [] how = "damaged" -> Damaged
Loads == {load \in [File -> Loading] :
             \A f \in File : load[f] # "loaded" => fclFile[f] # <<>>}

(* Mutants: cur_size is not taken from fstat, or is cut to whole chunks. *)
StartAt(size, opened, load) ==
    /\ phase = "down" /\ phase' = "up"
    /\ fds' = [f \in File |-> f \in opened]
    /\ cur_size' = size
    /\ fcls' = [f \in File |-> Loaded(f, load[f])]
    /\ clean' = (clean /\ opened = File /\ load = [f \in File |-> "loaded"])
    /\ UNCHANGED <<hashDb, hashDbFile, disk, fclFile, pending, acked>>
StartAtZero(opened, load) == StartAt([f \in File |-> 0], opened, load)
StartAligned(opened, load) ==
    StartAt([f \in File |-> st_size[f] - (st_size[f] % FSP_SIZE)], opened, load)

(* init_chunk_file, after DB_init.  cur_size is taken from fstat, which    *)
(* fills nothing in when open() gave no descriptor.  (An empty list has    *)
(* nothing to lose.)                                                       *)
Start(opened, load) ==
    /\ phase = "down" /\ phase' = "up"
    /\ fds' = [f \in File |-> f \in opened]
    /\ \E junk \in [File -> JunkSize] :
          cur_size' = [f \in File |-> IF f \in opened THEN st_size[f] ELSE junk[f]]
    /\ fcls' = [f \in File |-> Loaded(f, load[f])]
    /\ clean' = (clean /\ opened = File /\ load = [f \in File |-> "loaded"])
    /\ UNCHANGED <<hashDb, hashDbFile, disk, fclFile, pending, acked>>

FreeCfi == /\ fds' = [f \in File |-> FALSE]
           /\ cur_size' = [f \in File |-> 0]
           /\ fcls' = NoLists

(* What flush_free_chunk, or dying in it, leaves in a list file: the list; *)
(* the old one where open() failed; nothing where O_TRUNC was all that     *)
(* happened; or a header whose pages are missing, which the next start     *)
(* fills with junk.  An empty list has no pages to miss.                   *)
Saving == {"saved", "kept", "emptied", "torn"}
Saved(f, how) == CASE how = "saved"   -> fcls[f]
                   [] how = "kept"    -> fclFile[f]
                   [] how = "emptied" -> <<>>
                   [] how = "torn"    -> IF fcls[f] = <<>> THEN <<>> ELSE Damaged
Saves == {save \in [File -> Saving] :
             \A f \in File : save[f] # "saved" => Saved(f, save[f]) # fcls[f]}

(* release_chunk_file, whose open() and write() may fail. *)
Release(save) ==
    /\ Ready /\ phase' = "closing"
    /\ fclFile' = [f \in File |-> Saved(f, save[f])]
    /\ FreeCfi
    /\ clean' = (clean /\ save = [f \in File |-> "saved"])
    /\ UNCHANGED <<hashDb, hashDbFile, disk, pending, acked>>

(* DB_clean closes the database, which writes its cache back *)
Close == /\ phase = "closing" /\ phase' = "down"
         /\ hashDbFile' = hashDb
         /\ UNCHANGED <<hashDb, disk, fclFile, cfi, pending, acked, clean>>

Die == /\ phase' = "down"
       /\ hashDb' \in {hashDb, hashDbFile}
       /\ pending' = Idle
       /\ FreeCfi
       /\ clean' = FALSE
       /\ UNCHANGED <<hashDbFile, disk, acked>>

(* The process dies at any moment ... *)
Crash == phase # "down" /\ Die /\ UNCHANGED fclFile

(* ... or while it saves its lists. *)
CrashInRelease(save) ==
    /\ Ready
    /\ fclFile' = [f \in File |-> Saved(f, save[f])]
    /\ fclFile' # fclFile
    /\ Die

(* assert(fd_index >= 0) in block_write *)
BlockWriteAborts(k) == /\ Ready /\ ~Known(k)
                       /\ \E top \in Tops : \A f \in File : ~ProperFile(f, top)
                       /\ Die
                       /\ UNCHANGED fclFile

-----------------------------------------------------------------------------
(* The server only puts: its one consumer thread calls put_new_chunk. *)
ServerNext ==
    \/ \E k \in Key : \/ PutNew(k) \/ PutNewFails(k) \/ PutGetFails(k)
                      \/ PutDuplicate(k) \/ BlockWriteAborts(k)
                      \/ MpoolWriteBack(k)
    \/ WriteHashDb \/ WriteHashDbFails
    \/ \E opened \in SUBSET File, load \in Loads : Start(opened, load)
    \/ \E save \in Saves : Release(save) \/ CrashInRelease(save)
    \/ Close \/ Crash

(* A client that keeps its chunks itself also deletes them. *)
Next == ServerNext \/ \E k \in Key : del_chunk(k)

ServerSpec == Init /\ [][ServerNext]_vars
Spec       == Init /\ [][Next]_vars

-----------------------------------------------------------------------------
(* The bytes r points at are all of k's chunk. *)
PointsAt(r, k) ==
    /\ r.offset + FSP_SIZE <= st_size[r.fd_index]
    /\ \A p \in Part : chunkFile[r.fd_index][r.offset + p] = <<k, p>>

(* block_read of the whole chunk: no record, or no descriptor for its      *)
(* file, is an error.  While the store is down, what it will answer.       *)
block_read(k) == IF ~Known(k) \/ (phase = "up" /\ ~fds[hashDb[k].fd_index])
                 THEN "none"
                 ELSE IF PointsAt(hashDb[k], k) THEN "data" ELSE "garbage"

(* Every record, in the cache or written back, points at the data of its   *)
(* key: no order of puts, failed and short writes, crashes, lost records   *)
(* and restarts makes the store append over a chunk it still knows, or     *)
(* keep a record of a chunk it never finished writing.                     *)
RecordsPointAtData ==
    \A k \in Key : /\ hashDb[k] # NoRecord => PointsAt(hashDb[k], k)
                   /\ hashDbFile[k] # NoRecord => PointsAt(hashDbFile[k], k)

(* While nothing has failed, every byte below cur_size belongs to a chunk  *)
(* that has a record or is about to get one: put_new_chunk loses no space, *)
(* across any number of shutdowns and starts.                              *)
Owned(f, b) ==
    \/ \E k \in Key : /\ hashDb[k] # NoRecord /\ hashDb[k].fd_index = f
                      /\ b \in hashDb[k].offset .. hashDb[k].offset + FSP_SIZE - 1
    \/ /\ pending # Idle /\ pending.fd_index = f
       /\ b \in pending.offset .. pending.offset + FSP_SIZE - 1
NoSpaceWasted ==
    clean => \A f \in File : \A b \in 0 .. st_size[f] - 1 : Owned(f, b)

(* While nothing has failed, get_proper_chunk_file keeps the chunk files   *)
(* within one chunk of each other.                                         *)
FilesFillEvenly ==
    clean => \A f, g \in File : st_size[f] - st_size[g] <= FSP_SIZE

(* The server never writes a byte of a chunk file twice. *)
KeepsWrittenBytes ==
    \A f \in File : \A b \in Byte :
        chunkFile[f][b] # Hole => chunkFile'[f][b] = chunkFile[f][b]
WrittenOnce == [][KeepsWrittenBytes]_vars

refsOf   == [k \in Key |-> IF Known(k) THEN hashDb[k].ref_count ELSE 0]
answerOf == [k \in Key |-> block_read(k)]
Dedup    == INSTANCE DedupStore WITH refs <- refsOf, answer <- answerOf, exact <- clean

(* The server counts every successful put of a key exactly once while      *)
(* nothing fails, and never more than once after that; a read gives the    *)
(* key's own data or nothing.                                              *)
ImplementsDedup == Dedup!Spec

-----------------------------------------------------------------------------
(* The inductive invariant of the server: beside RecordsPointAtData, that  *)
(* its free lists stay empty, a chunk without its record is already there, *)
(* no file holds bytes past its size, and no count is above the puts it    *)
(* counts.                                                                 *)
PendingPointsAtData ==
    pending # Idle => /\ phase = "up"
                      /\ acked[pending.key] < MaxPuts
                      /\ PointsAt(pending, pending.key)
                      /\ fds[pending.fd_index]
                      /\ clean => ~Known(pending.key)
CleanMeansOpen == clean /\ phase = "up" => \A f \in File : fds[f]
AppendsPastEnd == \A f \in File : fds[f] => st_size[f] <= cur_size[f]
NothingPastEnd ==
    \A f \in File : \A b \in Byte : st_size[f] <= b => chunkFile[f][b] = Hole
CountedAtMostOnce ==
    \A k \in Key :
        /\ hashDb[k] # NoRecord => hashDb[k].ref_count <= acked[k]
        /\ hashDbFile[k] # NoRecord => hashDbFile[k].ref_count <= acked[k]
ServerInv ==
    /\ TypeOK
    /\ fcls = NoLists /\ fclFile = NoLists
    /\ RecordsPointAtData
    /\ PendingPointsAtData
    /\ CleanMeansOpen
    /\ AppendsPastEnd
    /\ NothingPastEnd
    /\ CountedAtMostOnce

-----------------------------------------------------------------------------
(* What is left of RecordsPointAtData with del_chunk as it is: it frees    *)
(* chunk 0 of file 0 over and over, and until a damaged list gives out a   *)
(* chunk no other one is ever given out twice.  Whatever was lost or       *)
(* failed before, a record outside that chunk still points at its data.    *)
InChunkZero(r) == r.fd_index = 0 /\ r.offset < FSP_SIZE
DamageStaysInChunkZero ==
    ~astray => \A k \in Key :
        /\ hashDb[k] # NoRecord /\ ~InChunkZero(hashDb[k]) => PointsAt(hashDb[k], k)
        /\ hashDbFile[k] # NoRecord /\ ~InChunkZero(hashDbFile[k]) =>
               PointsAt(hashDbFile[k], k)

(* The inductive invariant of a client that deletes as well: a list holds  *)
(* chunk 0 of file 0, or nothing, or is damaged, and only file 0's can be. *)
FreesOnlyChunkZero ==
    /\ fcls[0] \in Seq({0}) \cup {Damaged} /\ fclFile[0] \in Seq({0}) \cup {Damaged}
    /\ \A f \in File \ {0} : fcls[f] = <<>> /\ fclFile[f] = <<>>
PendingOutsideChunkZero ==
    pending # Idle => /\ phase = "up"
                      /\ acked[pending.key] < MaxPuts
                      /\ ~astray /\ ~InChunkZero(pending) => PointsAt(pending, pending.key)
AppendsOutsideChunkZero ==
    \A f \in File : fds[f] => /\ 0 <= cur_size[f]
                              /\ \/ st_size[f] <= cur_size[f]
                                 \/ f = 0 /\ st_size[f] <= FSP_SIZE
                                 \/ astray
ClientInv ==
    /\ TypeOK
    /\ FreesOnlyChunkZero
    /\ DamageStaysInChunkZero
    /\ PendingOutsideChunkZero
    /\ AppendsOutsideChunkZero

(* While nothing has failed, a chunk on a free list belongs to no key:     *)
(* del_chunk frees a chunk only with the record of its last reference.     *)
FreeChunksAreUnused ==
    clean => \A k \in Key : Known(k) =>
        \A i \in DOMAIN fcls[hashDb[k].fd_index] :
            fcls[hashDb[k].fd_index][i] * FSP_SIZE # hashDb[k].offset

(* While nothing has failed, block_write never gives up while a chunk is   *)
(* free: with every file full it takes the free one.                       *)
FreeChunkIsUsable ==
    clean /\ Ready /\ (\E f \in File : fcls[f] # <<>>) =>
        \E top \in Tops, f \in File : ProperFile(f, top)
=============================================================================
