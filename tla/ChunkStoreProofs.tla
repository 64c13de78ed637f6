-------------------------- MODULE ChunkStoreProofs --------------------------
(***************************************************************************)
(* Proofs about the chunk store, for every number of keys, files, bytes of *)
(* a chunk and chunks of a file: the server, which only puts, and a client *)
(* that also calls del_chunk.                                              *)
(***************************************************************************)
EXTENDS ChunkStore, TLAPS

(* A store that was just created satisfies the server's invariant. *)
LEMMA ServerInit == Init => ServerInv
<1> SUFFICES ASSUME Init PROVE ServerInv
    OBVIOUS
<1> USE SizeAssumption DEF Init
<1>1. TypeOK
  <2>1. hashDb \in [Key -> Record \cup {NoRecord}]
    OBVIOUS
  <2>2. chunkFile \in [File -> [Byte -> (Key \X Part) \cup {Hole}]]
    OBVIOUS
  <2>3. fclFile \in [File -> List] /\ fcls \in [File -> List]
    BY DEF NoLists, List
  <2>4. acked \in [Key -> 0 .. MaxPuts]
    OBVIOUS
  <2>5. clean \in BOOLEAN /\ astray \in BOOLEAN
    OBVIOUS
  <2> QED
    BY <2>1, <2>2, <2>3, <2>4, <2>5 DEF TypeOK
<1>2. RecordsPointAtData
  BY DEF RecordsPointAtData
<1>3. PendingPointsAtData /\ CleanMeansOpen
  BY DEF PendingPointsAtData, CleanMeansOpen
<1>4. AppendsPastEnd /\ NothingPastEnd
  BY DEF AppendsPastEnd, NothingPastEnd
<1>5. CountedAtMostOnce
  BY DEF CountedAtMostOnce
<1> QED
  BY <1>1, <1>2, <1>3, <1>4, <1>5 DEF ServerInv

(* Where the server puts a chunk: at the end of the chosen file. *)
LEMMA ServerAppends ==
    ASSUME ServerInv, NEW f \in File, NEW top \in Tops, NEW off,
           ProperFile(f, top), Allocate(f, off)
    PROVE  /\ off = cur_size[f]
           /\ cur_size[f] \in Int /\ cur_size[f] < MAX_CHUNK_FILE_SIZE - 1
           /\ \A g \in File : capcity(g, top) = cur_size[g]
           /\ cur_size' = [cur_size EXCEPT ![f] = @ + FSP_SIZE]
           /\ fcls' = NoLists /\ astray' = astray
<1>1. \A g \in File : fcls[g] = <<>> /\ fcls[g] # Damaged
  <2>1. <<>> \in Seq(Nat)
    OBVIOUS
  <2> QED
    BY <2>1, SentinelAssumption DEF ServerInv, NoLists
<1>2. \A g \in File : cur_size[g] \in Int
  BY DEF ServerInv, TypeOK
<1>3. \A g \in File : top[g] = -1
  BY <1>1 DEF Tops
<1>4. \A g \in File : capcity(g, top) = cur_size[g]
  BY <1>2, <1>3 DEF capcity
<1>5. /\ off = cur_size[f]
      /\ cur_size' = [cur_size EXCEPT ![f] = @ + FSP_SIZE]
      /\ UNCHANGED <<fcls, astray>>
  BY <1>1 DEF Allocate
<1> QED
  BY <1>2, <1>4, <1>5 DEF ServerInv, ProperFile

(* Writing all of a chunk, or part of it, keeps the server's invariant. *)
LEMMA ServerWriteChunk ==
    ASSUME ServerInv, NEW k \in Key, NEW n \in 0 .. FSP_SIZE,
           WriteChunk(k, n), phase = "up",
           acked[k] < MaxPuts \/ n < FSP_SIZE,
           clean' \in BOOLEAN, clean' => clean /\ ~Known(k)
    PROVE  ServerInv'
<1> USE SizeAssumption, SentinelAssumption
<1>0. PICK top \in Tops, f \in File :
        /\ ProperFile(f, top)
        /\ fds[f] \/ n = 0
        /\ \E off \in {cur_size[f]} \cup ChunkStarts :
              /\ Allocate(f, off)
              /\ Pwrite(k, f, off, n)
              /\ pending' = IF n = FSP_SIZE
                            THEN [key |-> k, fd_index |-> f, offset |-> off]
                            ELSE Idle
        /\ UNCHANGED <<phase, hashDb, hashDbFile, fclFile, fds, acked>>
  BY DEF WriteChunk
<1>1. PICK off :
        /\ ProperFile(f, top)
        /\ fds[f] \/ n = 0
        /\ Allocate(f, off)
        /\ Pwrite(k, f, off, n)
        /\ pending' = IF n = FSP_SIZE
                      THEN [key |-> k, fd_index |-> f, offset |-> off]
                      ELSE Idle
        /\ UNCHANGED <<phase, hashDb, hashDbFile, fclFile, fds, acked>>
  BY <1>0
<1>2. /\ off = cur_size[f]
      /\ off \in Int /\ off < MAX_CHUNK_FILE_SIZE - 1
      /\ cur_size' = [cur_size EXCEPT ![f] = @ + FSP_SIZE]
      /\ fcls' = NoLists /\ astray' = astray
  BY <1>1, ServerAppends
<1>3. n \in Nat /\ n <= FSP_SIZE
  OBVIOUS
<1>4. n > 0 => fds[f] /\ st_size[f] <= off /\ off \in Nat
  BY <1>1, <1>2, <1>3 DEF ServerInv, AppendsPastEnd, TypeOK
<1>5. TypeOK
  BY DEF ServerInv
<1>6. /\ chunkFile \in [File -> [Byte -> (Key \X Part) \cup {Hole}]]
      /\ st_size \in [File -> 0 .. MAX_CHUNK_FILE_SIZE + FSP_SIZE]
  BY <1>5 DEF TypeOK
<1>7. Pwrite(k, f, off, n)
  BY <1>1
<1>8. pending' = IF n = FSP_SIZE THEN [key |-> k, fd_index |-> f, offset |-> off] ELSE Idle
  BY <1>1
<1>9. n > 0 => off \in Byte
  BY <1>2, <1>4 DEF Byte
<1>10. TypeOK'
  <2>1. chunkFile' \in [File -> [Byte -> (Key \X Part) \cup {Hole}]]
    <3>1. [b \in Byte |-> IF off <= b /\ b < off + n THEN <<k, b - off>>
                          ELSE chunkFile[f][b]] \in [Byte -> (Key \X Part) \cup {Hole}]
      <4> SUFFICES ASSUME NEW b \in Byte
                   PROVE  (IF off <= b /\ b < off + n THEN <<k, b - off>>
                           ELSE chunkFile[f][b]) \in (Key \X Part) \cup {Hole}
        OBVIOUS
      <4>1. CASE off <= b /\ b < off + n
        BY <4>1, <1>2, <1>3, SMTT(60) DEF Byte, Part
      <4>2. CASE ~(off <= b /\ b < off + n)
        BY <4>2, <1>6
      <4> QED
        BY <4>1, <4>2
    <3> QED
      BY <3>1, <1>6, <1>7 DEF Pwrite
  <2>2. st_size' \in [File -> 0 .. MAX_CHUNK_FILE_SIZE + FSP_SIZE]
    BY <1>2, <1>3, <1>4, <1>6, <1>7, SMTT(60) DEF Pwrite
  <2>3. cur_size' \in [File -> Int]
    BY <1>2, <1>5 DEF TypeOK
  <2>4. pending' \in [key : Key, fd_index : File, offset : Byte] \cup {Idle}
    BY <1>8, <1>9
  <2>5. fcls' \in [File -> List]
    BY <1>2 DEF NoLists, List
  <2> QED
    BY <1>1, <1>2, <1>5, <2>1, <2>2, <2>3, <2>4, <2>5 DEF TypeOK
<1>11. fcls' = NoLists /\ fclFile' = NoLists
  BY <1>1, <1>2 DEF ServerInv
<1>12. RecordsPointAtData'
  <2> SUFFICES ASSUME NEW kk \in Key, NEW r \in Record, PointsAt(r, kk)
               PROVE  /\ r.offset + FSP_SIZE <= st_size'[r.fd_index]
                      /\ \A p \in Part : chunkFile'[r.fd_index][r.offset + p] = <<kk, p>>
    <3>1. /\ hashDb' = hashDb /\ hashDbFile' = hashDbFile
          /\ hashDb \in [Key -> Record \cup {NoRecord}]
          /\ hashDbFile \in [Key -> Record \cup {NoRecord}]
      BY <1>1, <1>5 DEF TypeOK
    <3> QED
      BY <3>1, ZenonT(60) DEF ServerInv, RecordsPointAtData, PointsAt
  <2>1. r.fd_index \in File /\ r.offset \in Byte
    BY DEF Record
  <2>2. /\ r.offset + FSP_SIZE <= st_size[r.fd_index]
        /\ \A p \in Part : chunkFile[r.fd_index][r.offset + p] = <<kk, p>>
    BY DEF PointsAt
  <2>3. r.offset + FSP_SIZE <= st_size'[r.fd_index]
    BY <2>1, <2>2, <1>2, <1>3, <1>6, <1>7, SMTT(60) DEF Pwrite, Byte
  <2>4. ASSUME NEW p \in Part
        PROVE  chunkFile'[r.fd_index][r.offset + p] = <<kk, p>>
    <3>1. p \in Int /\ 0 <= p /\ p < FSP_SIZE
      BY DEF Part
    <3>2. r.offset + p \in Byte
      BY <2>1, <2>2, <3>1, <1>6 DEF Byte
    <3>3. ~(r.fd_index = f /\ off <= r.offset + p /\ r.offset + p < off + n)
      <4>1. off \in Int /\ r.offset \in Int /\ st_size[r.fd_index] \in Int
        BY <1>2, <1>6, <2>1 DEF Byte
      <4>2. n > 0 /\ r.fd_index = f => st_size[r.fd_index] <= off
        BY <1>4
      <4> QED
        BY <4>1, <4>2, <2>2, <3>1, <1>3, SMTT(60)
    <3>4. chunkFile'[r.fd_index][r.offset + p] = chunkFile[r.fd_index][r.offset + p]
      BY <2>1, <3>2, <3>3, <1>6, <1>7 DEF Pwrite
    <3> QED
      BY <2>2, <3>4
  <2> QED
    BY <2>3, <2>4
<1>13. PendingPointsAtData'
  <2>1. CASE n # FSP_SIZE
    BY <2>1, <1>8 DEF PendingPointsAtData
  <2>2. CASE n = FSP_SIZE
    <3>1. pending' = [key |-> k, fd_index |-> f, offset |-> off]
      BY <2>2, <1>8
    <3>2. off + FSP_SIZE <= st_size'[f]
      BY <2>2, <1>2, <1>6, <1>7 DEF Pwrite
    <3>3. ASSUME NEW p \in Part PROVE chunkFile'[f][off + p] = <<k, p>>
      <4>1. p \in Int /\ 0 <= p /\ p < FSP_SIZE
        BY DEF Part
      <4>2. off + p \in Byte
        BY <2>2, <4>1, <1>2, <1>4 DEF Byte
      <4>3. chunkFile'[f][off + p] = <<k, (off + p) - off>>
        BY <2>2, <4>1, <4>2, <1>2, <1>6, <1>7, SMTT(60) DEF Pwrite
      <4> QED
        BY <4>1, <4>3, <1>2
    <3>4. phase' = "up" /\ acked' = acked /\ hashDb' = hashDb /\ fds'[f]
      BY <2>2, <1>1, <1>4
    <3> QED
      BY <2>2, <3>1, <3>2, <3>3, <3>4 DEF PendingPointsAtData, PointsAt, Known
  <2> QED
    BY <2>1, <2>2
<1>14. AppendsPastEnd'
  <2> SUFFICES ASSUME NEW g \in File, fds[g] PROVE st_size'[g] <= cur_size'[g]
    BY <1>1 DEF AppendsPastEnd
  <2>1. st_size[g] <= cur_size[g] /\ cur_size[g] \in Int /\ cur_size \in [File -> Int]
    BY <1>5 DEF ServerInv, AppendsPastEnd, TypeOK
  <2> QED
    BY <2>1, <1>2, <1>3, <1>6, <1>7 DEF Pwrite
<1>15. NothingPastEnd'
  <2> SUFFICES ASSUME NEW g \in File, NEW b \in Byte, st_size'[g] <= b
               PROVE  chunkFile'[g][b] = Hole
    BY DEF NothingPastEnd
  <2>1. b \in Int
    BY DEF Byte
  <2>2. st_size[g] <= st_size'[g]
    BY <1>2, <1>3, <1>6, <1>7 DEF Pwrite
  <2>3. chunkFile[g][b] = Hole
    BY <2>1, <2>2, <1>6, <1>2, <1>3, <1>7 DEF ServerInv, NothingPastEnd, Pwrite
  <2>4. g = f => ~(off <= b /\ b < off + n)
    BY <2>1, <1>2, <1>3, <1>6, <1>7, SMTT(60) DEF Pwrite
  <2> QED
    BY <2>3, <2>4, <1>6, <1>7 DEF Pwrite
<1>16. CountedAtMostOnce' /\ CleanMeansOpen'
  BY <1>1 DEF ServerInv, CountedAtMostOnce, CleanMeansOpen
<1> QED
  BY <1>10, <1>11, <1>12, <1>13, <1>14, <1>15, <1>16 DEF ServerInv

(* The record of a chunk that was written, and a count that goes up. *)
LEMMA ServerRecords ==
    ASSUME ServerInv, NEW k \in Key,
           WriteHashDb \/ WriteHashDbFails \/ PutDuplicate(k) \/ MpoolWriteBack(k)
    PROVE  ServerInv'
<1> USE SizeAssumption, SentinelAssumption
<1>1. TypeOK /\ RecordsPointAtData /\ PendingPointsAtData /\ CountedAtMostOnce
  BY DEF ServerInv
<1>2. CASE WriteHashDb
  <2>1. /\ pending \in [key : Key, fd_index : File, offset : Byte]
        /\ PointsAt(pending, pending.key) /\ acked[pending.key] < MaxPuts
    BY <1>1, <1>2 DEF TypeOK, PendingPointsAtData, WriteHashDb
  <2> DEFINE r == [fd_index |-> pending.fd_index, ref_count |-> 1, offset |-> pending.offset]
  <2>2. /\ hashDb' = [hashDb EXCEPT ![pending.key] = r]
        /\ acked' = [acked EXCEPT ![pending.key] = @ + 1]
        /\ pending' = Idle
        /\ UNCHANGED <<phase, hashDbFile, disk, fclFile, cfi, clean>>
    BY <1>2 DEF WriteHashDb
  <2>3. r \in Record
    BY <2>1 DEF Record
  <2>4. PointsAt(r, pending.key)
    BY <2>1 DEF PointsAt
  <2>5. r.ref_count = 1
    OBVIOUS
  <2> HIDE DEF r
  <2>6. TypeOK'
    BY <1>1, <2>1, <2>2, <2>3, SMTT(60) DEF TypeOK, disk, cfi
  <2>7. RecordsPointAtData'
    BY <1>1, <2>1, <2>2, <2>4 DEF TypeOK, disk, RecordsPointAtData, PointsAt
  <2>8. CountedAtMostOnce'
    <3> SUFFICES ASSUME NEW kk \in Key
                 PROVE  /\ hashDb'[kk] # NoRecord => hashDb'[kk].ref_count <= acked'[kk]
                        /\ hashDbFile'[kk] # NoRecord => hashDbFile'[kk].ref_count <= acked'[kk]
      BY DEF CountedAtMostOnce
    <3>1. acked[kk] \in Nat /\ acked'[kk] \in Nat /\ acked[kk] <= acked'[kk]
      BY <1>1, <2>1, <2>2 DEF TypeOK
    <3>2. ASSUME NEW db \in {hashDb, hashDbFile}, db[kk] # NoRecord
          PROVE  db[kk].ref_count \in Nat /\ db[kk].ref_count <= acked[kk]
      BY <1>1, <3>2 DEF TypeOK, CountedAtMostOnce, Record
    <3>3. kk = pending.key => acked'[kk] = acked[kk] + 1 /\ hashDb'[kk] = r
      BY <1>1, <2>1, <2>2 DEF TypeOK
    <3>4. kk # pending.key => hashDb'[kk] = hashDb[kk]
      BY <1>1, <2>1, <2>2 DEF TypeOK
    <3> QED
      BY <3>1, <3>2, <3>3, <3>4, <2>2, <2>5, SMTT(60)
  <2>9. PendingPointsAtData'
    BY <2>2, SMTT(60) DEF PendingPointsAtData
  <2> QED
    BY <2>2, <2>6, <2>7, <2>8, <2>9, ZenonT(60)
       DEF ServerInv, disk, cfi, AppendsPastEnd, NothingPastEnd, CleanMeansOpen
<1>3. CASE WriteHashDbFails
  BY <1>3, ZenonT(60) DEF WriteHashDbFails, ServerInv, TypeOK, disk, cfi, RecordsPointAtData,
       PendingPointsAtData, CleanMeansOpen, AppendsPastEnd, NothingPastEnd,
       CountedAtMostOnce, PointsAt
<1>4. CASE PutDuplicate(k)
  <2> DEFINE r == [hashDb[k] EXCEPT !.ref_count = @ + 1]
  <2>1. /\ pending = Idle /\ hashDb[k] \in Record
        /\ hashDb[k].ref_count < MaxPuts /\ acked[k] < MaxPuts
        /\ hashDb' = [hashDb EXCEPT ![k] = r]
        /\ acked' = [acked EXCEPT ![k] = @ + 1]
        /\ UNCHANGED <<phase, hashDbFile, disk, fclFile, cfi, pending, clean>>
    BY <1>1, <1>4 DEF PutDuplicate, Ready, Known, TypeOK
  <2>2. /\ r \in Record /\ r.ref_count = hashDb[k].ref_count + 1
        /\ r.fd_index = hashDb[k].fd_index /\ r.offset = hashDb[k].offset
    BY <2>1 DEF Record
  <2> HIDE DEF r
  <2>3. TypeOK'
    BY <1>1, <2>1, <2>2 DEF TypeOK, disk, cfi
  <2>4. RecordsPointAtData'
    BY <1>1, <2>1, <2>2, ZenonT(60) DEF TypeOK, disk, RecordsPointAtData, PointsAt
  <2>5. CountedAtMostOnce'
    <3> SUFFICES ASSUME NEW kk \in Key
                 PROVE  /\ hashDb'[kk] # NoRecord => hashDb'[kk].ref_count <= acked'[kk]
                        /\ hashDbFile'[kk] # NoRecord => hashDbFile'[kk].ref_count <= acked'[kk]
      BY DEF CountedAtMostOnce
    <3>1. acked[kk] \in Nat /\ acked'[kk] \in Nat /\ acked[kk] <= acked'[kk]
      BY <1>1, <2>1 DEF TypeOK
    <3>2. ASSUME NEW db \in {hashDb, hashDbFile}, db[kk] # NoRecord
          PROVE  db[kk].ref_count \in Nat /\ db[kk].ref_count <= acked[kk]
      BY <1>1, <3>2 DEF TypeOK, CountedAtMostOnce, Record
    <3>3. kk = k => /\ acked'[kk] = acked[kk] + 1 /\ hashDb'[kk] = r
                    /\ hashDb[kk] # NoRecord
      BY <1>1, <1>4, <2>1 DEF TypeOK, PutDuplicate, Known
    <3>4. kk # k => hashDb'[kk] = hashDb[kk]
      BY <1>1, <2>1 DEF TypeOK
    <3> QED
      BY <3>1, <3>2, <3>3, <3>4, <2>1, <2>2, SMTT(60)
  <2>6. PendingPointsAtData'
    BY <2>1 DEF PendingPointsAtData
  <2> QED
    BY <2>1, <2>3, <2>4, <2>5, <2>6
       DEF ServerInv, disk, cfi, AppendsPastEnd, NothingPastEnd, CleanMeansOpen
<1>5. CASE MpoolWriteBack(k)
  <2>1. /\ hashDbFile' = [hashDbFile EXCEPT ![k] = hashDb[k]]
        /\ UNCHANGED <<phase, hashDb, disk, fclFile, cfi, pending, acked, clean>>
    BY <1>5 DEF MpoolWriteBack
  <2>2. TypeOK'
    BY <1>1, <2>1, SMTT(60) DEF TypeOK, disk, cfi
  <2>3. RecordsPointAtData'
    BY <1>1, <2>1 DEF TypeOK, disk, RecordsPointAtData, PointsAt
  <2>4. CountedAtMostOnce'
    BY <1>1, <2>1 DEF TypeOK, CountedAtMostOnce
  <2>5. PendingPointsAtData'
    BY <1>1, <2>1 DEF PendingPointsAtData, PointsAt, Known, disk, cfi
  <2> QED
    BY <2>1, <2>2, <2>3, <2>4, <2>5
       DEF ServerInv, disk, cfi, AppendsPastEnd, NothingPastEnd, CleanMeansOpen
<1> QED
  BY <1>2, <1>3, <1>4, <1>5

(* The process starts, stops or dies. *)
LEMMA ServerLifecycle ==
    ASSUME ServerInv,
           \/ \E opened \in SUBSET File, load \in Loads : Start(opened, load)
           \/ \E save \in Saves : Release(save)
           \/ Close
           \/ Die /\ (fclFile' = fclFile \/ \E save \in Saves : CrashInRelease(save))
    PROVE  ServerInv'
<1> USE SizeAssumption, SentinelAssumption
<1>1. /\ TypeOK /\ RecordsPointAtData /\ PendingPointsAtData /\ CountedAtMostOnce
      /\ CleanMeansOpen /\ AppendsPastEnd /\ NothingPastEnd /\ fcls = NoLists /\ fclFile = NoLists
  BY DEF ServerInv
<1>2. NoLists \in [File -> List]
  BY DEF NoLists, List
<1>20. ASSUME NEW save \in Saves PROVE [f \in File |-> Saved(f, save[f])] = NoLists
  <2>1. ASSUME NEW f \in File PROVE Saved(f, save[f]) = <<>>
    <3>1. save[f] \in Saving /\ fcls[f] = <<>> /\ fclFile[f] = <<>>
      BY <1>1 DEF Saves, NoLists
    <3> QED
      BY <3>1 DEF Saved, Saving
  <2> QED
    BY <2>1 DEF NoLists
<1>21. ASSUME NEW load \in Loads PROVE [f \in File |-> Loaded(f, load[f])] = NoLists
  <2>1. ASSUME NEW f \in File PROVE Loaded(f, load[f]) = <<>>
    <3>1. fclFile[f] = <<>> /\ load[f] = "loaded"
      BY <1>1 DEF Loads, NoLists
    <3> QED
      BY <3>1 DEF Loaded
  <2> QED
    BY <2>1 DEF NoLists
<1>3. ASSUME NEW opened \in SUBSET File, NEW load \in Loads, Start(opened, load)
      PROVE  ServerInv'
  <2>1. PICK junk \in [File -> JunkSize] :
            cur_size' = [f \in File |-> IF f \in opened THEN st_size[f] ELSE junk[f]]
    BY <1>3 DEF Start
  <2>2. /\ phase' = "up" /\ phase = "down"
        /\ fds' = [f \in File |-> f \in opened]
        /\ fcls' = NoLists
        /\ clean' = (clean /\ opened = File /\ load = [f \in File |-> "loaded"])
        /\ UNCHANGED <<hashDb, hashDbFile, disk, fclFile, pending, acked>>
    BY <1>3, <1>21 DEF Start
  <2>3. st_size \in [File -> 0 .. MAX_CHUNK_FILE_SIZE + FSP_SIZE]
    BY <1>1 DEF TypeOK
  <2>8. ASSUME NEW f \in File
        PROVE  (IF f \in opened THEN st_size[f] ELSE junk[f]) \in Int
    <3>1. junk[f] \in Int
      <4>1. junk[f] \in JunkSize
        OBVIOUS
      <4> QED
        BY <4>1
    <3>2. st_size[f] \in Int
      BY <2>3
    <3> QED
      BY <3>1, <3>2
  <2>9. cur_size' \in [File -> Int]
    BY <2>1, <2>8
  <2>4. TypeOK'
    BY <1>1, <1>2, <2>2, <2>9 DEF TypeOK, disk
  <2>5. AppendsPastEnd'
    <3> SUFFICES ASSUME NEW f \in File, fds'[f] PROVE st_size'[f] <= cur_size'[f]
      BY DEF AppendsPastEnd
    <3>1. f \in opened /\ cur_size'[f] = st_size[f] /\ st_size'[f] = st_size[f]
      BY <2>1, <2>2 DEF disk
    <3>2. st_size[f] \in Int
      BY <2>3
    <3> QED
      BY <3>1, <3>2
  <2>6. RecordsPointAtData' /\ CountedAtMostOnce' /\ NothingPastEnd'
    BY <1>1, <2>2
       DEF disk, RecordsPointAtData, PointsAt, CountedAtMostOnce, NothingPastEnd
  <2>7. PendingPointsAtData' /\ CleanMeansOpen'
    BY <1>1, <2>2 DEF PendingPointsAtData, CleanMeansOpen
  <2> QED
    BY <1>1, <2>2, <2>4, <2>5, <2>6, <2>7 DEF ServerInv
<1>4. ASSUME NEW save \in Saves, Release(save)
      PROVE  ServerInv'
  <2>1. /\ pending = Idle /\ phase' = "closing"
        /\ fclFile' = NoLists /\ fcls' = NoLists
        /\ fds' = [f \in File |-> FALSE] /\ cur_size' = [f \in File |-> 0]
        /\ clean' \in BOOLEAN
        /\ UNCHANGED <<hashDb, hashDbFile, disk, pending, acked>>
    BY <1>4, <1>20 DEF Release, Ready, FreeCfi
  <2>2. TypeOK'
    BY <1>1, <1>2, <2>1 DEF TypeOK, disk
  <2>3. /\ RecordsPointAtData' /\ CountedAtMostOnce' /\ NothingPastEnd'
        /\ AppendsPastEnd' /\ PendingPointsAtData' /\ CleanMeansOpen'
    BY <1>1, <2>1, ZenonT(60)
       DEF disk, RecordsPointAtData, PointsAt, CountedAtMostOnce, NothingPastEnd,
           AppendsPastEnd, PendingPointsAtData, CleanMeansOpen
  <2> QED
    BY <2>1, <2>2, <2>3 DEF ServerInv
<1>5. CASE Close
  <2>1. /\ hashDbFile' = hashDb /\ phase' = "down" /\ phase # "up"
        /\ UNCHANGED <<hashDb, disk, fclFile, cfi, pending, acked, clean>>
    BY <1>5 DEF Close
  <2>2. TypeOK'
    BY <1>1, <2>1 DEF TypeOK, disk, cfi
  <2>3. /\ RecordsPointAtData' /\ CountedAtMostOnce' /\ NothingPastEnd'
        /\ AppendsPastEnd' /\ PendingPointsAtData' /\ CleanMeansOpen'
    BY <1>1, <2>1
       DEF disk, cfi, RecordsPointAtData, PointsAt, CountedAtMostOnce, NothingPastEnd,
           AppendsPastEnd, PendingPointsAtData, CleanMeansOpen
  <2> QED
    BY <1>1, <2>1, <2>2, <2>3 DEF ServerInv, cfi
<1>6. CASE Die /\ (fclFile' = fclFile \/ \E save \in Saves : CrashInRelease(save))
  <2>1. /\ phase' = "down" /\ hashDb' \in {hashDb, hashDbFile} /\ pending' = Idle
        /\ fds' = [f \in File |-> FALSE] /\ cur_size' = [f \in File |-> 0]
        /\ fcls' = NoLists /\ clean' = FALSE
        /\ UNCHANGED <<hashDbFile, disk, acked>>
    BY <1>6 DEF Die, FreeCfi
  <2>2. fclFile' = NoLists
    BY <1>1, <1>6, <1>20 DEF CrashInRelease
  <2>8. hashDb' \in [Key -> Record \cup {NoRecord}]
    BY <1>1, <2>1 DEF TypeOK
  <2>9. fds' \in [File -> BOOLEAN] /\ cur_size' \in [File -> Int]
    BY <2>1
  <2>3. TypeOK'
    BY <1>1, <1>2, <2>1, <2>2, <2>8, <2>9 DEF TypeOK, disk
  <2>4. RecordsPointAtData' /\ CountedAtMostOnce'
    BY <1>1, <2>1 DEF disk, RecordsPointAtData, PointsAt, CountedAtMostOnce
  <2>5. /\ NothingPastEnd' /\ AppendsPastEnd' /\ PendingPointsAtData'
        /\ CleanMeansOpen'
    BY <1>1, <2>1
       DEF disk, NothingPastEnd, AppendsPastEnd, PendingPointsAtData, CleanMeansOpen
  <2> QED
    BY <2>1, <2>2, <2>3, <2>4, <2>5 DEF ServerInv
<1> QED
  BY <1>3, <1>4, <1>5, <1>6

(* No step of the server breaks its invariant. *)
LEMMA ServerStep == ServerInv /\ [ServerNext]_vars => ServerInv'
<1> SUFFICES ASSUME ServerInv, [ServerNext]_vars PROVE ServerInv'
    OBVIOUS
<1> USE SizeAssumption
<1>1. clean \in BOOLEAN
  BY DEF ServerInv, TypeOK
<1>2. ASSUME NEW k \in Key, PutNew(k) PROVE ServerInv'
  <2>1. FSP_SIZE \in 0 .. FSP_SIZE
    OBVIOUS
  <2> QED
    BY <1>1, <1>2, <2>1, ServerWriteChunk DEF PutNew, Ready
<1>3. ASSUME NEW k \in Key, PutNewFails(k) PROVE ServerInv'
  <2>1. PICK n \in 0 .. FSP_SIZE - 1 : WriteChunk(k, n)
    BY <1>3 DEF PutNewFails
  <2>2. n \in 0 .. FSP_SIZE /\ n < FSP_SIZE
    OBVIOUS
  <2> QED
    BY <1>3, <2>1, <2>2, ServerWriteChunk DEF PutNewFails, Ready
<1>4. ASSUME NEW k \in Key, PutGetFails(k) PROVE ServerInv'
  BY <1>4, ServerWriteChunk DEF PutGetFails, Ready
<1>5. ASSUME NEW k \in Key, PutDuplicate(k) \/ MpoolWriteBack(k) PROVE ServerInv'
  BY <1>5, ServerRecords
<1>6. ASSUME NEW k \in Key, BlockWriteAborts(k) PROVE ServerInv'
  BY <1>6, ServerLifecycle DEF BlockWriteAborts
<1>7. CASE WriteHashDb \/ WriteHashDbFails
  <2>1. PICK k \in Key : TRUE
    BY <1>7 DEF WriteHashDb, WriteHashDbFails, ServerInv, TypeOK
  <2> QED
    BY <1>7, <2>1, ServerRecords
<1>8. CASE \/ \E opened \in SUBSET File, load \in Loads : Start(opened, load)
           \/ \E save \in Saves : Release(save)
           \/ Close
  BY <1>8, ServerLifecycle
<1>9. CASE Crash \/ \E save \in Saves : CrashInRelease(save)
  BY <1>9, ServerLifecycle DEF Crash, CrashInRelease
<1>10. CASE UNCHANGED vars
  BY <1>10 DEF vars, disk, cfi, ServerInv, TypeOK, RecordsPointAtData, PointsAt,
       PendingPointsAtData, Known, CleanMeansOpen, AppendsPastEnd, NothingPastEnd, CountedAtMostOnce
<1> QED
  BY <1>2, <1>3, <1>4, <1>5, <1>6, <1>7, <1>8, <1>9, <1>10 DEF ServerNext

(* The inductive invariant holds of every state of the server: its free    *)
(* lists are empty, every record and every chunk about to get one points   *)
(* at the data of its key, and appends go past the end.                    *)
THEOREM ServerInvariant == ServerSpec => []ServerInv
<1>1. Init => ServerInv
  BY ServerInit
<1>2. ServerInv /\ [ServerNext]_vars => ServerInv'
  BY ServerStep
<1> QED
  BY <1>1, <1>2, PTL DEF ServerSpec

(* The server's state keeps its types and bounds: no chunk is put past the *)
(* last byte of a file, and no count is 0 or above what was put.           *)
THEOREM ServerTypes == ServerSpec => []TypeOK
<1>1. ServerInv => TypeOK
  BY DEF ServerInv
<1> QED
  BY <1>1, ServerInvariant, PTL

(* Every record of a server that only puts points at the data of its key,  *)
(* through failed and short writes, crashes and restarts.                  *)
THEOREM ServerKeepsData == ServerSpec => []RecordsPointAtData
<1>1. ServerInv => RecordsPointAtData
  BY DEF ServerInv
<1> QED
  BY <1>1, ServerInvariant, PTL

(* A server that only puts never writes a byte of a chunk file twice: it   *)
(* appends at or past the end, where no byte was written before.           *)
THEOREM ServerWritesOnce == ServerSpec => WrittenOnce
<1> USE SizeAssumption
<1>1. ASSUME ServerInv, NEW k \in Key, NEW n \in 0 .. FSP_SIZE, WriteChunk(k, n)
      PROVE  KeepsWrittenBytes
  <2>0. PICK top \in Tops, f \in File :
          /\ ProperFile(f, top)
          /\ fds[f] \/ n = 0
          /\ \E off \in {cur_size[f]} \cup ChunkStarts :
                Allocate(f, off) /\ Pwrite(k, f, off, n)
    BY <1>1 DEF WriteChunk
  <2>1. PICK off : /\ ProperFile(f, top) /\ Allocate(f, off)
                   /\ fds[f] \/ n = 0
                   /\ Pwrite(k, f, off, n)
    BY <2>0
  <2>2. off = cur_size[f] /\ cur_size[f] \in Int
    BY <1>1, <2>1, ServerAppends
  <2>3. n > 0 => st_size[f] <= cur_size[f]
    BY <1>1, <2>1 DEF ServerInv, AppendsPastEnd
  <2>4. /\ chunkFile \in [File -> [Byte -> (Key \X Part) \cup {Hole}]]
        /\ st_size \in [File -> 0 .. MAX_CHUNK_FILE_SIZE + FSP_SIZE]
        /\ NothingPastEnd
    BY <1>1 DEF ServerInv, TypeOK
  <2> SUFFICES ASSUME NEW g \in File, NEW b \in Byte, chunkFile[g][b] # Hole
               PROVE  chunkFile'[g][b] = chunkFile[g][b]
    BY DEF KeepsWrittenBytes
  <2>5. b \in Int /\ ~(st_size[g] <= b) /\ st_size[g] \in Int
    BY <2>4 DEF NothingPastEnd, Byte
  <2>6. ~(g = f /\ cur_size[f] <= b /\ b < cur_size[f] + n)
    BY <2>2, <2>3, <2>5
  <2> QED
    BY <2>1, <2>2, <2>4, <2>6 DEF Pwrite
<1>2. ServerInv /\ [ServerNext]_vars => [KeepsWrittenBytes]_vars
  <2> SUFFICES ASSUME ServerInv, ServerNext PROVE KeepsWrittenBytes
    OBVIOUS
  <2>1. CASE UNCHANGED chunkFile
    BY <2>1 DEF KeepsWrittenBytes
  <2>2. ASSUME NEW k \in Key, PutNew(k) \/ PutNewFails(k) \/ PutGetFails(k)
        PROVE  KeepsWrittenBytes
    <3>1. PICK n \in 0 .. FSP_SIZE : WriteChunk(k, n)
      BY <2>2 DEF PutNew, PutNewFails, PutGetFails
    <3> QED
      BY <1>1, <3>1
  <2>3. ASSUME NEW k \in Key, PutDuplicate(k) \/ BlockWriteAborts(k) \/ MpoolWriteBack(k)
        PROVE  UNCHANGED chunkFile
    BY <2>3 DEF PutDuplicate, BlockWriteAborts, Die, MpoolWriteBack, disk
  <2>4. CASE \/ WriteHashDb \/ WriteHashDbFails \/ Close \/ Crash
             \/ \E save \in Saves : CrashInRelease(save)
    BY <2>1, <2>4 DEF WriteHashDb, WriteHashDbFails, Close, Crash, CrashInRelease, Die, disk
  <2>5. CASE \/ \E opened \in SUBSET File, load \in Loads : Start(opened, load)
             \/ \E save \in Saves : Release(save)
    BY <2>1, <2>5 DEF Start, Release, disk
  <2> QED
    BY <2>1, <2>2, <2>3, <2>4, <2>5 DEF ServerNext
<1> QED
  BY <1>2, ServerInvariant, PTL DEF ServerSpec, WrittenOnce

-----------------------------------------------------------------------------
(* A read of the server gives its own data or nothing, and no count is     *)
(* above the puts acknowledged.                                            *)
AnswersRight ==
    \A k \in Key :
        /\ answerOf[k] = IF ~Known(k) \/ (phase = "up" /\ ~fds[hashDb[k].fd_index])
                         THEN "none" ELSE "data"
        /\ refsOf[k] = IF Known(k) THEN hashDb[k].ref_count ELSE 0
        /\ refsOf[k] \in 0 .. acked[k]
        /\ answerOf[k] = "data" => refsOf[k] > 0
        /\ acked[k] \in Nat

(* While the invariant holds, block_read answers with the key's data or     *)
(* with nothing, and every counted put can be read.                        *)
LEMMA ServerAnswers == ServerInv => AnswersRight
<1> SUFFICES ASSUME ServerInv, NEW k \in Key
             PROVE  /\ answerOf[k] = IF ~Known(k) \/ (phase = "up" /\ ~fds[hashDb[k].fd_index])
                                     THEN "none" ELSE "data"
                    /\ refsOf[k] = IF Known(k) THEN hashDb[k].ref_count ELSE 0
                    /\ refsOf[k] \in 0 .. acked[k]
                    /\ answerOf[k] = "data" => refsOf[k] > 0
                    /\ acked[k] \in Nat
    BY DEF AnswersRight
<1>1. acked[k] \in Nat
  BY DEF ServerInv, TypeOK
<1>2. refsOf[k] = IF Known(k) THEN hashDb[k].ref_count ELSE 0
  BY DEF refsOf
<1>3. Known(k) => /\ PointsAt(hashDb[k], k)
                  /\ hashDb[k].ref_count \in Nat /\ hashDb[k].ref_count > 0
                  /\ hashDb[k].ref_count <= acked[k]
  <2> SUFFICES ASSUME Known(k)
               PROVE  /\ PointsAt(hashDb[k], k)
                      /\ hashDb[k].ref_count \in Nat /\ hashDb[k].ref_count > 0
                      /\ hashDb[k].ref_count <= acked[k]
    OBVIOUS
  <2>1. hashDb[k] \in Record
    BY DEF ServerInv, TypeOK, Known
  <2> QED
    BY <2>1, SizeAssumption
       DEF ServerInv, Known, RecordsPointAtData, CountedAtMostOnce, Record
<1>4. answerOf[k] = IF ~Known(k) \/ (phase = "up" /\ ~fds[hashDb[k].fd_index])
                    THEN "none" ELSE "data"
  BY <1>3 DEF answerOf, block_read
<1> QED
  BY <1>1, <1>2, <1>3, <1>4

(* A step that ends unclean and acknowledges nothing is a Fault. *)
LEMMA ServerFault ==
    ASSUME ServerInv', ~clean', acked' = acked
    PROVE  Dedup!Fault
<1>0. AnswersRight'
  BY ServerAnswers, PTL
<1>1. ASSUME NEW k \in Key
      PROVE  /\ refsOf'[k] \in 0 .. acked[k]
             /\ \/ answerOf'[k] = "none"
                \/ answerOf'[k] = "data" /\ refsOf'[k] > 0
  <2>1. /\ answerOf'[k] = "none" \/ answerOf'[k] = "data"
        /\ refsOf'[k] \in 0 .. acked'[k]
        /\ answerOf'[k] = "data" => refsOf'[k] > 0
    BY <1>0 DEF AnswersRight
  <2> QED
    BY <2>1
<1>2. DOMAIN refsOf' = Key /\ DOMAIN answerOf' = Key
  BY DEF refsOf, answerOf
<1>3. clean' \in BOOLEAN
  BY DEF ServerInv, TypeOK
<1> QED
  BY <1>1, <1>2, <1>3 DEF Dedup!Fault

(* A step that changes no count, no record and no descriptor while the     *)
(* store stays in its phase is none of DedupStore.                         *)
LEMMA ServerStutter ==
    ASSUME ServerInv, ServerInv', UNCHANGED <<hashDb, acked, clean>>,
           UNCHANGED <<phase, fds>> \/ clean
    PROVE  UNCHANGED Dedup!vars
<1>1. AnswersRight /\ AnswersRight'
  BY ServerAnswers, PTL
<1>2. refsOf' = refsOf
  BY DEF refsOf, Known
<1>3. ASSUME NEW k \in Key PROVE answerOf'[k] = answerOf[k]
  <2>1. Known(k)' = Known(k)
    BY DEF Known
  <2>2. CASE UNCHANGED <<phase, fds>>
    BY <1>1, <2>1, <2>2 DEF AnswersRight
  <2>3. CASE clean
    <3>1. /\ phase = "up" => \A f \in File : fds[f]
          /\ phase' = "up" => \A f \in File : fds'[f]
      BY <2>3 DEF ServerInv, CleanMeansOpen
    <3>2. Known(k) => hashDb[k].fd_index \in File
      BY DEF ServerInv, TypeOK, Known, Record
    <3> QED
      BY <1>1, <2>1, <3>1, <3>2 DEF AnswersRight
  <2> QED
    BY <2>2, <2>3
<1>4. answerOf' = answerOf
  BY <1>3 DEF answerOf
<1> QED
  BY <1>2, <1>4 DEF Dedup!vars

(* A put that is acknowledged is a Put of DedupStore. *)
LEMMA ServerPut ==
    ASSUME ServerInv, ServerInv', NEW k \in Key, phase = "up",
           acked' = [acked EXCEPT ![k] = @ + 1],
           UNCHANGED <<phase, fds, clean>>,
           \A kk \in Key \ {k} : hashDb'[kk] = hashDb[kk],
           hashDb'[k] # NoRecord,
           \/ Known(k) /\ /\ hashDb'[k].ref_count = hashDb[k].ref_count + 1
                          /\ hashDb'[k].fd_index = hashDb[k].fd_index
           \/ /\ hashDb'[k].ref_count = 1
              /\ fds[hashDb'[k].fd_index]
              /\ clean => ~Known(k)
    PROVE  Dedup!Put(k)
<1>1. AnswersRight /\ AnswersRight'
  BY ServerAnswers, PTL
<1>2. clean \in BOOLEAN
  BY DEF ServerInv, TypeOK
<1>3. ASSUME NEW kk \in Key \ {k}
      PROVE  refsOf'[kk] = refsOf[kk] /\ answerOf'[kk] = answerOf[kk]
  <2>1. Known(kk)' = Known(kk)
    BY DEF Known
  <2> QED
    BY <1>1, <2>1 DEF AnswersRight
<1>4. Known(k)'
  BY DEF Known
<1>5. refsOf'[k] = hashDb'[k].ref_count
  BY <1>1, <1>4 DEF AnswersRight
<1>6. \/ refsOf' = [refsOf EXCEPT ![k] = @ + 1]
      \/ ~clean /\ refsOf' = [refsOf EXCEPT ![k] = 1]
  <2>1. \/ refsOf'[k] = refsOf[k] + 1
        \/ ~clean /\ refsOf'[k] = 1
    BY <1>1, <1>5 DEF AnswersRight
  <2> QED
    BY <1>3, <2>1, ZenonT(60) DEF refsOf
<1>7. \/ answerOf' = [answerOf EXCEPT ![k] = "data"]
      \/ ~clean /\ answerOf' = answerOf
  <2>1. answerOf'[k] = "data" \/ (~clean /\ answerOf'[k] = answerOf[k])
    <3>1. CASE fds'[hashDb'[k].fd_index]
      BY <1>1, <1>4, <3>1 DEF AnswersRight
    <3>2. CASE ~fds'[hashDb'[k].fd_index]
      <4>1. Known(k) /\ hashDb'[k].fd_index = hashDb[k].fd_index /\ hashDb[k].fd_index \in File
        BY <3>2 DEF ServerInv, TypeOK, Known, Record
      <4>2. ~clean
        BY <3>2, <4>1 DEF ServerInv, CleanMeansOpen
      <4> QED
        BY <1>1, <1>4, <3>2, <4>1, <4>2 DEF AnswersRight
    <3> QED
      BY <3>1, <3>2
  <2> QED
    BY <1>3, <2>1, ZenonT(60) DEF answerOf
<1> QED
  BY <1>6, <1>7 DEF Dedup!Put

(* Every step of the server is a step of DedupStore, or none. *)
LEMMA ServerSimulates ==
    ServerInv /\ ServerInv' /\ [ServerNext]_vars => [Dedup!Next]_Dedup!vars
<1> SUFFICES ASSUME ServerInv, ServerInv', [ServerNext]_vars
             PROVE  Dedup!Next \/ UNCHANGED Dedup!vars
    OBVIOUS
<1> USE SizeAssumption
<1>1. /\ hashDb \in [Key -> Record \cup {NoRecord}] /\ acked \in [Key -> 0 .. MaxPuts]
      /\ clean \in BOOLEAN /\ clean' \in BOOLEAN
  BY DEF ServerInv, TypeOK
<1>2. CASE UNCHANGED acked /\ ~clean'
  BY <1>2, ServerFault DEF Dedup!Next
<1>3. CASE UNCHANGED <<hashDb, acked, clean, phase, fds>>
  BY <1>3, ServerStutter
<1>4. ASSUME NEW k \in Key,
             PutNew(k) \/ PutNewFails(k) \/ PutGetFails(k) \/ MpoolWriteBack(k)
      PROVE  Dedup!Next \/ UNCHANGED Dedup!vars
  <2>1. ASSUME NEW n, WriteChunk(k, n) PROVE UNCHANGED <<hashDb, acked, phase, fds>>
    BY <2>1 DEF WriteChunk
  <2>2. CASE PutNew(k)
    BY <1>3, <2>1, <2>2 DEF PutNew
  <2>3. CASE PutNewFails(k) \/ PutGetFails(k)
    BY <1>2, <2>1, <2>3 DEF PutNewFails, PutGetFails
  <2>4. CASE MpoolWriteBack(k)
    BY <1>3, <2>4 DEF MpoolWriteBack, cfi
  <2> QED
    BY <1>4, <2>2, <2>3, <2>4
<1>5. ASSUME NEW k \in Key, PutDuplicate(k)
      PROVE  Dedup!Next \/ UNCHANGED Dedup!vars
  <2>1. /\ Known(k) /\ phase = "up" /\ hashDb[k] \in Record
        /\ hashDb' = [hashDb EXCEPT ![k].ref_count = @ + 1]
        /\ acked' = [acked EXCEPT ![k] = @ + 1]
        /\ UNCHANGED <<phase, fds, clean>>
    BY <1>1, <1>5 DEF PutDuplicate, Ready, Known, cfi
  <2>2. /\ hashDb'[k] = [hashDb[k] EXCEPT !.ref_count = @ + 1]
        /\ \A kk \in Key \ {k} : hashDb'[kk] = hashDb[kk]
    BY <1>1, <2>1
  <2>3. /\ hashDb'[k].ref_count = hashDb[k].ref_count + 1
        /\ hashDb'[k].fd_index = hashDb[k].fd_index
    BY <2>1, <2>2 DEF Record
  <2>4. hashDb'[k] # NoRecord
    <3>1. hashDb[k].ref_count < MaxPuts
      BY <1>5 DEF PutDuplicate
    <3>2. hashDb'[k] \in Record
      BY <2>1, <2>2, <3>1 DEF Record
    <3> QED
      BY <3>2, SentinelAssumption
  <2> QED
    BY <2>1, <2>2, <2>3, <2>4, ServerPut DEF Dedup!Next
<1>6. CASE WriteHashDb
  <2> DEFINE k == pending.key
             r == [fd_index |-> pending.fd_index, ref_count |-> 1, offset |-> pending.offset]
  <2>1. /\ pending \in [key : Key, fd_index : File, offset : Byte]
        /\ phase = "up" /\ fds[pending.fd_index] /\ (clean => ~Known(k))
        /\ hashDb' = [hashDb EXCEPT ![k] = r]
        /\ acked' = [acked EXCEPT ![k] = @ + 1]
        /\ UNCHANGED <<phase, fds, clean>>
    BY <1>6 DEF WriteHashDb, ServerInv, TypeOK, PendingPointsAtData, cfi
  <2>2. r \in Record /\ r # NoRecord
    <3>1. r \in Record
      BY <2>1 DEF Record
    <3> QED
      BY <3>1, SentinelAssumption
  <2>3. hashDb'[k] = r /\ \A kk \in Key \ {k} : hashDb'[kk] = hashDb[kk]
    BY <1>1, <2>1
  <2>4. PICK c \in Key : c = k
    BY <2>1
  <2>5. r.ref_count = 1 /\ r.fd_index = pending.fd_index
    OBVIOUS
  <2> HIDE DEF k, r
  <2>6. /\ acked' = [acked EXCEPT ![c] = @ + 1]
        /\ \A kk \in Key \ {c} : hashDb'[kk] = hashDb[kk]
        /\ hashDb'[c] # NoRecord /\ hashDb'[c].ref_count = 1
        /\ fds[hashDb'[c].fd_index] /\ (clean => ~Known(c))
    BY <2>1, <2>2, <2>3, <2>4, <2>5
  <2>7. Dedup!Put(c)
    BY <2>1, <2>6, ServerPut
  <2> QED
    BY <2>7 DEF Dedup!Next
<1>7. CASE WriteHashDbFails
  BY <1>2, <1>7 DEF WriteHashDbFails
<1>8. ASSUME NEW k \in Key, BlockWriteAborts(k)
      PROVE  Dedup!Next \/ UNCHANGED Dedup!vars
  BY <1>2, <1>8 DEF BlockWriteAborts, Die
<1>9. CASE Crash \/ \E save \in Saves : CrashInRelease(save)
  BY <1>2, <1>9 DEF Crash, CrashInRelease, Die
<1>10. CASE \/ \E opened \in SUBSET File, load \in Loads : Start(opened, load)
            \/ \E save \in Saves : Release(save)
            \/ Close
  <2>1. /\ UNCHANGED <<hashDb, acked>>
        /\ clean' => clean
    <3>1. ASSUME NEW opened, NEW load, Start(opened, load)
          PROVE  UNCHANGED <<hashDb, acked>> /\ (clean' => clean)
      BY <3>1 DEF Start
    <3>2. ASSUME NEW save, Release(save)
          PROVE  UNCHANGED <<hashDb, acked>> /\ (clean' => clean)
      BY <3>2 DEF Release
    <3>3. CASE Close
      BY <3>3 DEF Close
    <3> QED
      BY <1>10, <3>1, <3>2, <3>3
  <2>2. CASE clean'
    BY <1>1, <2>1, <2>2, ServerStutter
  <2> QED
    BY <1>2, <2>1, <2>2
<1>11. CASE UNCHANGED vars
  BY <1>3, <1>11 DEF vars, cfi
<1> QED
  BY <1>4, <1>5, <1>6, <1>7, <1>8, <1>9, <1>10, <1>11 DEF ServerNext

(* The server implements DedupStore: a put is counted once and its data    *)
(* can be read, until something fails; and no failure makes a count too    *)
(* high or a read wrong.                                                   *)
THEOREM ServerImplementsDedup == ServerSpec => ImplementsDedup
<1>1. Init => Dedup!Init
  BY DEF Init, Dedup!Init, refsOf, answerOf, block_read, Known
<1>2. ServerInv /\ ServerInv' /\ [ServerNext]_vars => [Dedup!Next]_Dedup!vars
  BY ServerSimulates
<1> QED
  BY <1>1, <1>2, ServerInvariant, PTL DEF ServerSpec, ImplementsDedup, Dedup!Spec
-----------------------------------------------------------------------------
(* Space.  While nothing has failed a file is appended where it ends, the  *)
(* smallest one first, and every chunk written gets its record.            *)
SizesFollow == clean /\ phase = "up" => \A f \in File : cur_size[f] = st_size[f]

SpaceInv == SizesFollow /\ NoSpaceWasted /\ FilesFillEvenly

(* A chunk appended belongs to pending, and goes to a file no larger than  *)
(* any other.                                                              *)
LEMMA SpacePut ==
    ASSUME ServerInv, SpaceInv, NEW k \in Key, PutNew(k)
    PROVE  SpaceInv'
<1> USE SizeAssumption, SentinelAssumption
<1>0. PICK top \in Tops, f \in File :
        /\ ProperFile(f, top)
        /\ fds[f] \/ FSP_SIZE = 0
        /\ \E off \in {cur_size[f]} \cup ChunkStarts :
              /\ Allocate(f, off)
              /\ Pwrite(k, f, off, FSP_SIZE)
              /\ pending' = [key |-> k, fd_index |-> f, offset |-> off]
        /\ UNCHANGED <<phase, hashDb>>
  BY DEF PutNew, WriteChunk
<1>1. PICK off :
        /\ ProperFile(f, top)
        /\ fds[f] \/ FSP_SIZE = 0
        /\ Allocate(f, off)
        /\ Pwrite(k, f, off, FSP_SIZE)
        /\ pending' = [key |-> k, fd_index |-> f, offset |-> off]
        /\ UNCHANGED <<phase, hashDb>>
  BY <1>0
<1>2. /\ off = cur_size[f] /\ cur_size[f] \in Int
      /\ cur_size[f] < MAX_CHUNK_FILE_SIZE - 1
      /\ \A g \in File : capcity(g, top) = cur_size[g]
      /\ cur_size' = [cur_size EXCEPT ![f] = cur_size[f] + FSP_SIZE]
      /\ cur_size \in [File -> Int] /\ fcls = NoLists
      /\ st_size \in [File -> 0 .. MAX_CHUNK_FILE_SIZE + FSP_SIZE]
      /\ phase = "up" /\ pending = Idle /\ clean' = clean
  BY <1>1, ServerAppends DEF ServerInv, TypeOK, PutNew, Ready
<1> SUFFICES ASSUME clean PROVE SpaceInv'
  BY <1>2 DEF SpaceInv, SizesFollow, NoSpaceWasted, FilesFillEvenly
<1>3. \A g \in File : cur_size[g] = st_size[g] /\ st_size[g] \in Nat
  BY <1>2 DEF SpaceInv, SizesFollow
<1>4. /\ st_size' = [st_size EXCEPT ![f] = st_size[f] + FSP_SIZE]
      /\ \A g \in File : st_size'[g] = IF g = f THEN st_size[f] + FSP_SIZE ELSE st_size[g]
  <2>2. st_size' = [st_size EXCEPT ![f] = IF FSP_SIZE > 0 /\ @ < off + FSP_SIZE
                                          THEN off + FSP_SIZE ELSE @]
    BY <1>1 DEF Pwrite
  <2>3. off = st_size[f] /\ st_size[f] \in Nat
    BY <1>2, <1>3
  <2>4. st_size' = [st_size EXCEPT ![f] = st_size[f] + FSP_SIZE]
    <3>1. (IF FSP_SIZE > 0 /\ st_size[f] < off + FSP_SIZE THEN off + FSP_SIZE ELSE st_size[f])
            = st_size[f] + FSP_SIZE
      BY <2>3
    <3>2. st_size' = [st_size EXCEPT ![f] = IF FSP_SIZE > 0 /\ st_size[f] < off + FSP_SIZE
                                            THEN off + FSP_SIZE ELSE st_size[f]]
      BY <2>2, Zenon
    <3> QED
      BY <3>1, <3>2, Zenon
  <2>5. \A g \in File : st_size'[g] = IF g = f THEN st_size[f] + FSP_SIZE ELSE st_size[g]
    BY <1>2, <2>4, Zenon
  <2> QED
    BY <2>4, <2>5
<1>5. SizesFollow'
  BY <1>2, <1>3, <1>4 DEF SizesFollow
<1>6. FilesFillEvenly'
  <2>1. \A g \in File : capcity(g, top) = st_size[g]
    BY <1>2, <1>3
  <2>2. \A g \in File : st_size[f] <= st_size[g]
    <3>1. File \subseteq Int
      BY DEF File
    <3> QED
      BY <1>1, <1>3, <2>1, <3>1 DEF ProperFile
  <2>3. \A g, h \in File : st_size[g] - st_size[h] <= FSP_SIZE
    BY DEF SpaceInv, FilesFillEvenly
  <2>4. ASSUME NEW g \in File, NEW h \in File
        PROVE  st_size'[g] - st_size'[h] <= FSP_SIZE
    BY <1>3, <1>4, <2>2, <2>3
  <2> QED
    BY <2>4 DEF FilesFillEvenly, File
<1>7. NoSpaceWasted'
  <2>1. /\ pending'.fd_index = f /\ pending'.offset = st_size[f]
        /\ pending' \in [key : Key, fd_index : File, offset : Int]
    BY <1>1, <1>2, <1>3
  <2>2. pending' # Idle
    <3>1. fds[f]
      BY <1>1
    <3>2. st_size[f] < MAX_CHUNK_FILE_SIZE
      BY <1>2, <1>3
    <3>3. pending' \in [key : Key, fd_index : File, offset : Byte]
      BY <1>3, <2>1, <3>2 DEF Byte
    <3> QED
      BY <3>3
  <2>3. ASSUME NEW g \in File, NEW b \in 0 .. st_size'[g] - 1
        PROVE  Owned(g, b)'
    <3>1. CASE b \in 0 .. st_size[g] - 1
      <4>1. Owned(g, b)
        BY <3>1 DEF SpaceInv, NoSpaceWasted
      <4> QED
        BY <1>1, <1>2, <4>1 DEF Owned
    <3>2. CASE ~(b \in 0 .. st_size[g] - 1)
      <4>1. g = f /\ b \in st_size[f] .. st_size[f] + FSP_SIZE - 1
        BY <1>3, <1>4, <3>2
      <4> QED
        BY <2>1, <2>2, <4>1 DEF Owned
    <3> QED
      BY <3>1, <3>2
  <2> QED
    BY <2>3 DEF NoSpaceWasted, File
<1> QED
  BY <1>5, <1>6, <1>7 DEF SpaceInv

(* The other steps that do not fail keep chunks, sizes and their order.    *)
LEMMA SpaceKept ==
    ASSUME ServerInv, ServerInv', SpaceInv, clean' => clean, UNCHANGED st_size,
           clean' => \A f \in File : \A b \in 0 .. st_size[f] - 1 :
                         Owned(f, b) => Owned(f, b)',
           clean' /\ phase' = "up" =>
               \/ phase = "up" /\ UNCHANGED cur_size
               \/ \A f \in File : cur_size'[f] = st_size[f]
    PROVE  SpaceInv'
<1>1. SizesFollow'
  BY DEF SpaceInv, SizesFollow, File
<1>2. FilesFillEvenly'
  BY DEF SpaceInv, FilesFillEvenly, File
<1>3. NoSpaceWasted'
  BY DEF SpaceInv, NoSpaceWasted, File
<1> QED
  BY <1>1, <1>2, <1>3 DEF SpaceInv

(* Every step of the server keeps SpaceInv. *)
LEMMA SpaceStep ==
    ASSUME ServerInv, ServerInv', SpaceInv, [ServerNext]_vars
    PROVE  SpaceInv'
<1> USE SizeAssumption, SentinelAssumption
<1>0. CASE ~clean'
  BY <1>0 DEF SpaceInv, SizesFollow, NoSpaceWasted, FilesFillEvenly
<1>1. ASSUME NEW k \in Key, PutNewFails(k) \/ PutGetFails(k) \/ BlockWriteAborts(k)
      PROVE  ~clean'
  BY <1>1 DEF PutNewFails, PutGetFails, BlockWriteAborts, Die
<1>2. CASE WriteHashDbFails \/ Crash \/ \E save \in Saves : CrashInRelease(save)
  <2>1. ~clean'
    BY <1>2 DEF WriteHashDbFails, Crash, CrashInRelease, Die
  <2> QED
    BY <1>0, <2>1
<1>3. ASSUME NEW k \in Key, PutDuplicate(k) PROVE SpaceInv'
  <2>1. /\ Known(k) /\ phase = "up" /\ hashDb[k] \in Record
        /\ hashDb' = [hashDb EXCEPT ![k] = [hashDb[k] EXCEPT !.ref_count = @ + 1]]
        /\ hashDb[k].ref_count < MaxPuts
        /\ UNCHANGED <<phase, st_size, cur_size, pending, clean>>
    BY <1>3 DEF PutDuplicate, Ready, Known, cfi, disk, ServerInv, TypeOK
  <2>2. \A kk \in Key : /\ hashDb[kk] # NoRecord => hashDb'[kk] # NoRecord
                        /\ hashDb'[kk].fd_index = hashDb[kk].fd_index
                        /\ hashDb'[kk].offset = hashDb[kk].offset
    <3>1. [hashDb[k] EXCEPT !.ref_count = @ + 1] \in Record
      BY <2>1 DEF Record
    <3>2. \A kk \in Key : hashDb'[kk] = IF kk = k THEN [hashDb[k] EXCEPT !.ref_count = @ + 1]
                                                   ELSE hashDb[kk]
      BY <2>1 DEF ServerInv, TypeOK
    <3> QED
      BY <2>1, <3>1, <3>2 DEF Record
  <2>3. \A f \in File : \A b \in 0 .. st_size[f] - 1 : Owned(f, b) => Owned(f, b)'
    BY <2>1, <2>2 DEF Owned
  <2> QED
    BY <2>1, <2>3, SpaceKept
<1>4. CASE WriteHashDb
  <2> DEFINE r == [fd_index |-> pending.fd_index, ref_count |-> 1, offset |-> pending.offset]
  <2>1. /\ pending \in [key : Key, fd_index : File, offset : Byte] /\ phase = "up"
        /\ clean => ~Known(pending.key)
        /\ hashDb' = [hashDb EXCEPT ![pending.key] = r]
        /\ UNCHANGED <<phase, st_size, cur_size, clean>>
    BY <1>4 DEF WriteHashDb, ServerInv, TypeOK, PendingPointsAtData, cfi, disk
  <2>2. r # NoRecord
    <3>1. r \in Record
      BY <2>1 DEF Record
    <3> QED
      BY <3>1
  <2>3. r.fd_index = pending.fd_index /\ r.offset = pending.offset
    OBVIOUS
  <2>4. PICK c \in Key : c = pending.key
    BY <2>1
  <2> HIDE DEF r
  <2>5. \A kk \in Key : hashDb'[kk] = IF kk = c THEN r ELSE hashDb[kk]
    BY <2>1, <2>4 DEF ServerInv, TypeOK
  <2>6. clean => \A f \in File : \A b \in 0 .. st_size[f] - 1 : Owned(f, b) => Owned(f, b)'
    BY <2>1, <2>2, <2>3, <2>4, <2>5 DEF Owned, Known
  <2> QED
    BY <2>1, <2>6, SpaceKept
<1>5. ASSUME UNCHANGED <<hashDb, st_size, pending>>, clean' => clean,
             clean' /\ phase' = "up" =>
                 \/ phase = "up" /\ UNCHANGED cur_size
                 \/ \A f \in File : cur_size'[f] = st_size[f]
      PROVE  SpaceInv'
  <2>1. \A f \in File : \A b \in 0 .. st_size[f] - 1 : Owned(f, b) => Owned(f, b)'
    BY <1>5 DEF Owned
  <2> QED
    BY <1>5, <2>1, SpaceKept
<1>6. ASSUME NEW k \in Key, MpoolWriteBack(k) PROVE SpaceInv'
  BY <1>5, <1>6 DEF MpoolWriteBack, cfi, disk
<1>7. ASSUME NEW opened \in SUBSET File, NEW load \in Loads, Start(opened, load)
      PROVE  SpaceInv'
  <2>1. UNCHANGED <<hashDb, st_size, pending>> /\ (clean' => clean /\ opened = File)
    BY <1>7 DEF Start, disk
  <2>2. clean' => \A f \in File : cur_size'[f] = st_size[f]
    BY <1>7, <2>1 DEF Start
  <2> QED
    BY <1>5, <2>1, <2>2
<1>8. ASSUME NEW save \in Saves, Release(save) PROVE SpaceInv'
  BY <1>5, <1>8 DEF Release, disk
<1>9. CASE Close
  BY <1>5, <1>9 DEF Close, disk
<1>10. CASE UNCHANGED vars
  BY <1>5, <1>10 DEF vars, cfi, disk
<1> QED
  BY <1>0, <1>1, <1>2, <1>3, <1>4, <1>6, <1>7, <1>8, <1>9, <1>10, SpacePut DEF ServerNext

(* What the server reaches satisfies SpaceInv. *)
THEOREM ServerSpace == ServerSpec => []SpaceInv
<1>1. Init => SpaceInv
  <2> SUFFICES ASSUME Init PROVE SpaceInv
    OBVIOUS
  <2>1. phase # "up"
    BY DEF Init
  <2>2. \A f \in File : st_size[f] = 0
    BY DEF Init
  <2>3. SizesFollow
    BY <2>1 DEF SizesFollow
  <2>4. FilesFillEvenly
    BY <2>2, SizeAssumption DEF FilesFillEvenly, File
  <2>5. NoSpaceWasted
    BY <2>2 DEF NoSpaceWasted
  <2> QED
    BY <2>3, <2>4, <2>5 DEF SpaceInv
<1>2. ServerInv /\ ServerInv' /\ SpaceInv /\ [ServerNext]_vars => SpaceInv'
  BY SpaceStep
<1> QED
  BY <1>1, <1>2, ServerInvariant, PTL DEF ServerSpec

(* While nothing has failed, no byte of a chunk file is without an owner.  *)
THEOREM ServerWastesNoSpace == ServerSpec => []NoSpaceWasted
<1>1. SpaceInv => NoSpaceWasted
  BY DEF SpaceInv
<1> QED
  BY ServerSpace, <1>1, PTL

(* While nothing has failed, the chunk files fill evenly. *)
THEOREM ServerFillsEvenly == ServerSpec => []FilesFillEvenly
<1>1. SpaceInv => FilesFillEvenly
  BY DEF SpaceInv
<1> QED
  BY ServerSpace, <1>1, PTL
-----------------------------------------------------------------------------
(* What del_chunk, as it is, can damage: with deletes as well as puts, a   *)
(* record outside chunk 0 of file 0 still points at the data of its key.   *)

(* get_first_free_chunk on a list of zeros gives 0 and leaves zeros. *)
LEMMA ZeroStack ==
    ASSUME NEW q \in Seq({0}), q # <<>>
    PROVE  q[Len(q)] = 0 /\ SubSeq(q, 1, Len(q) - 1) \in Seq({0})
<1>1. Len(q) \in Nat /\ Len(q) > 0
  OBVIOUS
<1>2. q[Len(q)] \in {0}
  BY <1>1
<1> QED
  BY <1>1, <1>2

(* A list of zeros is a list of chunk numbers. *)
LEMMA ZeroStackType == \A q \in Seq({0}) \cup {Damaged} : q \in List
BY DEF List

(* Where a client puts a chunk: at the end of the chosen file; at its      *)
(* start, which only the list of file 0 ever gives; or astray.             *)
LEMMA ClientAllocates ==
    ASSUME ClientInv, NEW f \in File, NEW top \in Tops, NEW off,
           ProperFile(f, top), Allocate(f, off)
    PROVE  /\ \/ /\ off = cur_size[f]
                 /\ cur_size[f] < MAX_CHUNK_FILE_SIZE - 1
                 /\ cur_size' = [cur_size EXCEPT ![f] = @ + FSP_SIZE]
              \/ f = 0 /\ off = 0 /\ cur_size' = cur_size
              \/ astray' /\ off \in 0 .. MAX_CHUNK_FILE_SIZE /\ cur_size' = cur_size
           /\ astray' \in BOOLEAN /\ (astray => astray')
           /\ fcls' \in [File -> List]
           /\ fcls'[0] \in Seq({0}) \cup {Damaged}
           /\ \A g \in File \ {0} : fcls'[g] = <<>>
<1> USE SizeAssumption
<1>1. /\ cur_size \in [File -> Int] /\ fcls \in [File -> List]
      /\ astray \in BOOLEAN /\ 0 \in File
      /\ fcls[0] \in Seq({0}) \cup {Damaged}
      /\ \A g \in File \ {0} : fcls[g] = <<>>
  BY DEF ClientInv, TypeOK, FreesOnlyChunkZero, File
<1>2. CASE /\ \/ fcls[f] = <<>>
              \/ fcls[f] = Damaged /\ cur_size[f] < MAX_CHUNK_FILE_SIZE - 1
           /\ off = cur_size[f]
           /\ cur_size' = [cur_size EXCEPT ![f] = @ + FSP_SIZE]
           /\ UNCHANGED <<fcls, astray>>
  <2>1. cur_size[f] < MAX_CHUNK_FILE_SIZE - 1
    <3>1. CASE fcls[f] = <<>>
      <4>1. fcls[f] # Damaged
        <5>1. <<>> \in Seq(Nat)
          OBVIOUS
        <5> QED
          BY <3>1, <5>1, SentinelAssumption
      <4>2. top[f] = -1
        BY <3>1, <4>1 DEF Tops
      <4>3. capcity(f, top) = cur_size[f]
        BY <1>1, <4>2 DEF capcity
      <4> QED
        BY <4>3 DEF ProperFile
    <3> QED
      BY <1>2, <3>1
  <2> QED
    BY <1>1, <1>2, <2>1
<1>3. CASE /\ fcls[f] \notin {<<>>, Damaged}
           /\ off = fcls[f][Len(fcls[f])] * FSP_SIZE
           /\ fcls' = [fcls EXCEPT ![f] = SubSeq(@, 1, Len(@) - 1)]
           /\ UNCHANGED <<cur_size, astray>>
  <2>1. f = 0 /\ fcls[f] \in Seq({0}) /\ fcls[f] # <<>>
    BY <1>1, <1>3
  <2>2. fcls[f][Len(fcls[f])] = 0 /\ SubSeq(fcls[f], 1, Len(fcls[f]) - 1) \in Seq({0})
    BY <2>1, ZeroStack
  <2>3. off = 0
    BY <1>3, <2>2
  <2>4. fcls' = [fcls EXCEPT ![0] = SubSeq(fcls[f], 1, Len(fcls[f]) - 1)]
    BY <1>3, <2>1
  <2>5. /\ fcls'[0] \in Seq({0}) /\ fcls' \in [File -> List]
        /\ \A g \in File \ {0} : fcls'[g] = <<>>
    BY <1>1, <2>2, <2>4, ZeroStackType
  <2> QED
    BY <1>1, <1>3, <2>1, <2>3, <2>5
<1>4. CASE /\ fcls[f] = Damaged /\ off \in ChunkStarts /\ astray' = TRUE
           /\ UNCHANGED <<cur_size, fcls>>
  BY <1>1, <1>4 DEF ChunkStarts
<1> QED
  BY <1>2, <1>3, <1>4 DEF Allocate

(* A store that was just created satisfies the client's invariant. *)
LEMMA ClientInit == Init => ClientInv
<1> SUFFICES ASSUME Init PROVE ClientInv
    OBVIOUS
<1> USE SizeAssumption DEF Init
<1>1. TypeOK
  <2>1. fclFile \in [File -> List] /\ fcls \in [File -> List]
    BY DEF NoLists, List
  <2>2. acked \in [Key -> 0 .. MaxPuts]
    OBVIOUS
  <2>3. clean \in BOOLEAN /\ astray \in BOOLEAN
    OBVIOUS
  <2> QED
    BY <2>1, <2>2, <2>3 DEF TypeOK
<1>2. FreesOnlyChunkZero
  <2>1. <<>> \in Seq({0}) /\ 0 \in File
    BY DEF File
  <2> QED
    BY <2>1 DEF FreesOnlyChunkZero, NoLists
<1> QED
  BY <1>1, <1>2 DEF ClientInv, DamageStaysInChunkZero, PendingOutsideChunkZero, AppendsOutsideChunkZero

(* Writing a chunk, at the end of a file or over chunk 0 of file 0. *)
LEMMA ClientWriteChunk ==
    ASSUME ClientInv, NEW k \in Key, NEW n \in 0 .. FSP_SIZE,
           WriteChunk(k, n), phase = "up",
           acked[k] < MaxPuts \/ n < FSP_SIZE,
           clean' \in BOOLEAN
    PROVE  ClientInv'
<1> USE SizeAssumption
<1>2. PICK top \in Tops, f \in File :
        /\ ProperFile(f, top)
        /\ fds[f] \/ n = 0
        /\ \E off \in {cur_size[f]} \cup ChunkStarts :
              /\ Allocate(f, off)
              /\ Pwrite(k, f, off, n)
              /\ pending' = IF n = FSP_SIZE
                            THEN [key |-> k, fd_index |-> f, offset |-> off]
                            ELSE Idle
        /\ UNCHANGED <<phase, hashDb, hashDbFile, fclFile, fds, acked>>
  BY DEF WriteChunk
<1>1. PICK off :
        /\ ProperFile(f, top)
        /\ fds[f] \/ n = 0
        /\ Allocate(f, off)
        /\ Pwrite(k, f, off, n)
        /\ pending' = IF n = FSP_SIZE
                      THEN [key |-> k, fd_index |-> f, offset |-> off]
                      ELSE Idle
        /\ UNCHANGED <<phase, hashDb, hashDbFile, fclFile, fds, acked>>
  BY <1>2
<1>3. TypeOK /\ FreesOnlyChunkZero /\ DamageStaysInChunkZero /\ AppendsOutsideChunkZero
  BY DEF ClientInv
<1>4. /\ chunkFile \in [File -> [Byte -> (Key \X Part) \cup {Hole}]]
      /\ st_size \in [File -> 0 .. MAX_CHUNK_FILE_SIZE + FSP_SIZE]
      /\ cur_size \in [File -> Int]
  BY <1>3 DEF TypeOK
<1>5. /\ \/ /\ off = cur_size[f]
            /\ cur_size[f] < MAX_CHUNK_FILE_SIZE - 1
            /\ cur_size' = [cur_size EXCEPT ![f] = @ + FSP_SIZE]
         \/ f = 0 /\ off = 0 /\ cur_size' = cur_size
         \/ astray' /\ off \in 0 .. MAX_CHUNK_FILE_SIZE /\ cur_size' = cur_size
      /\ astray' \in BOOLEAN /\ (astray => astray')
      /\ fcls' \in [File -> List]
      /\ fcls'[0] \in Seq({0}) \cup {Damaged}
      /\ \A g \in File \ {0} : fcls'[g] = <<>>
  BY <1>1, ClientAllocates
<1>6. /\ n \in Nat /\ n <= FSP_SIZE
      /\ off \in Int /\ off <= MAX_CHUNK_FILE_SIZE /\ off + n <= MAX_CHUNK_FILE_SIZE + FSP_SIZE
  BY <1>4, <1>5
<1>7. n > 0 => /\ fds[f] /\ off \in Nat
               /\ \/ st_size[f] <= off \/ astray'
                  \/ f = 0 /\ (off = 0 \/ st_size[f] <= FSP_SIZE)
  BY <1>1, <1>3, <1>4, <1>5, <1>6 DEF AppendsOutsideChunkZero
<1>8. Pwrite(k, f, off, n)
  BY <1>1
<1>9. pending' = IF n = FSP_SIZE THEN [key |-> k, fd_index |-> f, offset |-> off] ELSE Idle
  BY <1>1
<1>10. TypeOK'
  <2>1. chunkFile' \in [File -> [Byte -> (Key \X Part) \cup {Hole}]]
    <3>1. [b \in Byte |-> IF off <= b /\ b < off + n THEN <<k, b - off>>
                          ELSE chunkFile[f][b]] \in [Byte -> (Key \X Part) \cup {Hole}]
      <4> SUFFICES ASSUME NEW b \in Byte
                   PROVE  (IF off <= b /\ b < off + n THEN <<k, b - off>>
                           ELSE chunkFile[f][b]) \in (Key \X Part) \cup {Hole}
        OBVIOUS
      <4>1. CASE off <= b /\ b < off + n
        BY <4>1, <1>6 DEF Byte, Part
      <4>2. CASE ~(off <= b /\ b < off + n)
        BY <4>2, <1>4
      <4> QED
        BY <4>1, <4>2
    <3> QED
      BY <3>1, <1>4, <1>8 DEF Pwrite
  <2>2. st_size' \in [File -> 0 .. MAX_CHUNK_FILE_SIZE + FSP_SIZE]
    BY <1>4, <1>6, <1>7, <1>8 DEF Pwrite
  <2>3. cur_size' \in [File -> Int]
    BY <1>4, <1>5
  <2>4. pending' \in [key : Key, fd_index : File, offset : Byte] \cup {Idle}
    BY <1>6, <1>7, <1>9 DEF Byte
  <2> QED
    BY <1>1, <1>3, <1>5, <2>1, <2>2, <2>3, <2>4 DEF TypeOK
<1>11. FreesOnlyChunkZero'
  BY <1>1, <1>3, <1>5 DEF FreesOnlyChunkZero
<1>12. DamageStaysInChunkZero'
  <2> SUFFICES ASSUME NEW kk \in Key, NEW r \in Record, ~InChunkZero(r), PointsAt(r, kk),
                      ~astray'
               PROVE  /\ r.offset + FSP_SIZE <= st_size'[r.fd_index]
                      /\ \A p \in Part : chunkFile'[r.fd_index][r.offset + p] = <<kk, p>>
    <3>1. /\ hashDb' = hashDb /\ hashDbFile' = hashDbFile
          /\ hashDb \in [Key -> Record \cup {NoRecord}]
          /\ hashDbFile \in [Key -> Record \cup {NoRecord}]
      BY <1>1, <1>3 DEF TypeOK
    <3>2. ASSUME NEW kk \in Key, NEW db \in {hashDb, hashDbFile},
                 db[kk] # NoRecord, ~InChunkZero(db[kk]), ~astray'
          PROVE  db[kk] \in Record /\ PointsAt(db[kk], kk)
      BY <1>3, <1>5, <3>1, <3>2 DEF DamageStaysInChunkZero
    <3>3. ASSUME NEW kk \in Key, NEW r, PointsAt(r, kk), r \in Record, ~InChunkZero(r),
                 ~astray'
          PROVE  /\ r.offset + FSP_SIZE <= st_size'[r.fd_index]
                 /\ \A p \in Part : chunkFile'[r.fd_index][r.offset + p] = <<kk, p>>
      BY <3>3
    <3> QED
      BY <3>1, <3>2, <3>3, ZenonT(60) DEF DamageStaysInChunkZero, PointsAt, InChunkZero
  <2>1. r.fd_index \in File /\ r.offset \in Nat
    BY DEF Record, Byte
  <2>2. /\ r.offset + FSP_SIZE <= st_size[r.fd_index]
        /\ \A p \in Part : chunkFile[r.fd_index][r.offset + p] = <<kk, p>>
        /\ st_size[r.fd_index] \in 0 .. MAX_CHUNK_FILE_SIZE + FSP_SIZE
    BY <2>1, <1>4 DEF PointsAt
  <2>3. r.fd_index = 0 => r.offset >= FSP_SIZE
    BY <2>1 DEF InChunkZero
  <2>4. r.offset + FSP_SIZE <= st_size'[r.fd_index]
    BY <2>1, <2>2, <1>4, <1>6, <1>8 DEF Pwrite
  <2>5. ASSUME NEW p \in Part
        PROVE  chunkFile'[r.fd_index][r.offset + p] = <<kk, p>>
    <3>1. p \in Int /\ 0 <= p /\ p < FSP_SIZE
      BY DEF Part
    <3>2. r.offset + p \in Byte
      BY <2>1, <2>2, <3>1 DEF Byte
    <3>3. ~(r.fd_index = f /\ off <= r.offset + p /\ r.offset + p < off + n)
      BY <2>1, <2>2, <2>3, <3>1, <1>6, <1>7
    <3>4. chunkFile'[r.fd_index][r.offset + p] = chunkFile[r.fd_index][r.offset + p]
      BY <2>1, <3>2, <3>3, <1>4, <1>8 DEF Pwrite
    <3> QED
      BY <2>2, <3>4
  <2> QED
    BY <2>4, <2>5
<1>13. PendingOutsideChunkZero'
  <2>1. CASE n # FSP_SIZE
    BY <2>1, <1>9 DEF PendingOutsideChunkZero
  <2>2. CASE n = FSP_SIZE
    <3>1. pending' = [key |-> k, fd_index |-> f, offset |-> off]
      BY <2>2, <1>9
    <3>2. off + FSP_SIZE <= st_size'[f]
      BY <2>2, <1>4, <1>6, <1>8 DEF Pwrite
    <3>3. ASSUME NEW p \in Part PROVE chunkFile'[f][off + p] = <<k, p>>
      <4>1. p \in Int /\ 0 <= p /\ p < FSP_SIZE
        BY DEF Part
      <4>2. off + p \in Byte
        BY <2>2, <4>1, <1>6, <1>7 DEF Byte
      <4>3. chunkFile'[f][off + p] = <<k, (off + p) - off>>
        BY <2>2, <4>1, <4>2, <1>4, <1>6, <1>8 DEF Pwrite
      <4> QED
        BY <4>1, <4>3, <1>6
    <3>4. phase' = "up" /\ acked' = acked
      BY <1>1
    <3> QED
      BY <2>2, <3>1, <3>2, <3>3, <3>4 DEF PendingOutsideChunkZero, PointsAt
  <2> QED
    BY <2>1, <2>2
<1>14. AppendsOutsideChunkZero'
  <2> SUFFICES ASSUME NEW g \in File, fds[g]
               PROVE  /\ 0 <= cur_size'[g]
                      /\ \/ st_size'[g] <= cur_size'[g]
                         \/ g = 0 /\ st_size'[g] <= FSP_SIZE
                         \/ astray'
    BY <1>1 DEF AppendsOutsideChunkZero
  <2>1. /\ 0 <= cur_size[g]
        /\ st_size[g] <= cur_size[g] \/ (g = 0 /\ st_size[g] <= FSP_SIZE) \/ astray'
    BY <1>3, <1>5 DEF AppendsOutsideChunkZero
  <2>2. CASE g # f
    BY <2>1, <2>2, <1>4, <1>5, <1>8 DEF Pwrite
  <2>3. CASE g = f
    <3>1. st_size'[f] = IF n > 0 /\ st_size[f] < off + n THEN off + n ELSE st_size[f]
      BY <1>4, <1>8 DEF Pwrite
    <3>2. \/ cur_size'[f] = cur_size[f] + FSP_SIZE /\ off = cur_size[f]
          \/ f = 0 /\ off = 0 /\ cur_size'[f] = cur_size[f]
          \/ astray' /\ cur_size'[f] = cur_size[f]
      BY <1>4, <1>5
    <3> QED
      BY <2>1, <2>3, <3>1, <3>2, <1>4, <1>6
  <2> QED
    BY <2>2, <2>3
<1> QED
  BY <1>10, <1>11, <1>12, <1>13, <1>14 DEF ClientInv

(* Records that appear, change their count, are written back or vanish. *)
LEMMA ClientRecords ==
    ASSUME ClientInv, NEW k \in Key,
           \/ WriteHashDb \/ WriteHashDbFails \/ PutDuplicate(k) \/ MpoolWriteBack(k)
    PROVE  ClientInv'
<1> USE SizeAssumption
<1>1. TypeOK /\ DamageStaysInChunkZero /\ PendingOutsideChunkZero
  BY DEF ClientInv
<1>2. CASE WriteHashDb
  <2>1. /\ pending \in [key : Key, fd_index : File, offset : Byte]
        /\ ~astray /\ ~InChunkZero(pending) => PointsAt(pending, pending.key)
        /\ acked[pending.key] < MaxPuts
    BY <1>1, <1>2 DEF TypeOK, PendingOutsideChunkZero, WriteHashDb
  <2> DEFINE r == [fd_index |-> pending.fd_index, ref_count |-> 1, offset |-> pending.offset]
  <2>2. /\ hashDb' = [hashDb EXCEPT ![pending.key] = r]
        /\ acked' = [acked EXCEPT ![pending.key] = @ + 1]
        /\ pending' = Idle
        /\ UNCHANGED <<phase, hashDbFile, disk, fclFile, cfi, clean>>
    BY <1>2 DEF WriteHashDb
  <2>3. r \in Record
    BY <2>1 DEF Record
  <2>4. ~astray /\ ~InChunkZero(r) => PointsAt(r, pending.key)
    BY <2>1 DEF PointsAt, InChunkZero
  <2> HIDE DEF r
  <2>5. TypeOK'
    BY <1>1, <2>1, <2>2, <2>3 DEF TypeOK, disk, cfi
  <2>6. DamageStaysInChunkZero'
    BY <1>1, <2>1, <2>2, <2>4
       DEF TypeOK, disk, DamageStaysInChunkZero, PointsAt, InChunkZero
  <2>7. PendingOutsideChunkZero'
    BY <2>2 DEF PendingOutsideChunkZero
  <2> QED
    BY <2>2, <2>5, <2>6, <2>7
       DEF ClientInv, disk, cfi, FreesOnlyChunkZero, AppendsOutsideChunkZero
<1>3. CASE WriteHashDbFails
  BY <1>3 DEF WriteHashDbFails, ClientInv, TypeOK, disk, cfi, FreesOnlyChunkZero,
       DamageStaysInChunkZero, PointsAt, PendingOutsideChunkZero, AppendsOutsideChunkZero
<1>4. CASE PutDuplicate(k)
  <2> DEFINE r == [hashDb[k] EXCEPT !.ref_count = @ + 1]
  <2>1. /\ pending = Idle /\ hashDb[k] \in Record /\ hashDb[k] # NoRecord
        /\ hashDb[k].ref_count < MaxPuts /\ acked[k] < MaxPuts
        /\ hashDb' = [hashDb EXCEPT ![k] = r]
        /\ acked' = [acked EXCEPT ![k] = @ + 1]
        /\ UNCHANGED <<phase, hashDbFile, disk, fclFile, cfi, pending, clean>>
    BY <1>1, <1>4 DEF PutDuplicate, Ready, Known, TypeOK
  <2>2. /\ r \in Record
        /\ r.fd_index = hashDb[k].fd_index /\ r.offset = hashDb[k].offset
    BY <2>1 DEF Record
  <2> HIDE DEF r
  <2>3. TypeOK'
    BY <1>1, <2>1, <2>2, SMTT(60) DEF TypeOK, disk, cfi
  <2>4. DamageStaysInChunkZero'
    BY <1>1, <2>1, <2>2, ZenonT(60)
       DEF TypeOK, disk, DamageStaysInChunkZero, PointsAt, InChunkZero
  <2>5. PendingOutsideChunkZero'
    BY <2>1 DEF PendingOutsideChunkZero
  <2> QED
    BY <2>1, <2>3, <2>4, <2>5
       DEF ClientInv, disk, cfi, FreesOnlyChunkZero, AppendsOutsideChunkZero
<1>5. CASE MpoolWriteBack(k)
  <2>1. /\ hashDbFile' = [hashDbFile EXCEPT ![k] = hashDb[k]]
        /\ UNCHANGED <<phase, hashDb, disk, fclFile, cfi, pending, acked, clean>>
    BY <1>5 DEF MpoolWriteBack
  <2>2. TypeOK'
    BY <1>1, <2>1 DEF TypeOK, disk, cfi
  <2>3. DamageStaysInChunkZero' /\ PendingOutsideChunkZero'
    BY <1>1, <2>1 DEF TypeOK, disk, DamageStaysInChunkZero, PointsAt, InChunkZero,
         PendingOutsideChunkZero
  <2> QED
    BY <2>1, <2>2, <2>3
       DEF ClientInv, disk, cfi, FreesOnlyChunkZero, AppendsOutsideChunkZero
<1> QED
  BY <1>2, <1>3, <1>4, <1>5

(* del_chunk pushes chunk 0 of file 0, whatever the key. *)
LEMMA ClientDeletes ==
    ASSUME ClientInv, NEW k \in Key, del_chunk(k)
    PROVE  ClientInv'
<1> USE SizeAssumption
<1>1. TypeOK /\ FreesOnlyChunkZero /\ DamageStaysInChunkZero /\ PendingOutsideChunkZero
  BY DEF ClientInv
<1>2. CASE DelAbsent(k) \/ DelGetFails(k)
  <2>1. /\ AddChunkZero \/ AddFails
        /\ hashDb' \in {hashDb, [hashDb EXCEPT ![k] = NoRecord]}
        /\ clean' \in BOOLEAN
        /\ UNCHANGED <<phase, hashDbFile, disk, fclFile, fds, cur_size, pending, acked>>
    BY <1>1, <1>2 DEF DelAbsent, DelGetFails, TypeOK
  <2>2. fcls \in [File -> List] /\ 0 \in File
    BY <1>1 DEF TypeOK, File
  <2>3. PICK q \in Seq({0}) \cup {Damaged} : fcls' = [fcls EXCEPT ![0] = q]
    <3>1. CASE fcls[0] # Damaged /\ fcls' = [fcls EXCEPT ![0] = Append(@, 0)]
      <4>1. Append(fcls[0], 0) \in Seq({0})
        BY <1>1, <3>1 DEF FreesOnlyChunkZero
      <4> QED
        BY <3>1, <4>1
    <3>2. CASE fcls[0] = Damaged /\ fcls' = fcls
      BY <2>2, <3>2
    <3>3. CASE fcls' = [fcls EXCEPT ![0] = Damaged]
      BY <3>3
    <3> QED
      BY <2>1, <3>1, <3>2, <3>3 DEF AddChunkZero, AddFails
  <2>4. fcls' \in [File -> List] /\ FreesOnlyChunkZero'
    BY <1>1, <2>1, <2>2, <2>3, ZeroStackType DEF FreesOnlyChunkZero
  <2>5. hashDb' \in [Key -> Record \cup {NoRecord}]
    BY <1>1, <2>1 DEF TypeOK
  <2>6. TypeOK'
    BY <1>1, <2>1, <2>4, <2>5 DEF TypeOK, disk
  <2>7. DamageStaysInChunkZero' /\ PendingOutsideChunkZero'
    BY <1>1, <2>1 DEF TypeOK, disk, DamageStaysInChunkZero, PointsAt, InChunkZero,
         PendingOutsideChunkZero
  <2> QED
    BY <2>1, <2>4, <2>6, <2>7 DEF ClientInv, disk, AppendsOutsideChunkZero
<1>3. CASE DelKnown(k)
  BY <1>3 DEF DelKnown, vars, disk, cfi, ClientInv, TypeOK, FreesOnlyChunkZero,
       DamageStaysInChunkZero, PointsAt, PendingOutsideChunkZero, AppendsOutsideChunkZero
<1> QED
  BY <1>2, <1>3 DEF del_chunk

(* The process starts, stops or dies. *)
LEMMA ClientLifecycle ==
    ASSUME ClientInv,
           \/ \E opened \in SUBSET File, load \in Loads : Start(opened, load)
           \/ \E save \in Saves : Release(save)
           \/ Close
           \/ Die /\ (fclFile' = fclFile \/ \E save \in Saves : CrashInRelease(save))
    PROVE  ClientInv'
<1> USE SizeAssumption
<1>1. /\ TypeOK /\ FreesOnlyChunkZero /\ DamageStaysInChunkZero
      /\ PendingOutsideChunkZero /\ AppendsOutsideChunkZero
  BY DEF ClientInv
<1>2. <<>> \in Seq({0}) /\ <<>> \in List /\ Damaged \in List /\ 0 \in File
  BY DEF List, File
<1>3. /\ fcls \in [File -> List] /\ fclFile \in [File -> List]
      /\ st_size \in [File -> 0 .. MAX_CHUNK_FILE_SIZE + FSP_SIZE]
  BY <1>1 DEF TypeOK
<1>20. ASSUME NEW save \in Saves, fclFile' = [f \in File |-> Saved(f, save[f])]
       PROVE  /\ fclFile' \in [File -> List]
              /\ fclFile'[0] \in Seq({0}) \cup {Damaged}
              /\ \A f \in File \ {0} : fclFile'[f] = <<>>
  <2>1. ASSUME NEW f \in File
        PROVE  Saved(f, save[f]) \in {fcls[f], fclFile[f], <<>>}
                   \cup (IF fcls[f] = <<>> THEN {} ELSE {Damaged})
    <3>1. save[f] \in Saving
      BY DEF Saves
    <3> QED
      BY <3>1 DEF Saved, Saving
  <2>2. ASSUME NEW f \in File PROVE fclFile'[f] \in List
    BY <1>2, <1>3, <1>20, <2>1
  <2>3. fclFile'[0] \in Seq({0}) \cup {Damaged}
    BY <1>1, <1>2, <1>20, <2>1 DEF FreesOnlyChunkZero
  <2>4. ASSUME NEW f \in File \ {0} PROVE fclFile'[f] = <<>>
    BY <1>1, <1>20, <2>1 DEF FreesOnlyChunkZero
  <2> QED
    BY <1>20, <2>2, <2>3, <2>4
<1>21. ASSUME NEW load \in Loads, fcls' = [f \in File |-> Loaded(f, load[f])]
       PROVE  /\ fcls' \in [File -> List]
              /\ fcls'[0] \in Seq({0}) \cup {Damaged}
              /\ \A f \in File \ {0} : fcls'[f] = <<>>
  <2>1. ASSUME NEW f \in File
        PROVE  Loaded(f, load[f]) \in {fclFile[f], <<>>}
                   \cup (IF fclFile[f] = <<>> THEN {} ELSE {Damaged})
    <3>1. load[f] \in Loading /\ (load[f] # "loaded" => fclFile[f] # <<>>)
      BY DEF Loads
    <3> QED
      BY <3>1 DEF Loaded, Loading
  <2>2. ASSUME NEW f \in File PROVE fcls'[f] \in List
    BY <1>2, <1>3, <1>21, <2>1
  <2>3. fcls'[0] \in Seq({0}) \cup {Damaged}
    BY <1>1, <1>2, <1>21, <2>1 DEF FreesOnlyChunkZero
  <2>4. ASSUME NEW f \in File \ {0} PROVE fcls'[f] = <<>>
    BY <1>1, <1>21, <2>1 DEF FreesOnlyChunkZero
  <2> QED
    BY <1>21, <2>2, <2>3, <2>4
<1>4. ASSUME NEW opened \in SUBSET File, NEW load \in Loads, Start(opened, load)
      PROVE  ClientInv'
  <2>1. PICK junk \in [File -> JunkSize] :
            cur_size' = [f \in File |-> IF f \in opened THEN st_size[f] ELSE junk[f]]
    BY <1>4 DEF Start
  <2>2. /\ phase' = "up" /\ phase = "down"
        /\ fds' = [f \in File |-> f \in opened]
        /\ fcls' = [f \in File |-> Loaded(f, load[f])]
        /\ clean' \in BOOLEAN
        /\ UNCHANGED <<hashDb, hashDbFile, disk, fclFile, pending, acked>>
    BY <1>4 DEF Start
  <2>3. ASSUME NEW f \in File
        PROVE  (IF f \in opened THEN st_size[f] ELSE junk[f]) \in Int
    <3>1. junk[f] \in Int
      <4>1. junk[f] \in JunkSize
        OBVIOUS
      <4> QED
        BY <4>1
    <3>2. st_size[f] \in Int
      BY <1>3
    <3> QED
      BY <3>1, <3>2
  <2>4. cur_size' \in [File -> Int]
    BY <2>1, <2>3
  <2>5. fcls' \in [File -> List]
    BY <1>21, <2>2
  <2>6. FreesOnlyChunkZero'
    BY <1>1, <1>21, <2>2 DEF FreesOnlyChunkZero
  <2>7. TypeOK'
    BY <1>1, <2>2, <2>4, <2>5 DEF TypeOK, disk
  <2>8. AppendsOutsideChunkZero'
    <3> SUFFICES ASSUME NEW f \in File, fds'[f]
                 PROVE  0 <= cur_size'[f] /\ st_size'[f] <= cur_size'[f]
      BY DEF AppendsOutsideChunkZero
    <3>1. f \in opened /\ cur_size'[f] = st_size[f] /\ st_size'[f] = st_size[f]
      BY <2>1, <2>2 DEF disk
    <3> QED
      BY <1>3, <3>1
  <2>9. DamageStaysInChunkZero' /\ PendingOutsideChunkZero'
    BY <1>1, <2>2 DEF disk, DamageStaysInChunkZero, PointsAt, PendingOutsideChunkZero
  <2> QED
    BY <2>6, <2>7, <2>8, <2>9 DEF ClientInv
<1>5. ASSUME FreeCfi
      PROVE  /\ fds' = [f \in File |-> FALSE] /\ fds' \in [File -> BOOLEAN]
             /\ cur_size' \in [File -> Int]
             /\ fcls' = [f \in File |-> <<>>] /\ fcls' \in [File -> List]
             /\ AppendsOutsideChunkZero'
  BY <1>2, <1>5 DEF FreeCfi, NoLists, AppendsOutsideChunkZero
<1>6. ASSUME NEW save \in Saves, Release(save)
      PROVE  ClientInv'
  <2>1. /\ pending = Idle /\ phase' = "closing" /\ FreeCfi
        /\ fclFile' = [f \in File |-> Saved(f, save[f])]
        /\ clean' \in BOOLEAN
        /\ UNCHANGED <<hashDb, hashDbFile, disk, pending, acked>>
    BY <1>6 DEF Release, Ready
  <2>2. fclFile' \in [File -> List]
    BY <1>20, <2>1
  <2>3. FreesOnlyChunkZero'
    BY <1>2, <1>5, <1>20, <2>1 DEF FreesOnlyChunkZero
  <2>4. TypeOK'
    BY <1>1, <1>5, <2>1, <2>2 DEF TypeOK, disk
  <2>5. DamageStaysInChunkZero' /\ PendingOutsideChunkZero'
    BY <1>1, <2>1 DEF disk, DamageStaysInChunkZero, PointsAt, PendingOutsideChunkZero
  <2> QED
    BY <1>5, <2>1, <2>3, <2>4, <2>5 DEF ClientInv
<1>7. CASE Close
  <2>1. /\ hashDbFile' = hashDb /\ phase' = "down" /\ phase # "up"
        /\ UNCHANGED <<hashDb, disk, fclFile, cfi, pending, acked, clean>>
    BY <1>7 DEF Close
  <2>2. TypeOK' /\ FreesOnlyChunkZero' /\ AppendsOutsideChunkZero'
    BY <1>1, <2>1 DEF TypeOK, disk, cfi, FreesOnlyChunkZero, AppendsOutsideChunkZero
  <2>3. DamageStaysInChunkZero' /\ PendingOutsideChunkZero'
    BY <1>1, <2>1 DEF disk, DamageStaysInChunkZero, PointsAt, PendingOutsideChunkZero
  <2> QED
    BY <2>2, <2>3 DEF ClientInv
<1>8. CASE Die /\ (fclFile' = fclFile \/ \E save \in Saves : CrashInRelease(save))
  <2>1. /\ phase' = "down" /\ hashDb' \in {hashDb, hashDbFile} /\ pending' = Idle
        /\ FreeCfi /\ clean' = FALSE
        /\ UNCHANGED <<hashDbFile, disk, acked>>
    BY <1>8 DEF Die
  <2>2. fclFile' \in [File -> List] /\ FreesOnlyChunkZero'
    <3>1. CASE fclFile' = fclFile
      BY <1>1, <1>2, <1>3, <1>5, <2>1, <3>1 DEF FreesOnlyChunkZero
    <3>2. ASSUME NEW save \in Saves, CrashInRelease(save)
          PROVE  fclFile' \in [File -> List] /\ FreesOnlyChunkZero'
      BY <1>2, <1>5, <1>20, <2>1, <3>2 DEF CrashInRelease, FreesOnlyChunkZero
    <3> QED
      BY <1>8, <3>1, <3>2
  <2>3. hashDb' \in [Key -> Record \cup {NoRecord}]
    BY <1>1, <2>1 DEF TypeOK
  <2>4. TypeOK'
    BY <1>1, <1>5, <2>1, <2>2, <2>3 DEF TypeOK, disk
  <2>5. DamageStaysInChunkZero' /\ PendingOutsideChunkZero'
    BY <1>1, <2>1, ZenonT(60) DEF disk, DamageStaysInChunkZero, PointsAt, PendingOutsideChunkZero
  <2> QED
    BY <1>5, <2>1, <2>2, <2>4, <2>5 DEF ClientInv
<1> QED
  BY <1>4, <1>6, <1>7, <1>8

(* No put, delete, crash or restart breaks the client's invariant. *)
LEMMA ClientStep == ClientInv /\ [Next]_vars => ClientInv'
<1> SUFFICES ASSUME ClientInv, [Next]_vars PROVE ClientInv'
    OBVIOUS
<1> USE SizeAssumption
<1>1. clean \in BOOLEAN
  BY DEF ClientInv, TypeOK
<1>2. ASSUME NEW k \in Key, PutNew(k) \/ PutNewFails(k) \/ PutGetFails(k)
      PROVE  ClientInv'
  <2>1. PICK n \in 0 .. FSP_SIZE : /\ WriteChunk(k, n) /\ phase = "up"
                                   /\ acked[k] < MaxPuts \/ n < FSP_SIZE
                                   /\ clean' \in BOOLEAN
    <3>1. CASE PutNew(k)
      <4>1. FSP_SIZE \in 0 .. FSP_SIZE
        OBVIOUS
      <4> QED
        BY <1>1, <3>1, <4>1 DEF PutNew, Ready
    <3>2. CASE PutNewFails(k)
      <4>1. PICK n \in 0 .. FSP_SIZE - 1 : WriteChunk(k, n)
        BY <3>2 DEF PutNewFails
      <4>2. n \in 0 .. FSP_SIZE /\ n < FSP_SIZE
        OBVIOUS
      <4> QED
        BY <3>2, <4>1, <4>2 DEF PutNewFails, Ready
    <3>3. CASE PutGetFails(k)
      BY <3>3 DEF PutGetFails, Ready
    <3> QED
      BY <1>2, <3>1, <3>2, <3>3
  <2> QED
    BY <2>1, ClientWriteChunk
<1>3. ASSUME NEW k \in Key, PutDuplicate(k) \/ MpoolWriteBack(k) PROVE ClientInv'
  BY <1>3, ClientRecords
<1>4. ASSUME NEW k \in Key, BlockWriteAborts(k) PROVE ClientInv'
  BY <1>4, ClientLifecycle DEF BlockWriteAborts
<1>5. CASE WriteHashDb \/ WriteHashDbFails
  <2>1. PICK k \in Key : TRUE
    BY <1>5 DEF WriteHashDb, WriteHashDbFails, ClientInv, TypeOK
  <2> QED
    BY <1>5, <2>1, ClientRecords
<1>6. CASE \/ \E opened \in SUBSET File, load \in Loads : Start(opened, load)
           \/ \E save \in Saves : Release(save)
           \/ Close
  BY <1>6, ClientLifecycle
<1>7. CASE Crash \/ \E save \in Saves : CrashInRelease(save)
  BY <1>7, ClientLifecycle DEF Crash, CrashInRelease
<1>8. ASSUME NEW k \in Key, del_chunk(k) PROVE ClientInv'
  BY <1>8, ClientDeletes
<1>9. CASE UNCHANGED vars
  BY <1>9 DEF vars, disk, cfi, ClientInv, TypeOK, FreesOnlyChunkZero,
       DamageStaysInChunkZero, PointsAt, PendingOutsideChunkZero, AppendsOutsideChunkZero
<1> QED
  BY <1>2, <1>3, <1>4, <1>5, <1>6, <1>7, <1>8, <1>9 DEF Next, ServerNext

(* The inductive invariant holds of every state of a client: its lists     *)
(* give chunk 0 of file 0 or nothing, unless they are damaged, and         *)
(* everything else is appended.                                            *)
THEOREM ClientInvariant == Spec => []ClientInv
<1>1. Init => ClientInv
  BY ClientInit
<1>2. ClientInv /\ [Next]_vars => ClientInv'
  BY ClientStep
<1> QED
  BY <1>1, <1>2, PTL DEF Spec

(* Whatever is put and deleted, and whatever fails, until a damaged free   *)
(* list gives out a chunk, the chunks outside chunk 0 of file 0 keep the   *)
(* data of the keys that point at them.                                    *)
THEOREM ClientDamageIsConfined == Spec => []DamageStaysInChunkZero
<1>1. ClientInv => DamageStaysInChunkZero
  BY DEF ClientInv
<1> QED
  BY <1>1, ClientInvariant, PTL

(* The client's state keeps its types and bounds: whatever del_chunk       *)
(* frees, no chunk is ever put past the last byte of a file.               *)
THEOREM ClientTypes == Spec => []TypeOK
<1>1. ClientInv => TypeOK
  BY DEF ClientInv
<1> QED
  BY <1>1, ClientInvariant, PTL
=============================================================================
