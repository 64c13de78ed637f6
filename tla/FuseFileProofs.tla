---------------------------- MODULE FuseFileProofs ----------------------------
(***************************************************************************)
(* The files of the FUSE client, for blocks of any size, any number of     *)
(* names, files and handles, and writes of any extent: what was written is *)
(* read, and a size is kept.                                               *)
(*                                                                         *)
(* A fingerprint is the block it was taken of, so that a file holds what   *)
(* it should as soon as its metadata names the right block and the store   *)
(* has that block.  The store keeps every block outside of chunk 0,        *)
(* because it frees no other chunk (ChunksKept); a write puts the name of  *)
(* the block it made where the name of the old one was (NamesWritten).     *)
(***************************************************************************)
EXTENDS FuseFile, FiniteSetTheorems, SequenceTheorems, NaturalsInduction,
        WellFoundedInduction, TLAPS

(* A block with a record lies in its chunk, unless that is chunk 0. *)
ChunksKept ==
    \A k \in Block : record[k] # None =>
        \/ record[k] = 0
        \/ record[k] < cur_size /\ chunk[record[k]] = k

(* A block with a record, that has a byte where it should be. *)
HasByte(rec, k, u, byte) ==
    k \in Block /\ rec[k] # None /\ k[u % g_block_size] = byte

(* The metadata names a block with a record for every byte that was        *)
(* written, and the right byte is in that block.                           *)
NamesWritten ==
    \A f \in File : \A u \in Byte : want[f][u] # None =>
        /\ u \div g_block_size < Len(hashes[f])
        /\ HasByte(record, hashes[f][u \div g_block_size + 1], u, want[f][u])

(* A write is on an open handle, whose size is the one it read. *)
OpInside ==
    op # None =>
        /\ fh[op.fh].file \in File /\ fh[op.fh].st_size = op.st_size
        /\ op.offset <= op.i /\ op.i <= op.offset + op.size
        /\ op.offset + op.size <= MaxSize

(* What was written lies inside the file, or will once the write ends. *)
InsideSize ==
    \A f \in File : \A u \in Byte : want[f][u] # None =>
        \/ u < wantSize[f]
        \/ op # None /\ f = wf /\ op.offset <= u /\ u < op.i

(* The handle of a file has its size, and the header if there is none. *)
SizeAgrees(f) ==
    /\ \A h \in Handles(f) : fh[h].st_size = wantSize[f]
    /\ \A g, h \in Handles(f) : g = h
    /\ Handles(f) = {} /\ Links(f) # {} =>
          wantSize[f] = (IF header[f] = None THEN 0 ELSE header[f])

SizesAgree == \A f \in File \ mixed : SizeAgrees(f)

(* A handle is open on a file, or closed. *)
HandlesOpen == \A h \in Fh : fh[h] = Closed \/ fh[h].file \in File

Inv ==
    /\ TypeOK /\ HandlesOpen
    /\ ChunksKept /\ NamesWritten /\ OpInside /\ InsideSize /\ SizesAgree

-----------------------------------------------------------------------------
(* Sizes, and the arithmetic of blocks. *)
LEMMA Sizes ==
    /\ MaxSize \in Nat \ {0} /\ g_block_size \in Nat \ {0}
    /\ Byte = 0 .. MaxSize - 1 /\ Size = 0 .. MaxSize /\ Byte \subseteq Size
BY FileAssumption DEF MaxSize, Byte, Size

LEMMA DivMod ==
    ASSUME NEW i \in Nat
    PROVE  /\ i \div g_block_size \in Nat
           /\ i % g_block_size \in 0 .. g_block_size - 1
           /\ i = g_block_size * (i \div g_block_size) + (i % g_block_size)
BY FileAssumption, SMT

(* A byte of the file lies in one of its blocks. *)
LEMMA BlockOfByte ==
    ASSUME NEW i \in Byte
    PROVE  i \div g_block_size \in 0 .. Blocks - 1
<1> DEFINE N == g_block_size
           q == i \div g_block_size
           r == i % g_block_size
<1>1. /\ N \in Nat \ {0} /\ q \in Nat /\ r \in 0 .. N - 1 /\ i = N * q + r
      /\ Blocks \in Nat /\ i < Blocks * N
  BY DivMod, FileAssumption DEF Byte, MaxSize
<1> HIDE DEF N, q, r
<1>2. CASE q >= Blocks
  <2>1. N * (q - Blocks) >= 0
    BY <1>1, <1>2
  <2>2. N * (q - Blocks) = N * q - N * Blocks /\ N * Blocks = Blocks * N
    BY <1>1
  <2>3. N * q \in Int /\ N * Blocks \in Int
    BY <1>1
  <2> QED
    BY <1>1, <2>1, <2>2, <2>3
<1> QED
  BY <1>1, <1>2 DEF q

LEMMA MinOfTwo ==
    ASSUME NEW x \in Int, NEW y \in Int
    PROVE  Min({x, y}) = IF x <= y THEN x ELSE y
<1> DEFINE m == IF x <= y THEN x ELSE y
<1>1. m \in {x, y} /\ \A z \in {x, y} : m <= z
  OBVIOUS
<1>2. \A w \in {x, y} : (\A z \in {x, y} : w <= z) => w = m
  OBVIOUS
<1> QED
  BY <1>1, <1>2 DEF Min

LEMMA MaxOfTwo ==
    ASSUME NEW x \in Int, NEW y \in Int
    PROVE  Max({x, y}) = IF x >= y THEN x ELSE y
<1> DEFINE m == IF x >= y THEN x ELSE y
<1>1. m \in {x, y} /\ \A z \in {x, y} : m >= z
  OBVIOUS
<1>2. \A w \in {x, y} : (\A z \in {x, y} : w >= z) => w = m
  OBVIOUS
<1> QED
  BY <1>1, <1>2 DEF Max

(* Where an iteration of a write is: in a block of the file, from From to  *)
(* To; the bytes it writes are those up to where it goes on.               *)
LEMMA Iteration ==
    ASSUME TypeOK, OpInside, Writing
    PROVE  /\ wf \in File /\ op.i \in Byte /\ op.offset \in Byte /\ op.size \in Nat
           /\ Index \in 0 .. Blocks - 1
           /\ From \in 0 .. g_block_size - 1 /\ To \in From + 1 .. g_block_size
           /\ op.i + To - From <= op.offset + op.size
           /\ \A u \in Byte : InBlock(u) /\ From <= u % g_block_size
                                /\ u % g_block_size < To
                              => op.i <= u /\ u < op.i + To - From
<1>1. /\ op # None /\ op \in WriteOp
      /\ op.offset <= op.i /\ op.i < op.offset + op.size
      /\ op.offset + op.size <= MaxSize
  BY DEF TypeOK, OpInside, Writing
<1>2. /\ op.i \in Byte /\ op.offset \in Byte /\ op.size \in Nat /\ wf \in File
  BY <1>1, Sizes DEF WriteOp, OpInside, wf
<1>a. op.i \in Nat /\ op.offset \in Nat
  BY <1>2, Sizes
<1>b. /\ From \in 0 .. g_block_size - 1
      /\ op.i = g_block_size * Index + From
  BY <1>a, DivMod DEF Index, From
<1>3. Index \in 0 .. Blocks - 1 /\ From \in 0 .. g_block_size - 1
  BY <1>2, <1>b, BlockOfByte DEF Index
<1> DEFINE room == From + op.offset + op.size - op.i
<1>4. room \in Int /\ room > From
  BY <1>1, <1>2, <1>3, Sizes, SMTT(60)
<1>5. To = IF g_block_size <= room THEN g_block_size ELSE room
  BY <1>4, MinOfTwo, Sizes DEF To
<1>6. /\ To \in From + 1 .. g_block_size
      /\ op.i + To - From <= op.offset + op.size
  <2> DEFINE i == op.i
             N == g_block_size
             F == From
             e == op.offset + op.size
  <2>1. /\ i \in Nat /\ N \in Nat /\ F \in 0 .. N - 1 /\ e \in Nat /\ i < e
        /\ room = F + e - i
    BY <1>1, <1>2, <1>3, <1>a, Sizes, SMTT(60)
  <2>2. To = IF N <= room THEN N ELSE room
    BY <1>5
  <2> HIDE DEF i, N, F, e, room
  <2>3. To \in F + 1 .. N /\ i + To - F <= e
    BY <2>1, <2>2
  <2> QED
    BY <2>3 DEF i, N, F, e
<1>7. ASSUME NEW u \in Byte, InBlock(u), From <= u % g_block_size,
             u % g_block_size < To
      PROVE  op.i <= u /\ u < op.i + To - From
  <2> DEFINE b == g_block_size * Index
             r == u % g_block_size
             i == op.i
             F == From
             T == To
  <2>1. u \in Nat
    BY Sizes
  <2>2. u = b + r /\ r \in Nat
    BY <1>7, <2>1, DivMod DEF InBlock
  <2>3. i = b + F /\ F \in Nat /\ T \in Nat /\ b \in Int
    BY <1>3, <1>6, <1>b, Sizes
  <2>4. F <= r /\ r < T
    BY <1>7
  <2> HIDE DEF b, r, i, F, T
  <2>5. i <= u /\ u < i + T - F
    BY <2>2, <2>3, <2>4
  <2> QED
    BY <2>5 DEF i, F, T
<1> QED
  BY <1>2, <1>3, <1>6, <1>7

-----------------------------------------------------------------------------
(* What an operation other than write leaves alone: the store, and what    *)
(* was written where it was not cut off.                                   *)
LEMMA CallKeeps ==
    ASSUME Inv, op = None, op' = None, UNCHANGED <<record, chunk, cur_size>>,
           \A f \in File : \A u \in Byte : want'[f][u] # None =>
               /\ want'[f][u] = want[f][u] /\ hashes'[f] = hashes[f]
               /\ u < wantSize'[f] \/ wantSize'[f] = wantSize[f]
    PROVE  ChunksKept' /\ NamesWritten' /\ OpInside' /\ InsideSize'
<1>1. ChunksKept'
  BY DEF Inv, ChunksKept
<1>2. NamesWritten'
  <2>1. \A k, u, byte : HasByte(record, k, u, byte) => HasByte(record', k, u, byte)
    BY DEF HasByte, Known, Block
  <2> QED
    BY <2>1 DEF Inv, NamesWritten, Byte, MaxSize
<1>3. OpInside'
  BY DEF OpInside
<1>4. InsideSize'
  BY DEF Inv, InsideSize, Byte, MaxSize
<1> QED
  BY <1>1, <1>2, <1>3, <1>4

(* A step counts as faulty or not. *)
LEMMA FaultsInRange ==
    ASSUME Inv, (faults < MaxFaults /\ faults' = faults + 1) \/ UNCHANGED faults
    PROVE  faults' \in 0 .. MaxFaults
BY FileAssumption DEF Inv, TypeOK

(* What is left of the store once records are lost. *)
LEMMA RecordsLost ==
    ASSUME Inv, NEW lost
    PROVE  /\ Without(lost) \in [Block -> Chunk \cup {None}]
           /\ \A k \in Block : Without(lost)[k] = IF k \in lost THEN None ELSE record[k]
           /\ \A k, u, byte : HasByte(record, k, u, byte) /\ k \notin lost
                             => HasByte(Without(lost), k, u, byte)
<1>1. /\ Without(lost) \in [Block -> Chunk \cup {None}]
      /\ \A k \in Block : Without(lost)[k] = IF k \in lost THEN None ELSE record[k]
  BY DEF Inv, TypeOK, Without
<1>2. \A k, u, byte : HasByte(record, k, u, byte) /\ k \notin lost
                             => HasByte(Without(lost), k, u, byte)
  <2> DEFINE rec == Without(lost)
  <2>1. \A k \in Block : k \notin lost => rec[k] = record[k]
    BY <1>1
  <2> HIDE DEF rec
  <2> QED
    BY <2>1, Zenon DEF HasByte, rec
<1> QED
  BY <1>1, <1>2


(* Closed is no file. *)
LEMMA ClosedIsNoFile == Closed.file \notin File /\ None \notin File /\ None \notin Size
BY FileAssumption DEF Closed

(* Types and sizes of a new file. *)
LEMMA FreshKeeps ==
    ASSUME Inv, NEW f \in File, NEW size \in {0, None}, Fresh(f, size)
    PROVE  /\ header' \in [File -> Size \cup {None}]
           /\ hashes' \in [File -> Seq(Key)]
           /\ \A e \in File : Len(hashes'[e]) <= Blocks
           /\ want' \in [File -> [Byte -> Fill \cup {None}]]
           /\ wantSize' \in [File -> Size] /\ mixed' \subseteq File
           /\ \A e \in File : \A u \in Byte : want'[e][u] # None =>
                  want'[e][u] = want[e][u] /\ hashes'[e] = hashes[e]
                    /\ wantSize'[e] = wantSize[e]
           /\ \A e \in File \ {f} : header'[e] = header[e] /\ wantSize'[e] = wantSize[e]
           /\ header'[f] = size /\ wantSize'[f] = 0
           /\ mixed' = mixed \ {f} /\ Handles(f) = {} /\ Links(f) = {}
<1>1. TypeOK
  BY DEF Inv
<1>2. <<>> \in Seq(Key) /\ Len(<<>>) = 0
  OBVIOUS
<1>3. header' \in [File -> Size \cup {None}] /\ wantSize' \in [File -> Size]
  BY <1>1, Sizes DEF Fresh, TypeOK
<1>4. /\ hashes' \in [File -> Seq(Key)]
      /\ \A e \in File : hashes'[e] = IF e = f THEN <<>> ELSE hashes[e]
  BY <1>1, <1>2 DEF Fresh, TypeOK
<1>5. /\ want' \in [File -> [Byte -> Fill \cup {None}]]
      /\ \A e \in File : want'[e] = IF e = f THEN [u \in Byte |-> None] ELSE want[e]
  BY <1>1 DEF Fresh, TypeOK
<1>6. \A e \in File : Len(hashes'[e]) <= Blocks
  BY <1>1, <1>2, <1>4, FileAssumption DEF TypeOK
<1> QED
  BY <1>1, <1>3, <1>4, <1>5, <1>6 DEF Fresh, Unused, TypeOK

(* create and mknod. *)
LEMMA CreateKeeps ==
    ASSUME Inv, NEW n \in Name, NEW f \in File, NEW h \in Fh, fuse_create(n, f, h)
    PROVE  Inv'
<1> DEFINE new == [file |-> f, st_size |-> 0]
<1>0. PICK size \in {0, None} : Fresh(f, size)
  BY DEF fuse_create
<1>a. faults' \in 0 .. MaxFaults
  <2>1. (faults < MaxFaults /\ faults' = faults + 1) \/ UNCHANGED faults
    BY Zenon DEF fuse_create, Faulty
  <2> QED
    BY <2>1, FaultsInRange
<1>1. /\ op = None /\ op' = None /\ ops' \in 0 .. MaxOps
      /\ names[n] = None /\ fh[h] = Closed /\ Fresh(f, size)
      /\ names' = [names EXCEPT ![n] = f] /\ fh' = [fh EXCEPT ![h] = new]
      /\ UNCHANGED store
  BY <1>0, FileAssumption DEF fuse_create, Call, Inv, TypeOK
<1>2. TypeOK
  BY DEF Inv
<1>3. /\ names' \in [Name -> File \cup {None}]
      /\ \A m \in Name : names'[m] = IF m = n THEN f ELSE names[m]
      /\ fh' \in [Fh -> [file : File \cup {None}, st_size : Size]]
      /\ \A g \in Fh : fh'[g] = IF g = h THEN new ELSE fh[g]
  BY <1>1, <1>2, Sizes DEF TypeOK
<1>4. TypeOK'
  BY <1>1, <1>a, <1>2, <1>3, FreshKeeps DEF TypeOK, store
<1>5. ChunksKept' /\ NamesWritten' /\ OpInside' /\ InsideSize'
  BY <1>1, FreshKeeps, CallKeeps DEF store
<1>6. SizesAgree'
  <2> SUFFICES ASSUME NEW e \in File, e \notin mixed'
               PROVE  SizeAgrees(e)'
    BY DEF SizesAgree
  <2>1. CASE e = f
    <3>1. Handles(e)' = {h}
      BY <1>1, <1>3, <2>1, FreshKeeps DEF Handles
    <3> QED
      BY <1>1, <1>3, <2>1, <3>1, FreshKeeps DEF SizeAgrees
  <2>2. CASE e # f
    <3>1. Handles(e)' = Handles(e) /\ Links(e)' = Links(e) /\ h \notin Handles(e)
      BY <1>1, <1>3, <2>2, ClosedIsNoFile DEF Handles, Links
    <3>2. /\ header'[e] = header[e] /\ wantSize'[e] = wantSize[e] /\ e \notin mixed
          /\ \A g \in Handles(e) : g \in Fh /\ fh'[g] = fh[g]
      BY <1>1, <1>3, <2>2, <3>1, FreshKeeps DEF Handles
    <3> QED
      BY <3>1, <3>2 DEF Inv, SizesAgree, SizeAgrees
  <2> QED
    BY <2>1, <2>2
<1>7. HandlesOpen'
  BY <1>3 DEF Inv, HandlesOpen
<1> QED
  BY <1>4, <1>5, <1>6, <1>7 DEF Inv

(* mknod writes no header, which counts as size 0. *)
LEMMA MknodKeeps ==
    ASSUME Inv, NEW n \in Name, NEW f \in File, fuse_mknod(n, f)
    PROVE  Inv'
<1>1. /\ op = None /\ op' = None /\ ops' \in 0 .. MaxOps
      /\ names[n] = None /\ Fresh(f, None)
      /\ names' = [names EXCEPT ![n] = f] /\ UNCHANGED <<fh, store, faults>>
  BY FileAssumption DEF fuse_mknod, Call, Inv, TypeOK
<1>2. TypeOK
  BY DEF Inv
<1>3. /\ names' \in [Name -> File \cup {None}]
      /\ \A m \in Name : names'[m] = IF m = n THEN f ELSE names[m]
  BY <1>1, <1>2 DEF TypeOK
<1>4. TypeOK'
  BY <1>1, <1>2, <1>3, FreshKeeps DEF TypeOK, store
<1>5. ChunksKept' /\ NamesWritten' /\ OpInside' /\ InsideSize'
  BY <1>1, FreshKeeps, CallKeeps DEF store
<1>6. SizesAgree'
  <2> SUFFICES ASSUME NEW e \in File, e \notin mixed'
               PROVE  SizeAgrees(e)'
    BY DEF SizesAgree
  <2>1. Handles(e)' = Handles(e)
    BY <1>1 DEF Handles
  <2>2. CASE e = f
    BY <1>1, <2>1, <2>2, FreshKeeps DEF SizeAgrees
  <2>3. CASE e # f
    <3>1. Links(e)' = Links(e)
      BY <1>1, <1>3, <2>3, ClosedIsNoFile DEF Links
    <3>2. header'[e] = header[e] /\ wantSize'[e] = wantSize[e] /\ e \notin mixed
      BY <1>1, <2>3, FreshKeeps
    <3> QED
      BY <1>1, <2>1, <3>1, <3>2 DEF Inv, SizesAgree, SizeAgrees
  <2> QED
    BY <2>2, <2>3
<1>7. HandlesOpen'
  BY <1>1 DEF Inv, HandlesOpen
<1> QED
  BY <1>4, <1>5, <1>6, <1>7 DEF Inv

-----------------------------------------------------------------------------
(* An open handle takes the size of the header.  If it is not the only     *)
(* one, or there is no header, the size of the file may be lost.           *)
LEMMA OpenKeeps ==
    ASSUME Inv, NEW n \in Name, NEW h \in Fh, fuse_open(n, h)
    PROVE  Inv'
<1> DEFINE f == names[n]
<1>1. PICK size \in JunkSize \cup ({header[f]} \ {None}) :
        /\ fh' = [fh EXCEPT ![h] = [file |-> f, st_size |-> size]]
        /\ Faulty(header[f] \notin {None, size})
        /\ mixed' = IF size # header[f] \/ Handles(f) # {} THEN mixed \cup {f} ELSE mixed
  BY DEF fuse_open
<1>a. faults' \in 0 .. MaxFaults
  <2>1. (faults < MaxFaults /\ faults' = faults + 1) \/ UNCHANGED faults
    BY <1>1, Zenon DEF Faulty
  <2> QED
    BY <2>1, FaultsInRange
<1>2. /\ op = None /\ op' = None /\ ops' \in 0 .. MaxOps
      /\ f # None /\ fh[h] = Closed
      /\ UNCHANGED <<names, meta, store, want, wantSize>>
  BY FileAssumption DEF fuse_open, Call, Inv, TypeOK
<1>3. TypeOK
  BY DEF Inv
<1>4. f \in File /\ size \in Size
  BY <1>1, <1>2, <1>3, FileAssumption DEF TypeOK
<1> HIDE DEF f
<1>5. /\ fh' \in [Fh -> [file : File \cup {None}, st_size : Size]]
      /\ \A g \in Fh : fh'[g] = IF g = h THEN [file |-> f, st_size |-> size] ELSE fh[g]
  BY <1>1, <1>3, <1>4 DEF TypeOK
<1>6. TypeOK'
  BY <1>1, <1>a, <1>2, <1>3, <1>4, <1>5 DEF TypeOK, store, meta
<1>7. ChunksKept' /\ NamesWritten' /\ OpInside' /\ InsideSize'
  BY <1>2, CallKeeps DEF store, meta
<1>8. SizesAgree'
  <2> SUFFICES ASSUME NEW e \in File, e \notin mixed'
               PROVE  SizeAgrees(e)'
    BY DEF SizesAgree
  <2>1. e \notin mixed /\ SizeAgrees(e)
    BY <1>1 DEF Inv, SizesAgree
  <2>2. CASE e = f
    <3>1. Handles(e) = {} /\ header[f] # None /\ size = header[f]
      BY <1>1, <1>4, <2>2, ClosedIsNoFile
    <3>2. n \in Links(e)
      BY <2>2 DEF Links, f
    <3>3. Handles(e)' = {h}
      BY <1>5, <2>2, <3>1 DEF Handles
    <3>4. fh'[h].st_size = wantSize[e]
      BY <1>5, <2>1, <2>2, <3>1, <3>2 DEF SizeAgrees
    <3> QED
      BY <1>2, <3>3, <3>4 DEF SizeAgrees
  <2>3. CASE e # f
    <3>1. Handles(e)' = Handles(e) /\ Links(e)' = Links(e) /\ h \notin Handles(e)
      BY <1>2, <1>5, <2>3, ClosedIsNoFile DEF Handles, Links
    <3>2. \A g \in Handles(e) : g \in Fh /\ fh'[g] = fh[g]
      BY <1>5, <3>1 DEF Handles
    <3> QED
      BY <1>2, <2>1, <3>1, <3>2 DEF SizeAgrees, meta
  <2> QED
    BY <2>2, <2>3
<1>9. HandlesOpen'
  BY <1>4, <1>5 DEF Inv, HandlesOpen
<1> QED
  BY <1>6, <1>7, <1>8, <1>9 DEF Inv

(* release writes the size to the header, or fails. *)
LEMMA ReleaseKeeps ==
    ASSUME Inv, NEW h \in Fh, fuse_release(h) \/ fuse_release_fails(h)
    PROVE  Inv'
<1> DEFINE f == fh[h].file
<1>1. /\ op = None /\ op' = None /\ ops' \in 0 .. MaxOps /\ fh[h] # Closed
      /\ UNCHANGED <<names, hashes, store, want, wantSize>>
      /\ fh' = [fh EXCEPT ![h] = Closed]
      /\ \/ header' = [header EXCEPT ![f] = fh[h].st_size] /\ UNCHANGED mixed
         \/ header' = header /\ mixed' = mixed \cup {f}
  <2>1. ops \in 0 .. MaxOps /\ ops < MaxOps /\ ops' = ops + 1
    BY DEF fuse_release, fuse_release_fails, Call, Inv, TypeOK
  <2>2. ops' \in 0 .. MaxOps
    BY <2>1, FileAssumption
  <2>3. CASE fuse_release(h)
    BY <2>2, <2>3 DEF fuse_release, Call, ghosts
  <2>4. CASE fuse_release_fails(h)
    BY <2>2, <2>4 DEF fuse_release_fails, Call, meta
  <2> QED
    BY <2>3, <2>4
<1>2. TypeOK
  BY DEF Inv
<1>a. faults' \in 0 .. MaxFaults
  <2>1. (faults < MaxFaults /\ faults' = faults + 1) \/ UNCHANGED faults
    BY DEF fuse_release, fuse_release_fails, Faulty
  <2> QED
    BY <2>1, FaultsInRange
<1>3. Closed \in [file : File \cup {None}, st_size : Size]
  BY Sizes DEF Closed
<1>4. /\ fh' \in [Fh -> [file : File \cup {None}, st_size : Size]]
      /\ \A g \in Fh : fh'[g] = fh[g] \/ (g = h /\ fh'[g] = Closed)
      /\ fh'[h] = Closed
  BY <1>1, <1>2, <1>3 DEF TypeOK
<1>5. CASE f \in File
  <2> HIDE DEF f
  <2>1. /\ header' \in [File -> Size \cup {None}] /\ mixed' \subseteq File
        /\ mixed \subseteq mixed'
        /\ \A e \in File : e # f => header'[e] = header[e]
        /\ f \notin mixed' => header'[f] = fh[h].st_size
    BY <1>1, <1>2, <1>5 DEF TypeOK
  <2>2. TypeOK'
    BY <1>1, <1>2, <1>a, <1>4, <2>1 DEF TypeOK, store
  <2>3. ChunksKept' /\ NamesWritten' /\ OpInside' /\ InsideSize'
    BY <1>1, CallKeeps DEF store
  <2>4. SizesAgree'
    <3> SUFFICES ASSUME NEW e \in File, e \notin mixed'
                 PROVE  SizeAgrees(e)'
      BY DEF SizesAgree
    <3>1. SizeAgrees(e)
      BY <2>1 DEF Inv, SizesAgree
    <3>2. /\ Links(e)' = Links(e) /\ Handles(e)' \subseteq Handles(e)
          /\ \A g \in Handles(e)' : g \in Fh /\ fh'[g] = fh[g]
      BY <1>1, <1>4, ClosedIsNoFile DEF Handles, Links
    <3>3. CASE e = f
      <4>1. h \in Handles(e) /\ header'[e] = wantSize[e] /\ wantSize[e] # None
        BY <1>2, <2>1, <3>1, <3>3, ClosedIsNoFile DEF Handles, SizeAgrees, TypeOK, f
      <4> QED
        BY <1>1, <3>1, <3>2, <4>1 DEF SizeAgrees
    <3>4. CASE e # f
      <4>1. Handles(e)' = Handles(e)
        BY <1>1, <1>4, <3>2, <3>4 DEF Handles, f
      <4> QED
        BY <1>1, <2>1, <3>1, <3>2, <3>4, <4>1 DEF SizeAgrees
    <3> QED
      BY <3>3, <3>4
  <2>5. HandlesOpen'
    BY <1>4 DEF Inv, HandlesOpen
  <2> QED
    BY <2>2, <2>3, <2>4, <2>5 DEF Inv
<1> QED
  BY <1>1, <1>5 DEF Inv, HandlesOpen

(* fsync writes it or not, and the handle keeps it. *)
LEMMA FsyncKeeps ==
    ASSUME Inv, NEW h \in Fh, fuse_fsync(h)
    PROVE  Inv'
<1> DEFINE f == fh[h].file
<1>1. /\ op = None /\ op' = None /\ ops' \in 0 .. MaxOps /\ fh[h] # Closed
      /\ UNCHANGED <<names, hashes, fh, store, ghosts>>
      /\ header' = [header EXCEPT ![f] = fh[h].st_size] \/ UNCHANGED header
  BY FileAssumption DEF fuse_fsync, HeaderMayBe, Call, Inv, TypeOK
<1>2. TypeOK /\ f \in File
  BY <1>1 DEF Inv, HandlesOpen
<1>a. faults' \in 0 .. MaxFaults
  <2>1. (faults < MaxFaults /\ faults' = faults + 1) \/ UNCHANGED faults
    BY Zenon DEF fuse_fsync, Faulty
  <2> QED
    BY <2>1, FaultsInRange
<1>3. /\ header' \in [File -> Size \cup {None}]
      /\ \A e \in File : e # f => header'[e] = header[e]
  BY <1>1, <1>2 DEF TypeOK
<1>4. TypeOK'
  BY <1>1, <1>2, <1>a, <1>3 DEF TypeOK, store, ghosts
<1>5. ChunksKept' /\ NamesWritten' /\ OpInside' /\ InsideSize'
  BY <1>1, CallKeeps DEF store, ghosts
<1>6. h \in Handles(f)
  BY DEF Handles
<1>7. SizesAgree' /\ HandlesOpen'
  <2> HIDE DEF f
  <2> QED
    BY <1>1, <1>3, <1>6 DEF Inv, SizesAgree, SizeAgrees, Handles, Links, HandlesOpen, ghosts
<1> QED
  BY <1>4, <1>5, <1>7 DEF Inv

(* rename and link: a file that has a name afterwards had one before. *)
LEMMA DirectoryKeeps ==
    ASSUME Inv, NEW m \in Name, NEW n \in Name, fuse_rename(m, n) \/ fuse_link(m, n)
    PROVE  Inv'
<1>1. /\ op = None /\ op' = None /\ ops' \in 0 .. MaxOps
      /\ names' \in [Name -> File \cup {None}]
      /\ \A k \in Name : names'[k] # None => \E j \in Name : names[j] = names'[k]
      /\ UNCHANGED <<meta, fh, store, faults, ghosts>>
  <2>1. names \in [Name -> File \cup {None}] /\ op = None /\ ops' \in 0 .. MaxOps
    BY FileAssumption DEF fuse_rename, fuse_link, Call, Inv, TypeOK
  <2>2. CASE fuse_rename(m, n)
    BY <2>1, <2>2 DEF fuse_rename
  <2>3. CASE fuse_link(m, n)
    BY <2>1, <2>3 DEF fuse_link
  <2> QED
    BY <2>2, <2>3
<1>2. TypeOK'
  BY <1>1 DEF Inv, TypeOK, meta, store, ghosts
<1>3. ChunksKept' /\ NamesWritten' /\ OpInside' /\ InsideSize'
  BY <1>1, CallKeeps DEF meta, store, ghosts
<1>4. SizesAgree'
  <2> SUFFICES ASSUME NEW e \in File, e \notin mixed'
               PROVE  SizeAgrees(e)'
    BY DEF SizesAgree
  <2>1. SizeAgrees(e)
    BY <1>1 DEF Inv, SizesAgree, ghosts
  <2>2. Handles(e)' = Handles(e) /\ (Links(e)' # {} => Links(e) # {})
    BY <1>1, ClosedIsNoFile DEF Handles, Links
  <2> QED
    BY <1>1, <2>1, <2>2 DEF SizeAgrees, meta, ghosts
<1>5. HandlesOpen'
  BY <1>1 DEF Inv, HandlesOpen
<1> QED
  BY <1>2, <1>3, <1>4, <1>5 DEF Inv

(* What truncate, ftruncate and unlink do: header, ghosts, a number of     *)
(* entries of the free list, and records that are lost.                    *)
LEMMA CutKeeps ==
    ASSUME Inv, NEW f \in File, NEW size \in Size, NEW cut \in Size, NEW lost,
           op = None, op' = None, ops' \in 0 .. MaxOps, faults' \in 0 .. MaxFaults,
           free' \in 0 .. MaxFree, record' = Without(lost),
           HeaderMayBe(f, size), Cut(f, cut, lost),
           \/ cut = size /\ wantSize' = [wantSize EXCEPT ![f] = size]
           \/ UNCHANGED wantSize,
           UNCHANGED <<hashes, chunk, cur_size>>
    PROVE  /\ names' \in [Name -> File \cup {None}]
                /\ fh' \in [Fh -> [file : File \cup {None}, st_size : Size]]
                /\ mixed' \subseteq File => TypeOK'
           /\ ChunksKept' /\ NamesWritten' /\ OpInside' /\ InsideSize'
           /\ \A e \in File \ {f} : header'[e] = header[e] /\ wantSize'[e] = wantSize[e]
           /\ header'[f] = size \/ header' = header
<1>1. TypeOK
  BY DEF Inv
<1>2. /\ want' \in [File -> [Byte -> Fill \cup {None}]]
      /\ \A e \in File : \A u \in Byte : want'[e][u] # None =>
            want'[e][u] = want[e][u] /\ ~Loses(e, u, lost) /\ (e = f => ~(u >= cut))
  <2> DEFINE drop(e, u) == (e = f /\ u >= cut) \/ Loses(e, u, lost)
  <2>1. want' = [e \in File |-> [u \in Byte |-> IF drop(e, u) THEN None ELSE want[e][u]]]
    BY DEF Cut
  <2> HIDE DEF drop
  <2>2. /\ want' \in [File -> [Byte -> Fill \cup {None}]]
        /\ \A e \in File : \A u \in Byte : want'[e][u] # None =>
              want'[e][u] = want[e][u] /\ ~drop(e, u)
    BY <1>1, <2>1 DEF TypeOK
  <2> QED
    BY <2>2 DEF drop
<1>3. /\ wantSize' \in [File -> Size]
      /\ \A e \in File \ {f} : wantSize'[e] = wantSize[e]
      /\ (cut = size /\ wantSize'[f] = size) \/ wantSize' = wantSize
  <2>1. wantSize \in [File -> Size]
    BY <1>1 DEF TypeOK
  <2>2. CASE cut = size /\ wantSize' = [wantSize EXCEPT ![f] = size]
    BY <2>1, <2>2
  <2>3. CASE UNCHANGED wantSize
    BY <2>1, <2>3
  <2> QED
    BY <2>2, <2>3
<1>4. /\ header' \in [File -> Size \cup {None}]
      /\ header'[f] = size \/ header' = header
      /\ \A e \in File \ {f} : header'[e] = header[e]
  BY <1>1 DEF TypeOK, HeaderMayBe
<1>5. /\ record' \in [Block -> Chunk \cup {None}]
      /\ \A k \in Block : record'[k] = IF k \in lost THEN None ELSE record[k]
      /\ \A k, u, byte : HasByte(record, k, u, byte) /\ k \notin lost
                       => HasByte(record', k, u, byte)
  BY RecordsLost, Zenon
<1>6. ChunksKept'
  BY <1>5 DEF Inv, ChunksKept, Block
<1>7. NamesWritten'
  <2> SUFFICES ASSUME NEW e \in File, NEW u \in Byte, want'[e][u] # None
               PROVE  /\ u \div g_block_size < Len(hashes[e])
                      /\ HasByte(record', hashes[e][u \div g_block_size + 1], u, want'[e][u])
    BY DEF NamesWritten, Byte, MaxSize
  <2>1. want'[e][u] = want[e][u] /\ ~Loses(e, u, lost)
    BY <1>2
  <2> DEFINE d == u \div g_block_size
  <2>2. d < Len(hashes[e]) /\ HasByte(record, hashes[e][d + 1], u, want[e][u])
    BY <2>1 DEF Inv, NamesWritten
  <2>3. hashes[e][d + 1] \notin lost
    BY <2>1, <2>2 DEF Loses
  <2> HIDE DEF d
  <2>4. HasByte(record', hashes[e][d + 1], u, want[e][u])
    BY <1>5, <2>2, <2>3, Zenon
  <2> QED
    BY <2>1, <2>2, <2>4 DEF d
<1>8. OpInside'
  BY DEF OpInside
<1>9. InsideSize'
  <2> SUFFICES ASSUME NEW e \in File, NEW u \in Byte, want'[e][u] # None
               PROVE  u < wantSize'[e]
    BY DEF InsideSize, Byte, MaxSize
  <2>1. want[e][u] # None /\ (e = f => ~(u >= cut))
    BY <1>2
  <2>2. u < wantSize[e]
    BY <2>1 DEF Inv, InsideSize
  <2>3. u \in Int /\ cut \in Int
    BY Sizes
  <2> QED
    BY <1>3, <2>1, <2>2, <2>3
<1>10. ASSUME names' \in [Name -> File \cup {None}],
              fh' \in [Fh -> [file : File \cup {None}, st_size : Size]],
              mixed' \subseteq File
       PROVE  TypeOK'
  <2> HIDE DEF Cut
  <2> QED
    BY <1>1, <1>2, <1>3, <1>4, <1>5, <1>10 DEF TypeOK
<1> QED
  BY <1>3, <1>4, <1>6, <1>7, <1>8, <1>9, <1>10

(* del_chunk adds to the free list what fits, and loses records. *)
LEMMA DelKeeps ==
    ASSUME Inv, NEW f \in File, NEW size \in Size, NEW old \in Size, NEW lost,
           DeleteBlocks(f, size, old, lost)
    PROVE  free' \in 0 .. MaxFree /\ record' = Without(lost)
<1>1. PICK read \in SUBSET There(f, size, old) :
        del_chunk(GoneKeys(f, size, old, read), lost)
  BY DEF DeleteBlocks
<1>2. PICK n \in Freed(GoneKeys(f, size, old, read), lost) :
        free + n <= MaxFree /\ free' = free + n
  BY <1>1 DEF del_chunk
<1>3. n \in Nat
  BY <1>2 DEF Freed
<1> QED
  BY <1>1, <1>2, <1>3, FileAssumption DEF Inv, TypeOK, del_chunk

(* truncate changes the header and no handle, so that the size of an open  *)
(* file may be lost.                                                       *)
LEMMA TruncateKeeps ==
    ASSUME Inv, NEW n \in Name, NEW size \in NewSize, fuse_truncate(n, size)
    PROVE  Inv'
<1> DEFINE f == names[n]
<1>0. PICK lost \in Erasures :
        DeleteBlocks(f, size, OldSize(f), lost) /\ Cut(f, size, lost)
  BY DEF fuse_truncate
<1>b. faults' \in 0 .. MaxFaults
  <2>1. (faults < MaxFaults /\ faults' = faults + 1) \/ UNCHANGED faults
    BY Zenon DEF fuse_truncate, Faulty
  <2> QED
    BY <2>1, FaultsInRange
<1>1. /\ op = None /\ op' = None /\ ops' \in 0 .. MaxOps /\ f # None
      /\ HeaderMayBe(f, size)
      /\ wantSize' = [wantSize EXCEPT ![f] = size]
      /\ mixed' = IF Handles(f) # {} \/ header'[f] # size THEN mixed \cup {f} ELSE mixed
      /\ UNCHANGED <<names, hashes, fh, chunk, cur_size>>
  BY FileAssumption DEF fuse_truncate, Call, Inv, TypeOK
<1>2. TypeOK /\ size \in Size /\ f \in File
  BY <1>1, FileAssumption DEF Inv, TypeOK
<1>3. OldSize(f) \in Size
  BY <1>2, Sizes DEF TypeOK, OldSize
<1> HIDE DEF f
<1>4. free' \in 0 .. MaxFree /\ record' = Without(lost)
  BY <1>0, <1>2, <1>3, DelKeeps
<1>5. /\ TypeOK' /\ ChunksKept' /\ NamesWritten' /\ OpInside' /\ InsideSize'
      /\ \A e \in File \ {f} : header'[e] = header[e] /\ wantSize'[e] = wantSize[e]
      /\ header'[f] = size \/ header' = header
  BY <1>0, <1>b, <1>1, <1>2, <1>4, CutKeeps DEF TypeOK
<1>6. SizesAgree'
  <2> SUFFICES ASSUME NEW e \in File, e \notin mixed'
               PROVE  SizeAgrees(e)'
    BY DEF SizesAgree
  <2>1. SizeAgrees(e) /\ Handles(e)' = Handles(e) /\ Links(e)' = Links(e)
    BY <1>1 DEF Inv, SizesAgree, Handles, Links
  <2>2. CASE e = f
    <3>1. Handles(e) = {} /\ wantSize'[e] = size /\ size # None /\ header'[e] = size
      BY <1>1, <1>2, <2>2, ClosedIsNoFile DEF TypeOK
    <3> QED
      BY <1>5, <2>1, <2>2, <3>1 DEF SizeAgrees
  <2>3. CASE e # f
    BY <1>1, <1>5, <2>1, <2>3 DEF SizeAgrees
  <2> QED
    BY <2>2, <2>3
<1>7. HandlesOpen'
  BY <1>1 DEF Inv, HandlesOpen
<1> QED
  BY <1>5, <1>6, <1>7 DEF Inv

(* ftruncate changes the handle too: if it is the only one, all agree. *)
LEMMA FtruncateKeeps ==
    ASSUME Inv, NEW h \in Fh, NEW size \in NewSize, fuse_ftruncate(h, size)
    PROVE  Inv'
<1> DEFINE f == fh[h].file
<1>0. PICK lost \in Erasures :
        DeleteBlocks(f, size, fh[h].st_size, lost) /\ Cut(f, size, lost)
  BY DEF fuse_ftruncate
<1>b. faults' \in 0 .. MaxFaults
  <2>1. (faults < MaxFaults /\ faults' = faults + 1) \/ UNCHANGED faults
    BY Zenon DEF fuse_ftruncate, Faulty
  <2> QED
    BY <2>1, FaultsInRange
<1>1. /\ op = None /\ op' = None /\ ops' \in 0 .. MaxOps /\ f # None
      /\ HeaderMayBe(f, size)
      /\ fh' = [fh EXCEPT ![h].st_size = size]
      /\ wantSize' = [wantSize EXCEPT ![f] = size]
      /\ UNCHANGED <<names, hashes, chunk, cur_size, mixed>>
  BY FileAssumption DEF fuse_ftruncate, Call, Inv, TypeOK
<1>2. TypeOK /\ size \in Size /\ f \in File /\ fh[h].st_size \in Size
  BY <1>1, FileAssumption DEF Inv, TypeOK
<1> HIDE DEF f
<1>4. free' \in 0 .. MaxFree /\ record' = Without(lost)
  BY <1>0, <1>2, DelKeeps
<1>a. /\ fh' \in [Fh -> [file : File \cup {None}, st_size : Size]]
      /\ \A g \in Fh : fh'[g] = IF g = h THEN [file |-> f, st_size |-> size] ELSE fh[g]
  BY <1>1, <1>2 DEF TypeOK, f
<1>5. /\ TypeOK' /\ ChunksKept' /\ NamesWritten' /\ OpInside' /\ InsideSize'
      /\ \A e \in File \ {f} : header'[e] = header[e] /\ wantSize'[e] = wantSize[e]
  BY <1>0, <1>b, <1>1, <1>2, <1>4, <1>a, CutKeeps DEF TypeOK
<1>6. SizesAgree'
  <2> SUFFICES ASSUME NEW e \in File, e \notin mixed'
               PROVE  SizeAgrees(e)'
    BY DEF SizesAgree
  <2>1. /\ SizeAgrees(e) /\ Links(e)' = Links(e)
    BY <1>1 DEF Inv, SizesAgree, Links
  <2>2. Handles(e)' = Handles(e) /\ \A g \in Handles(e) : g \in Fh
    BY <1>a DEF Handles, f
  <2>3. CASE e = f
    <3>1. h \in Handles(e) /\ wantSize'[e] = size
      BY <1>1, <1>2, <2>3 DEF TypeOK, Handles, f
    <3> QED
      BY <1>a, <2>1, <2>2, <3>1 DEF SizeAgrees
  <2>4. CASE e # f
    <3>1. h \notin Handles(e)
      BY <2>4 DEF Handles, f
    <3> QED
      BY <1>1, <1>5, <1>a, <2>1, <2>2, <2>4, <3>1 DEF SizeAgrees
  <2> QED
    BY <2>3, <2>4
<1>7. HandlesOpen'
  BY <1>2, <1>a DEF Inv, HandlesOpen
<1> QED
  BY <1>5, <1>6, <1>7 DEF Inv

(* unlink: a file that had no other name and no handle is out of use. *)
LEMMA UnlinkKeeps ==
    ASSUME Inv, NEW n \in Name, fuse_unlink(n)
    PROVE  Inv'
<1> DEFINE f == names[n]
<1>b. faults' \in 0 .. MaxFaults
  <2>1. (faults < MaxFaults /\ faults' = faults + 1) \/ UNCHANGED faults
    BY Zenon DEF fuse_unlink, Faulty
  <2> QED
    BY <2>1, FaultsInRange
<1>1. /\ op = None /\ op' = None /\ ops' \in 0 .. MaxOps /\ f # None
      /\ \/ names' = [names EXCEPT ![n] = None]
         \/ UNCHANGED names
      /\ mixed' = IF header' # header /\ Handles(f) = {} THEN mixed \cup {f} ELSE mixed
      /\ UNCHANGED <<hashes, fh, chunk, cur_size, wantSize>>
  BY FileAssumption DEF fuse_unlink, Call, Inv, TypeOK
<1>2. TypeOK /\ 0 \in Size /\ MaxSize \in Size /\ f \in File
  BY <1>1, Sizes DEF Inv, TypeOK
<1>3. OldSize(f) \in Size
  BY <1>2 DEF TypeOK, OldSize
<1>c. \E lost : \/ DeleteBlocks(f, 0, OldSize(f), lost) /\ Cut(f, MaxSize, lost)
                   /\ HeaderMayBe(f, 0)
                \/ lost = {} /\ UNCHANGED <<record, free, want, header>>
  BY Zenon DEF fuse_unlink
<1> HIDE DEF f
<1>d. PICK lost : \/ DeleteBlocks(f, 0, OldSize(f), lost) /\ Cut(f, MaxSize, lost)
                     /\ HeaderMayBe(f, 0)
                  \/ lost = {} /\ UNCHANGED <<record, free, want, header>>
  BY <1>c
<1>4. /\ free' \in 0 .. MaxFree /\ record' = Without(lost)
      /\ HeaderMayBe(f, 0) /\ Cut(f, MaxSize, lost)
  <2>1. CASE DeleteBlocks(f, 0, OldSize(f), lost) /\ Cut(f, MaxSize, lost)
               /\ HeaderMayBe(f, 0)
    BY <1>2, <1>3, <2>1, DelKeeps
  <2>2. CASE lost = {} /\ UNCHANGED <<record, free, want, header>>
    <3>1. record = Without(lost) /\ free \in 0 .. MaxFree
      BY <1>2, <2>2 DEF TypeOK, Without
    <3>2. \A e \in File : \A u \in Byte : ~((e = f /\ u >= MaxSize) \/ Loses(e, u, lost))
      <4>1. \A u \in Byte : ~(u >= MaxSize)
        BY Sizes
      <4> QED
        BY <2>2, <4>1 DEF Loses
    <3>3. Cut(f, MaxSize, lost)
      <4> DEFINE drop(e, u) == (e = f /\ u >= MaxSize) \/ Loses(e, u, lost)
                 w == [e \in File |-> [u \in Byte |-> IF drop(e, u) THEN None ELSE want[e][u]]]
      <4>1. want \in [File -> [Byte -> Fill \cup {None}]]
        BY <1>2 DEF TypeOK
      <4>2. \A e \in File : \A u \in Byte : ~drop(e, u)
        BY <3>2
      <4> HIDE DEF drop
      <4>3. w = want
        BY <4>1, <4>2
      <4>4. Cut(f, MaxSize, lost) <=> want' = w
        BY DEF Cut, drop
      <4> QED
        BY <2>2, <4>3, <4>4
    <3> QED
      BY <2>2, <3>1, <3>3 DEF HeaderMayBe
  <2> QED
    BY <1>d, <2>1, <2>2
<1>a. /\ names' \in [Name -> File \cup {None}]
      /\ \A k \in Name : names'[k] = None \/ names'[k] = names[k]
      /\ \A k \in Name : k # n => names'[k] = names[k]
  BY <1>1, <1>2 DEF TypeOK
<1>5. /\ TypeOK' /\ ChunksKept' /\ NamesWritten' /\ OpInside' /\ InsideSize'
      /\ \A e \in File \ {f} : header'[e] = header[e] /\ wantSize'[e] = wantSize[e]
      /\ header'[f] = 0 \/ header' = header
  <2> HIDE DEF f
  <2> QED
    BY <1>1, <1>2, <1>4, <1>a, <1>b, CutKeeps DEF TypeOK
<1>6. SizesAgree'
  <2> SUFFICES ASSUME NEW e \in File, e \notin mixed'
               PROVE  SizeAgrees(e)'
    BY DEF SizesAgree
  <2>1. SizeAgrees(e) /\ Handles(e)' = Handles(e)
    BY <1>1 DEF Inv, SizesAgree, Handles
  <2>2. CASE e = f
    <3>1. Handles(e) # {} \/ header' = header
      BY <1>1, <2>2
    <3>2. Links(e)' \subseteq Links(e)
      BY <1>a, ClosedIsNoFile DEF Links
    <3> QED
      BY <1>1, <2>1, <3>1, <3>2 DEF SizeAgrees
  <2>3. CASE e # f
    <3>1. Links(e)' = Links(e)
      BY <1>a, <2>3, ClosedIsNoFile DEF Links, f
    <3> QED
      BY <1>1, <1>5, <2>1, <2>3, <3>1 DEF SizeAgrees
  <2> QED
    BY <2>2, <2>3
<1>7. HandlesOpen'
  BY <1>1 DEF Inv, HandlesOpen
<1> QED
  BY <1>5, <1>6, <1>7 DEF Inv

-----------------------------------------------------------------------------
(* write.  A write begins on an open handle and writes nothing yet. *)
LEMMA BeginKeeps ==
    ASSUME Inv, NEW h \in Fh, NEW r \in Extent, NEW fill \in Fill,
           BeginWrite(h, r[1], r[2], fill)
    PROVE  Inv'
<1>1. PICK junk \in {Garbage} \cup {k \in Block : Known(k)} :
        op' = [fh |-> h, offset |-> r[1], size |-> r[2], i |-> r[1],
               st_size |-> fh[h].st_size, hash_key |-> junk, fill |-> fill]
  BY DEF BeginWrite
<1>2. /\ op = None /\ ops' \in 0 .. MaxOps /\ fh[h] # Closed
      /\ UNCHANGED <<names, meta, fh, store, faults, ghosts>>
  BY FileAssumption DEF BeginWrite, Call, Inv, TypeOK
<1>3. TypeOK /\ fh[h].file \in File /\ fh[h].st_size \in Size
  BY <1>2 DEF Inv, HandlesOpen, TypeOK
<1>4. r[1] \in Byte /\ r[2] \in 1 .. MaxSize - r[1]
  BY FileAssumption
<1>5. r[1] \in Size /\ r[2] \in Size /\ r[1] \in Int /\ r[2] \in Int
      /\ r[1] + r[2] <= MaxSize /\ r[1] <= r[1] + r[2]
  BY <1>4, Sizes
<1>6. op' \in WriteOp
  BY <1>1, <1>3, <1>4, <1>5 DEF WriteOp, Key
<1>7. TypeOK'
  BY <1>2, <1>3, <1>6 DEF TypeOK, meta, store, ghosts
<1>8. OpInside'
  BY <1>1, <1>2, <1>3, <1>5 DEF OpInside, MaxSize
<1>9. ChunksKept' /\ NamesWritten'
  BY <1>2 DEF Inv, ChunksKept, NamesWritten, HasByte, Known, Block, Byte, MaxSize,
              store, meta, ghosts
<1>10. InsideSize'
  BY <1>2 DEF Inv, InsideSize, Byte, MaxSize, ghosts
<1>11. SizesAgree' /\ HandlesOpen'
  BY <1>2 DEF Inv, SizesAgree, SizeAgrees, Handles, Links, HandlesOpen, meta, ghosts
<1> QED
  BY <1>7, <1>8, <1>9, <1>10, <1>11 DEF Inv

(* The end of a write: handle and ghost take the same size. *)
LEMMA EndKeeps ==
    ASSUME Inv, EndWrite
    PROVE  Inv'
<1> DEFINE f == wf
           end == op.offset + op.size
<1>1. /\ op # None /\ ~Writing /\ op' = None
      /\ fh' = [fh EXCEPT ![op.fh].st_size = Larger(op.st_size, end)]
      /\ wantSize' = [wantSize EXCEPT ![f] = Larger(wantSize[f], end)]
      /\ UNCHANGED <<names, meta, store, ops, faults, want, mixed>>
  BY DEF EndWrite
<1>2. /\ TypeOK /\ op.fh \in Fh /\ f \in File /\ fh[op.fh].file = f
      /\ fh[op.fh].st_size = op.st_size /\ op.st_size \in Size /\ end \in Size
      /\ op.i \in Nat /\ op.i = end
  BY <1>1, Sizes, SMTT(60) DEF Inv, TypeOK, OpInside, WriteOp, wf, Writing
<1>3. /\ wantSize[f] \in Size
      /\ Larger(op.st_size, end) \in Size /\ Larger(wantSize[f], end) \in Size
      /\ wantSize[f] <= Larger(wantSize[f], end) /\ end <= Larger(wantSize[f], end)
  BY <1>2, Sizes DEF TypeOK, Larger
<1> HIDE DEF f, end
<1>4. /\ fh' \in [Fh -> [file : File \cup {None}, st_size : Size]]
      /\ \A g \in Fh : fh'[g] = IF g = op.fh
                                THEN [file |-> f, st_size |-> Larger(op.st_size, end)]
                                ELSE fh[g]
  <2> DEFINE new == Larger(op.st_size, end)
  <2>1. /\ fh \in [Fh -> [file : File \cup {None}, st_size : Size]]
        /\ op.fh \in Fh /\ f \in File /\ fh[op.fh].file = f /\ new \in Size
        /\ fh' = [fh EXCEPT ![op.fh].st_size = new]
    BY <1>1, <1>2, <1>3 DEF TypeOK
  <2> HIDE DEF new
  <2>2. PICK h \in Fh : h = op.fh
    BY <2>1
  <2>3. /\ fh' \in [Fh -> [file : File \cup {None}, st_size : Size]]
        /\ \A g \in Fh : fh'[g] = IF g = h THEN [file |-> f, st_size |-> new] ELSE fh[g]
    BY <2>1, <2>2
  <2> QED
    BY <2>2, <2>3 DEF new
<1>5. /\ wantSize' \in [File -> Size]
      /\ \A e \in File : wantSize'[e] = IF e = f THEN Larger(wantSize[f], end)
                                        ELSE wantSize[e]
  BY <1>1, <1>2, <1>3 DEF TypeOK
<1>6. TypeOK'
  BY <1>1, <1>2, <1>4, <1>5 DEF TypeOK, meta, store
<1>7. OpInside' /\ HandlesOpen'
  BY <1>1, <1>2, <1>4 DEF Inv, OpInside, HandlesOpen
<1>8. ChunksKept' /\ NamesWritten'
  BY <1>1 DEF Inv, ChunksKept, NamesWritten, HasByte, Known, Block, Byte, MaxSize,
              store, meta
<1>9. InsideSize'
  <2> SUFFICES ASSUME NEW e \in File, NEW u \in Byte, want'[e][u] # None
               PROVE  u < wantSize'[e]
    BY <1>1 DEF InsideSize, Byte, MaxSize
  <2>1. u < wantSize[e] \/ (e = f /\ u < op.i)
    BY <1>1 DEF Inv, InsideSize, f
  <2>2. u \in Nat /\ wantSize[e] \in Nat /\ end \in Nat /\ Larger(wantSize[f], end) \in Nat
    BY <1>2, <1>3, Sizes DEF TypeOK
  <2> QED
    BY <1>2, <1>3, <1>5, <2>1, <2>2
<1>10. SizesAgree'
  <2> SUFFICES ASSUME NEW e \in File, e \notin mixed'
               PROVE  SizeAgrees(e)'
    BY DEF SizesAgree
  <2>1. /\ SizeAgrees(e) /\ Links(e)' = Links(e)
    BY <1>1 DEF Inv, SizesAgree, Links
  <2>2. Handles(e)' = Handles(e) /\ \A g \in Handles(e) : g \in Fh
    BY <1>2, <1>4 DEF Handles
  <2>3. CASE e = f
    <3>1. op.fh \in Handles(e)
      BY <1>2, <2>3 DEF Handles
    <3>2. wantSize[e] = op.st_size
      BY <1>2, <2>1, <3>1 DEF SizeAgrees
    <3> QED
      BY <1>4, <1>5, <2>1, <2>2, <2>3, <3>1, <3>2 DEF SizeAgrees
  <2>4. CASE e # f
    <3>1. op.fh \notin Handles(e)
      BY <1>2, <2>4 DEF Handles
    <3> QED
      BY <1>1, <1>4, <1>5, <2>1, <2>2, <2>4, <3>1 DEF SizeAgrees, meta
  <2> QED
    BY <2>3, <2>4
<1> QED
  BY <1>6, <1>7, <1>8, <1>9, <1>10 DEF Inv

-----------------------------------------------------------------------------
(* The block a write makes: its own bytes, and those that survive.         *)
LEMMA BlockMade ==
    ASSUME Inv, Writing, NEW old, NEW got \in CanGet(old)
    PROVE  /\ NewBlock(old, got) \in Block
           /\ \A u \in Byte : From <= u % g_block_size /\ u % g_block_size < To =>
                  NewBlock(old, got)[u % g_block_size] = op.fill
           /\ \A u \in Byte :
                  (/\ ~(From <= u % g_block_size /\ u % g_block_size < To)
                   /\ Survives(u, old, got))
                  => NewBlock(old, got)[u % g_block_size] = OldKey[u % g_block_size]
<1>1. TypeOK /\ OpInside
  BY DEF Inv
<1>2. op.fill \in Fill
  BY <1>1 DEF TypeOK, WriteOp, Writing
<1>3. \A j \in 0 .. g_block_size - 1 : j < got => Known(old)
  BY DEF CanGet
<1>4. Known(old) => block_read(old) \in Block
  BY <1>1 DEF Known, block_read, TypeOK
<1>5. Known(old) /\ record[old] # 0 => block_read(old) = old
  BY DEF Known, block_read, Inv, ChunksKept
<1>6. \A u \in Byte : u % g_block_size \in 0 .. g_block_size - 1
  <2>1. \A u \in Byte : u \in Nat
    BY Sizes
  <2> QED
    BY <2>1, DivMod
<1> DEFINE In(j) == From <= j /\ j < To
           Got(j) == j < got
           Data  == block_read(old)
           nb    == [j \in 0 .. g_block_size - 1 |->
                       IF In(j) THEN op.fill ELSE IF Got(j) THEN Data[j] ELSE Nul]
<1>8. NewBlock(old, got) = nb
  BY DEF NewBlock
<1> HIDE DEF In, Got, Data
<1>9. nb \in Block
  <2>1. \A j \in 0 .. g_block_size - 1 : Got(j) => Data[j] \in Fill \cup {Nul}
    BY <1>3, <1>4 DEF Got, Data, Block
  <2> QED
    BY <1>2, <2>1 DEF Block
<1>10. \A j \in 0 .. g_block_size - 1 :
         nb[j] = IF In(j) THEN op.fill ELSE IF Got(j) THEN Data[j] ELSE Nul
  OBVIOUS
<1> HIDE DEF nb
<1>11. \A u \in Byte : ~In(u % g_block_size) /\ Survives(u, old, got)
                        => nb[u % g_block_size] = OldKey[u % g_block_size]
  BY <1>5, <1>6, <1>10 DEF Survives, Got, Data
<1> QED
  BY <1>6, <1>8, <1>9, <1>10, <1>11 DEF In

(* A fingerprint in the metadata file: the others stay where they are. *)
LEMMA MetafilePut ==
    ASSUME Inv, Writing, NEW k \in Key, Metafile(k)
    PROVE  /\ hashes' \in [File -> Seq(Key)]
           /\ \A f \in File : Len(hashes'[f]) <= Blocks
           /\ \A f \in File \ {wf} : hashes'[f] = hashes[f]
           /\ Index < Len(hashes'[wf]) /\ hashes'[wf][Index + 1] = k
           /\ Len(hashes[wf]) <= Len(hashes'[wf])
           /\ \A b \in 1 .. Len(hashes[wf]) : b # Index + 1 =>
                  hashes'[wf][b] = hashes[wf][b]
<1>1. TypeOK /\ OpInside
  BY DEF Inv
<1>2. wf \in File /\ Index \in 0 .. Blocks - 1
  BY <1>1, Iteration
<1> DEFINE s   == hashes[wf]
           len == Max({Len(s), Index + 1})
           t   == [b \in 1 .. len |->
                     IF b = Index + 1 THEN k ELSE IF b <= Len(s) THEN s[b] ELSE ZeroHash]
<1>3. s \in Seq(Key) /\ Len(s) <= Blocks /\ Len(s) \in Nat
  BY <1>1, <1>2 DEF TypeOK
<1>4. /\ len \in Nat /\ len <= Blocks /\ Index + 1 <= len /\ Len(s) <= len
  <2>1. Index + 1 \in Int
    BY <1>2
  <2>2. len = IF Len(s) >= Index + 1 THEN Len(s) ELSE Index + 1
    BY <1>3, <2>1, MaxOfTwo
  <2> QED
    BY <1>2, <1>3, <2>2, FileAssumption
<1>5. hashes' = [hashes EXCEPT ![wf] = t]
  BY DEF Metafile
<1> HIDE DEF len, s
<1>6. t \in Seq(Key) /\ Len(t) = len
  <2>1. \A b \in 1 .. len : (IF b = Index + 1 THEN k ELSE IF b <= Len(s) THEN s[b]
                                                          ELSE ZeroHash) \in Key
    BY <1>3 DEF Key
  <2> QED
    BY <1>4, <2>1
<1>7. t[Index + 1] = k
  BY <1>2, <1>4
<1>8. \A b \in 1 .. Len(s) : b # Index + 1 => t[b] = s[b]
  BY <1>3, <1>4
<1> HIDE DEF t
<1>9. /\ hashes' \in [File -> Seq(Key)] /\ hashes'[wf] = t
      /\ \A f \in File \ {wf} : hashes'[f] = hashes[f]
  BY <1>1, <1>2, <1>5, <1>6 DEF TypeOK
<1>10. \A f \in File : Len(hashes'[f]) <= Blocks
  BY <1>1, <1>4, <1>6, <1>9 DEF TypeOK
<1> QED
  BY <1>2, <1>4, <1>6, <1>7, <1>8, <1>9, <1>10 DEF s

(* A chunk for a block: the first one, or the next at the end of the file. *)
LEMMA ChunkTaken ==
    ASSUME Inv, NEW left \in 0 .. MaxFree, TakeChunk(left)
    PROVE  /\ Taken(left) \in Chunk /\ cur_size' \in 0 .. Chunks
           /\ free' \in 0 .. MaxFree /\ cur_size <= cur_size'
           /\ Taken(left) = 0 \/ (Taken(left) = cur_size /\ cur_size < cur_size')
BY FileAssumption DEF Inv, TypeOK, TakeChunk, Taken, Chunk

(* What a block written there does to the store, after records were lost:  *)
(* nothing else that was recorded outside of chunk 0 changes, but for the  *)
(* record of a block that is written again.                                *)
LEMMA StoreKeeps ==
    ASSUME Inv, NEW left \in 0 .. MaxFree, TakeChunk(left),
           NEW k \in Block, NEW b \in Block, NEW lost,
           chunk' = [chunk EXCEPT ![Taken(left)] = b],
           \/ record' = Without(lost)
           \/ b = k /\ record' = [Without(lost) EXCEPT ![k] = Taken(left)]
    PROVE  /\ record' \in [Block -> Chunk \cup {None}] /\ chunk' \in [Chunk -> Block]
           /\ cur_size' \in 0 .. Chunks /\ free' \in 0 .. MaxFree
           /\ ChunksKept'
           /\ \A q, u, byte : HasByte(record, q, u, byte) /\ q \notin lost
                            => HasByte(record', q, u, byte)
           /\ record' = Without(lost) \/ record'[k] # None
<1> DEFINE c == Taken(left)
           rec == Without(lost)
<1>1. TypeOK
  BY DEF Inv
<1>2. /\ c \in Chunk /\ cur_size' \in 0 .. Chunks
      /\ free' \in 0 .. MaxFree /\ cur_size <= cur_size'
      /\ c = 0 \/ (c = cur_size /\ cur_size < cur_size')
  BY ChunkTaken
<1>3. c # None
  BY <1>2, FileAssumption
<1>r. /\ rec \in [Block -> Chunk \cup {None}]
      /\ \A q \in Block : rec[q] = IF q \in lost THEN None ELSE record[q]
  BY RecordsLost
<1>d. /\ chunk' = [chunk EXCEPT ![c] = b]
      /\ record' = rec \/ (b = k /\ record' = [rec EXCEPT ![k] = c])
  OBVIOUS
<1> HIDE DEF c, rec
<1>4. /\ chunk' \in [Chunk -> Block]
      /\ \A d \in Chunk : chunk'[d] = IF d = c THEN b ELSE chunk[d]
  BY <1>1, <1>2, <1>d, ZenonT(60) DEF TypeOK
<1>5. /\ record' \in [Block -> Chunk \cup {None}]
      /\ \A q \in Block : record'[q] = rec[q] \/ (q = k /\ b = k /\ record'[q] = c)
      /\ record' = rec \/ record'[k] = c
  <2>1. CASE record' = rec
    BY <1>r, <2>1
  <2>2. CASE b = k /\ record' = [rec EXCEPT ![k] = c]
    BY <1>r, <1>2, <2>2
  <2> QED
    BY <1>d, <2>1, <2>2
<1>6. ChunksKept'
  <2> SUFFICES ASSUME NEW q \in Block, record'[q] # None, record'[q] # 0
               PROVE  record'[q] < cur_size' /\ chunk'[record'[q]] = q
    BY DEF ChunksKept, Block
  <2>0. cur_size \in Nat /\ cur_size' \in Nat /\ record'[q] \in Nat /\ record'[q] \in Chunk
    BY <1>1, <1>2, <1>5, FileAssumption DEF TypeOK, Chunk
  <2>1. CASE record'[q] = rec[q]
    <3>0. record'[q] = record[q]
      BY <1>r, <2>1
    <3>1. record[q] < cur_size /\ chunk[record[q]] = q
      BY <3>0 DEF Inv, ChunksKept
    <3>2. record[q] # c
      BY <1>2, <2>0, <3>0, <3>1
    <3> QED
      BY <1>2, <1>4, <2>0, <3>0, <3>1, <3>2
  <2>2. CASE q = k /\ b = k /\ record'[q] = c
    BY <1>2, <1>4, <2>2
  <2> QED
    BY <1>5, <2>1, <2>2
<1>7. \A q, u, byte : HasByte(record, q, u, byte) /\ q \notin lost
                    => HasByte(record', q, u, byte)
  <2>1. \A q \in Block : record[q] # None /\ q \notin lost => record'[q] # None
    BY <1>r, <1>3, <1>5
  <2> QED
    BY <2>1, Zenon DEF HasByte
<1> QED
  BY <1>2, <1>3, <1>4, <1>5, <1>6, <1>7 DEF rec

(* The header of a file that is written may come to be: it has a handle. *)
LEMMA HeaderKeeps ==
    ASSUME Inv, Writing, HeaderExists \/ UNCHANGED header,
           UNCHANGED <<names, fh, wantSize, mixed>>
    PROVE  header' \in [File -> Size \cup {None}] /\ SizesAgree' /\ HandlesOpen'
<1>1. TypeOK /\ OpInside /\ wf \in File
  BY Iteration DEF Inv
<1>2. /\ header' \in [File -> Size \cup {None}]
      /\ \A f \in File \ {wf} : header'[f] = header[f]
  BY <1>1, Sizes DEF HeaderExists, TypeOK
<1>3. op.fh \in Handles(wf)
  BY <1>1 DEF TypeOK, WriteOp, Writing, Handles, wf
<1>4. SizesAgree'
  BY <1>2, <1>3 DEF Inv, SizesAgree, SizeAgrees, Handles, Links
<1>5. HandlesOpen'
  BY DEF Inv, HandlesOpen
<1> QED
  BY <1>2, <1>4, <1>5

(* What a failed write leaves of what was written. *)
LEMMA FailedKeeps ==
    ASSUME Inv, Writing, NEW blockLost \in BOOLEAN, NEW lost, Failed(blockLost, lost),
           UNCHANGED wantSize
    PROVE  /\ want' \in [File -> [Byte -> Fill \cup {None}]]
           /\ OpInside' /\ InsideSize' /\ op' = None
           /\ \A f \in File : \A u \in Byte : want'[f][u] # None =>
                  /\ want'[f][u] = want[f][u] /\ ~Loses(f, u, lost)
                  /\ f = wf /\ blockLost => ~InBlock(u)
<1>1. TypeOK /\ OpInside /\ wf \in File
  BY Iteration DEF Inv
<1>2. /\ want' \in [File -> [Byte -> Fill \cup {None}]]
      /\ \A f \in File : \A u \in Byte : want'[f][u] # None =>
            /\ want'[f][u] = want[f][u] /\ ~Loses(f, u, lost)
            /\ f = wf => ~(u >= wantSize[wf]) /\ (blockLost => ~InBlock(u))
  <2> DEFINE past(f, u) == f = wf /\ (u >= wantSize[wf] \/ (blockLost /\ InBlock(u)))
             drop(f, u) == past(f, u) \/ Loses(f, u, lost)
  <2>1. want' = [f \in File |-> [u \in Byte |-> IF drop(f, u) THEN None ELSE want[f][u]]]
    BY DEF Failed
  <2> HIDE DEF drop
  <2>2. /\ want' \in [File -> [Byte -> Fill \cup {None}]]
        /\ \A f \in File : \A u \in Byte : want'[f][u] # None =>
              want'[f][u] = want[f][u] /\ ~drop(f, u)
    BY <1>1, <2>1 DEF TypeOK
  <2> QED
    BY <2>2, Zenon DEF drop
<1>3. op' = None
  BY DEF Failed
<1>4. InsideSize'
  <2> SUFFICES ASSUME NEW f \in File, NEW u \in Byte, want'[f][u] # None
               PROVE  u < wantSize[f]
    BY DEF InsideSize, Byte, MaxSize
  <2>1. u \in Int /\ wantSize[f] \in Int
    BY <1>1, Sizes DEF TypeOK
  <2> HIDE DEF Failed
  <2> QED
    BY <1>2, <2>1 DEF Inv, InsideSize
<1> QED
  BY <1>2, <1>3, <1>4 DEF OpInside

(* Where a block was written, a byte is the one of the call or one that    *)
(* survived; elsewhere it is the one that was there, unless its record was *)
(* lost.                                                                   *)
LEMMA BlockNamesIt ==
    ASSUME Inv, Writing, NEW old, NEW got \in CanGet(old), NEW lost,
           NEW k \in Block, k = NewBlock(old, got), Metafile(k),
           Rewritten(old, got, lost), record'[k] # None,
           \A q, u, byte : HasByte(record, q, u, byte) /\ q \notin lost
                        => HasByte(record', q, u, byte)
    PROVE  /\ want' \in [File -> [Byte -> Fill \cup {None}]]
           /\ \A f \in File : \A u \in Byte : want'[f][u] # None =>
                 \/ want[f][u] # None
                 \/ f = wf /\ op.i <= u /\ u < op.i + To - From
           /\ NamesWritten'
<1> DEFINE Of(u) == From <= u % g_block_size /\ u % g_block_size < To
           Kept(u) == Survives(u, old, got)
           Erased(f, u) == Loses(f, u, lost)
           Here(f, u) == f = wf /\ InBlock(u)
<1>1. /\ TypeOK /\ OpInside /\ wf \in File /\ Index \in 0 .. Blocks - 1
      /\ op.fill \in Fill /\ k \in Key
  BY Iteration DEF Inv, TypeOK, WriteOp, Writing, Key
<1>2. /\ want' \in [File -> [Byte -> Fill \cup {None}]]
      /\ \A f \in File, u \in Byte : want'[f][u] =
            IF Here(f, u) THEN IF Of(u) THEN op.fill ELSE IF Kept(u) THEN want[f][u] ELSE None
            ELSE IF Erased(f, u) THEN None ELSE want[f][u]
  <2>1. want' = [f \in File |-> [u \in Byte |->
            IF Here(f, u) THEN IF Of(u) THEN op.fill ELSE IF Kept(u) THEN want[f][u] ELSE None
            ELSE IF Erased(f, u) THEN None ELSE want[f][u]]]
    BY DEF Rewritten
  <2> HIDE DEF Of, Kept, Erased, Here
  <2> QED
    BY <1>1, <2>1 DEF TypeOK
<1>3. \A u \in Byte : InBlock(u) /\ Of(u) => op.i <= u /\ u < op.i + To - From
  BY <1>1, Iteration
<1>4. /\ \A u \in Byte : Of(u) => k[u % g_block_size] = op.fill
      /\ \A u \in Byte : ~Of(u) /\ Kept(u) => k[u % g_block_size] = OldKey[u % g_block_size]
  BY BlockMade
<1>5. /\ \A f \in File \ {wf} : hashes'[f] = hashes[f]
      /\ Index < Len(hashes'[wf]) /\ hashes'[wf][Index + 1] = k
      /\ Len(hashes[wf]) <= Len(hashes'[wf])
      /\ \A b \in 1 .. Len(hashes[wf]) : b # Index + 1 =>
                  hashes'[wf][b] = hashes[wf][b]
      /\ hashes' \in [File -> Seq(Key)]
  BY <1>1, MetafilePut
<1> HIDE DEF Of, Kept
<1>6. ASSUME NEW f \in File, NEW u \in Byte, want'[f][u] # None
      PROVE  /\ u \div g_block_size < Len(hashes'[f])
             /\ HasByte(record', hashes'[f][u \div g_block_size + 1], u, want'[f][u])
  <2> DEFINE d == u \div g_block_size
             r == u % g_block_size
  <2>1. d \in Nat /\ Len(hashes[wf]) \in Nat /\ Len(hashes'[wf]) \in Nat
    <3>1. u \in Nat
      BY Sizes
    <3>2. d \in Nat
      BY <3>1, DivMod
    <3>3. hashes[wf] \in Seq(Key) /\ hashes'[wf] \in Seq(Key)
      BY <1>1, <1>5 DEF TypeOK
    <3> QED
      BY <3>2, <3>3
  <2>2. want[f][u] # None => d < Len(hashes[f]) /\ HasByte(record, hashes[f][d + 1], u, want[f][u])
    BY DEF Inv, NamesWritten
  <2>n. ~Erased(f, u) /\ d < Len(hashes[f]) => hashes[f][d + 1] \notin lost
    BY DEF Loses
  <2>3. CASE f # wf
    <3>1. hashes'[f] = hashes[f] /\ want'[f][u] = want[f][u] /\ ~Erased(f, u)
      BY <1>2, <1>5, <1>6, <2>3
    <3> HIDE DEF d, Erased
    <3>2. d < Len(hashes[f]) /\ HasByte(record, hashes[f][d + 1], u, want[f][u])
          /\ hashes[f][d + 1] \notin lost
      BY <1>6, <2>2, <2>n, <3>1
    <3>3. HasByte(record', hashes[f][d + 1], u, want[f][u])
      BY <3>2, Zenon
    <3> QED
      BY <3>1, <3>2, <3>3 DEF d
  <2>4. CASE f = wf /\ ~InBlock(u)
    <3>1. d # Index /\ want'[f][u] = want[f][u] /\ ~Erased(f, u)
      BY <1>2, <1>6, <2>4 DEF InBlock
    <3> HIDE DEF d, Erased
    <3>2. /\ d < Len(hashes[f]) /\ d < Len(hashes'[f]) /\ hashes'[f][d + 1] = hashes[f][d + 1]
          /\ HasByte(record, hashes[f][d + 1], u, want[f][u]) /\ hashes[f][d + 1] \notin lost
      BY <1>1, <1>5, <1>6, <2>1, <2>2, <2>n, <2>4, <3>1
    <3>3. HasByte(record', hashes[f][d + 1], u, want[f][u])
      BY <3>2, Zenon
    <3> QED
      BY <3>1, <3>2, <3>3 DEF d
  <2>5. CASE f = wf /\ InBlock(u)
    <3>1. d = Index /\ d < Len(hashes'[f]) /\ hashes'[f][d + 1] = k
      BY <1>5, <2>5 DEF InBlock
    <3>2. CASE Of(u)
      <4>1. k[r] = want'[f][u]
        BY <1>2, <1>4, <2>5, <3>2
      <4> QED
        BY <3>1, <4>1 DEF HasByte
    <3>3. CASE ~Of(u)
      <4>1. Kept(u) /\ want'[f][u] = want[f][u]
        BY <1>2, <1>6, <2>5, <3>3
      <4>2. d < Len(hashes[f]) /\ HasByte(record, hashes[f][d + 1], u, want[f][u])
        BY <1>6, <2>2, <4>1
      <4>3. OldKey = hashes[f][d + 1]
        BY <2>5, <3>1, <4>2 DEF OldKey
      <4>4. OldKey[r] = want[f][u]
        BY <4>2, <4>3 DEF HasByte
      <4>5. k[r] = want'[f][u]
        BY <1>4, <3>3, <4>1, <4>4
      <4> QED
        BY <3>1, <4>5 DEF HasByte
    <3> QED
      BY <3>2, <3>3
  <2> QED
    BY <2>3, <2>4, <2>5
<1>7. NamesWritten'
  BY <1>6 DEF NamesWritten, Byte, MaxSize
<1>8. ASSUME NEW f \in File, NEW u \in Byte, want'[f][u] # None, want[f][u] = None
      PROVE  f = wf /\ op.i <= u /\ u < op.i + To - From
  <2>1. f = wf /\ InBlock(u) /\ Of(u)
    BY <1>2, <1>8
  <2> QED
    BY <1>3, <2>1
<1> QED
  BY <1>2, <1>7, <1>8

(* The fingerprints of the other blocks stay, and what they name unless    *)
(* its record is lost.                                                     *)
LEMMA OtherNamesStay ==
    ASSUME Inv, Writing, NEW k \in Key, Metafile(k), NEW lost,
           \A q, u, byte : HasByte(record, q, u, byte) /\ q \notin lost
                        => HasByte(record', q, u, byte),
           \A f \in File : \A u \in Byte : want'[f][u] # None =>
               /\ want'[f][u] = want[f][u] /\ ~Loses(f, u, lost)
               /\ f = wf => ~InBlock(u)
    PROVE  NamesWritten'
<1>1. /\ \A f \in File \ {wf} : hashes'[f] = hashes[f]
      /\ Len(hashes[wf]) <= Len(hashes'[wf])
      /\ \A b \in 1 .. Len(hashes[wf]) : b # Index + 1 =>
                  hashes'[wf][b] = hashes[wf][b]
      /\ hashes' \in [File -> Seq(Key)]
  BY MetafilePut
<1>2. TypeOK /\ wf \in File /\ Index \in Int
  BY Iteration DEF Inv
<1>3. hashes[wf] \in Seq(Key) /\ hashes'[wf] \in Seq(Key)
  BY <1>1, <1>2 DEF TypeOK
<1>4. ASSUME NEW f \in File, NEW u \in Byte, want'[f][u] # None
      PROVE  /\ u \div g_block_size < Len(hashes'[f])
             /\ HasByte(record', hashes'[f][u \div g_block_size + 1], u, want'[f][u])
  <2> DEFINE d == u \div g_block_size
  <2>1. d \in Nat
    <3>1. u \in Nat
      BY Sizes
    <3> QED
      BY <3>1, DivMod
  <2>2. d < Len(hashes[f]) /\ HasByte(record, hashes[f][d + 1], u, want[f][u])
    BY <1>4 DEF Inv, NamesWritten
  <2>3. (f = wf => d # Index) /\ hashes[f][d + 1] \notin lost
    BY <1>4, <2>2 DEF InBlock, Loses
  <2> HIDE DEF d
  <2>5. HasByte(record', hashes[f][d + 1], u, want[f][u])
    BY <2>2, <2>3, Zenon
  <2>4. d < Len(hashes'[f]) /\ hashes'[f][d + 1] = hashes[f][d + 1]
    <3>1. CASE f = wf
      <4>1. Len(hashes[wf]) \in Nat /\ Len(hashes'[wf]) \in Nat
        BY <1>3
      <4>2. d + 1 \in 1 .. Len(hashes[wf]) /\ d + 1 # Index + 1
        BY <1>2, <2>1, <2>2, <2>3, <3>1, <4>1
      <4>3. hashes'[wf][d + 1] = hashes[wf][d + 1]
        BY <1>1, <4>2
      <4>4. d < Len(hashes'[wf])
        BY <1>1, <2>1, <2>2, <3>1, <4>1
      <4> QED
        BY <3>1, <4>3, <4>4
    <3>2. CASE f # wf
      BY <1>1, <2>2, <3>2
    <3> QED
      BY <3>1, <3>2
  <2> QED
    BY <1>4, <2>4, <2>5 DEF d
<1> QED
  BY <1>4 DEF NamesWritten, Byte, MaxSize

(* The three ends of a block: it is written. *)
LEMMA WriteBlockKeeps ==
    ASSUME Inv, NEW old, NEW got \in CanGet(old), NEW left \in free .. MaxFree,
           NEW lost, WriteBlock(old, got, left, lost)
    PROVE  Inv'
<1> DEFINE new == NewBlock(old, got)
<1>f. faults' \in 0 .. MaxFaults
  <2>1. (faults < MaxFaults /\ faults' = faults + 1) \/ UNCHANGED faults
    BY Zenon DEF WriteBlock, Faulty
  <2> QED
    BY <2>1, FaultsInRange
<1>l. left \in 0 .. MaxFree
  BY FileAssumption DEF Inv, TypeOK
<1>1. /\ Writing /\ Metafile(new) /\ HeaderExists
      /\ Rewritten(old, got, lost)
      /\ op' = [op EXCEPT !.i = op.i + To - From, !.hash_key = new]
      /\ \/ free' = left /\ new \notin lost /\ Known(new) /\ record' = Without(lost)
              /\ UNCHANGED <<chunk, cur_size>>
         \/ /\ TakeChunk(left)
            /\ record' = [Without(lost) EXCEPT ![new] = Taken(left)]
            /\ chunk' = [chunk EXCEPT ![Taken(left)] = new]
      /\ UNCHANGED <<names, fh, ops, wantSize, mixed>>
  BY DEF WriteBlock, Deleting
<1>2. TypeOK /\ OpInside /\ op \in WriteOp
  BY <1>1 DEF Inv, TypeOK, Writing
<1>3. PICK k \in Block : k = new
  BY <1>1, BlockMade
<1> HIDE DEF new
<1>5. /\ record' \in [Block -> Chunk \cup {None}] /\ chunk' \in [Chunk -> Block]
      /\ cur_size' \in 0 .. Chunks /\ free' \in 0 .. MaxFree
      /\ ChunksKept' /\ record'[k] # None
      /\ \A q, u, byte : HasByte(record, q, u, byte) /\ q \notin lost
                       => HasByte(record', q, u, byte)
  <2>1. CASE free' = left /\ new \notin lost /\ Known(new) /\ record' = Without(lost)
               /\ UNCHANGED <<chunk, cur_size>>
    <3>1. /\ record' \in [Block -> Chunk \cup {None}]
          /\ \A q \in Block : record'[q] = IF q \in lost THEN None ELSE record[q]
          /\ \A q, u, byte : HasByte(record, q, u, byte) /\ q \notin lost
                           => HasByte(record', q, u, byte)
      BY <2>1, RecordsLost, Zenon
    <3>2. ChunksKept'
      BY <2>1, <3>1 DEF Inv, ChunksKept, Block
    <3>3. record'[k] # None
      BY <1>3, <2>1, <3>1 DEF Known
    <3> QED
      BY <1>2, <1>l, <2>1, <3>1, <3>2, <3>3 DEF TypeOK
  <2>2. CASE /\ TakeChunk(left)
             /\ record' = [Without(lost) EXCEPT ![k] = Taken(left)]
             /\ chunk' = [chunk EXCEPT ![Taken(left)] = k]
    <3>1. Taken(left) # None
      BY <1>l, <2>2, ChunkTaken, FileAssumption
    <3>2. record'[k] # None
      <4>1. Without(lost) \in [Block -> Chunk \cup {None}]
        BY RecordsLost
      <4> QED
        BY <2>2, <3>1, <4>1
    <3> QED
      BY <1>l, <2>2, <3>2, StoreKeeps
  <2> QED
    BY <1>1, <1>3, <2>1, <2>2
<1>6. /\ want' \in [File -> [Byte -> Fill \cup {None}]] /\ NamesWritten'
      /\ \A f \in File : \A u \in Byte : want'[f][u] # None =>
             \/ want[f][u] # None
             \/ f = wf /\ op.i <= u /\ u < op.i + To - From
  BY <1>1, <1>3, <1>5, BlockNamesIt DEF new
<1>7. header' \in [File -> Size \cup {None}] /\ SizesAgree' /\ HandlesOpen'
  BY <1>1, HeaderKeeps
<1>8. hashes' \in [File -> Seq(Key)] /\ \A f \in File : Len(hashes'[f]) <= Blocks
  <2>1. k \in Key
    BY DEF Key
  <2> QED
    BY <1>1, <1>3, <2>1, MetafilePut
<1> DEFINE next == op.i + To - From
<1>9. /\ next \in Size /\ op.i < next /\ next <= op.offset + op.size
      /\ op.i \in Nat /\ op.offset \in Nat /\ op.offset <= op.i /\ wf \in File
  <2>1. /\ op.i \in Byte /\ op.offset \in Byte /\ op.size \in Nat /\ wf \in File
        /\ From \in 0 .. g_block_size - 1 /\ To \in From + 1 .. g_block_size
        /\ next <= op.offset + op.size
    BY <1>1, <1>2, Iteration
  <2>2. op.offset <= op.i /\ op.offset + op.size <= MaxSize
    BY <1>1, <1>2 DEF OpInside, Writing
  <2> HIDE DEF next
  <2>3. op.i < next /\ next \in Int
    BY <2>1, Sizes DEF next
  <2> QED
    BY <2>1, <2>2, <2>3, Sizes
<1> HIDE DEF next
<1>10. /\ op' \in WriteOp /\ op'.fh = op.fh /\ op'.offset = op.offset
       /\ op'.size = op.size /\ op'.i = next /\ op'.st_size = op.st_size
  BY <1>1, <1>2, <1>3, <1>9 DEF WriteOp, Key, next
<1>11. TypeOK'
  BY <1>1, <1>2, <1>f, <1>5, <1>6, <1>7, <1>8, <1>10 DEF TypeOK
<1>a. op' # None /\ op # None
  BY <1>1, <1>10, FileAssumption DEF Writing
<1>12. OpInside'
  <2>1. op.offset <= next
    BY <1>9, Sizes
  <2> QED
    BY <1>1, <1>2, <1>9, <1>10, <1>a, <2>1 DEF OpInside, MaxSize
<1>13. InsideSize'
  <2> SUFFICES ASSUME NEW f \in File, NEW u \in Byte, want'[f][u] # None
               PROVE  \/ u < wantSize'[f]
                      \/ op' # None /\ f = wf' /\ op'.offset <= u /\ u < op'.i
    BY DEF InsideSize, Byte, MaxSize
  <2>1. wf' = wf
    BY <1>1, <1>10 DEF wf
  <2>2. u \in Nat /\ next \in Nat
    BY <1>9, Sizes
  <2>3. CASE want[f][u] # None
    <3>1. u < wantSize[f] \/ (f = wf /\ op.offset <= u /\ u < op.i)
      BY <2>3 DEF Inv, InsideSize
    <3> QED
      BY <1>1, <1>9, <1>10, <1>a, <2>1, <2>2, <3>1
  <2>4. CASE f = wf /\ op.i <= u /\ u < next
    BY <1>9, <1>10, <1>a, <2>1, <2>2, <2>4
  <2> QED
    BY <1>6, <2>3, <2>4 DEF next
<1> QED
  BY <1>5, <1>6, <1>7, <1>11, <1>12, <1>13 DEF Inv

(* put_new_chunk fails: the metadata may name a block that is not there,   *)
(* and nothing is promised of it any more.                                 *)
LEMMA PutFailsKeeps ==
    ASSUME Inv, NEW old, NEW got \in CanGet(old), NEW left \in free .. MaxFree,
           NEW lost, WriteBlockPutFails(old, got, left, lost)
    PROVE  Inv'
<1> DEFINE new == NewBlock(old, got)
<1>f. faults' \in 0 .. MaxFaults
  <2>1. (faults < MaxFaults /\ faults' = faults + 1) \/ UNCHANGED faults
    BY Zenon DEF WriteBlockPutFails, Faulty
  <2> QED
    BY <2>1, FaultsInRange
<1>l. left \in 0 .. MaxFree
  BY FileAssumption DEF Inv, TypeOK
<1>1. /\ Writing /\ Metafile(new) /\ HeaderExists /\ record' = Without(lost)
      /\ \/ free' = left /\ UNCHANGED <<chunk, cur_size>>
         \/ /\ TakeChunk(left)
            /\ \E n \in 0 .. g_block_size :
                  chunk' = [chunk EXCEPT ![Taken(left)] = Pwritten(Taken(left), new, n)]
      /\ Failed(TRUE, lost) /\ UNCHANGED <<names, fh, ops, wantSize, mixed>>
  BY DEF WriteBlockPutFails, Deleting
<1>2. TypeOK /\ OpInside /\ wf \in File
  BY <1>1, Iteration DEF Inv
<1>3. PICK k \in Block : k = new
  BY <1>1, BlockMade
<1> HIDE DEF new
<1>r. /\ record' \in [Block -> Chunk \cup {None}]
      /\ \A q \in Block : record'[q] = IF q \in lost THEN None ELSE record[q]
      /\ \A q, u, byte : HasByte(record, q, u, byte) /\ q \notin lost
                       => HasByte(record', q, u, byte)
  BY <1>1, RecordsLost, Zenon
<1>5. /\ chunk' \in [Chunk -> Block] /\ cur_size' \in 0 .. Chunks
      /\ free' \in 0 .. MaxFree /\ ChunksKept'
  <2>1. CASE free' = left /\ UNCHANGED <<chunk, cur_size>>
    <3>1. ChunksKept'
      BY <1>r, <2>1 DEF Inv, ChunksKept, Block
    <3> QED
      BY <1>2, <1>l, <2>1, <3>1 DEF TypeOK
  <2>2. CASE /\ TakeChunk(left)
             /\ \E n \in 0 .. g_block_size :
                   chunk' = [chunk EXCEPT ![Taken(left)] = Pwritten(Taken(left), k, n)]
    <3>1. PICK n \in 0 .. g_block_size :
            chunk' = [chunk EXCEPT ![Taken(left)] = Pwritten(Taken(left), k, n)]
      BY <2>2
    <3>2. Taken(left) \in Chunk
      BY <1>l, <2>2, ChunkTaken
    <3>3. Pwritten(Taken(left), k, n) \in Block
      <4> DEFINE data == chunk[Taken(left)]
      <4>1. data \in Block
        BY <1>2, <3>2 DEF TypeOK
      <4>2. Pwritten(Taken(left), k, n) =
              [j \in 0 .. g_block_size - 1 |-> IF j < n THEN k[j] ELSE data[j]]
        BY DEF Pwritten
      <4> HIDE DEF data
      <4> QED
        BY <4>1, <4>2 DEF Block
    <3>4. PICK b \in Block : b = Pwritten(Taken(left), k, n)
      BY <3>3
    <3> QED
      BY <1>1, <1>l, <2>2, <3>1, <3>4, StoreKeeps
  <2> QED
    BY <1>1, <1>3, <2>1, <2>2
<1>6. /\ want' \in [File -> [Byte -> Fill \cup {None}]]
      /\ OpInside' /\ InsideSize' /\ op' = None
      /\ \A f \in File : \A u \in Byte : want'[f][u] # None =>
             /\ want'[f][u] = want[f][u] /\ ~Loses(f, u, lost)
             /\ f = wf => ~InBlock(u)
  BY <1>1, FailedKeeps
<1>7. header' \in [File -> Size \cup {None}] /\ SizesAgree' /\ HandlesOpen'
  BY <1>1, HeaderKeeps
<1>8. k \in Key /\ Metafile(k)
  BY <1>1, <1>3 DEF Key
<1>10. NamesWritten'
  BY <1>1, <1>r, <1>6, <1>8, OtherNamesStay
<1>9. TypeOK'
  BY <1>1, <1>2, <1>f, <1>r, <1>5, <1>6, <1>7, <1>8, MetafilePut DEF TypeOK
<1> QED
  BY <1>5, <1>6, <1>7, <1>9, <1>10 DEF Inv

(* The metadata file takes nothing of the fingerprint, or part of it. *)
LEMMA MetaFailsKeeps ==
    ASSUME Inv, NEW old, NEW got \in CanGet(old), NEW left \in free .. MaxFree,
           NEW lost, WriteBlockMetaFails(old, got, left, lost)
    PROVE  Inv'
<1>f. faults' \in 0 .. MaxFaults
  <2>1. (faults < MaxFaults /\ faults' = faults + 1) \/ UNCHANGED faults
    BY Zenon DEF WriteBlockMetaFails, Faulty
  <2> QED
    BY <2>1, FaultsInRange
<1>l. left \in 0 .. MaxFree
  BY FileAssumption DEF Inv, TypeOK
<1>1. /\ Writing /\ free' = left /\ record' = Without(lost)
      /\ UNCHANGED <<names, fh, chunk, cur_size, ops, wantSize, mixed>>
      /\ \/ UNCHANGED meta /\ Failed(FALSE, lost)
         \/ Metafile(Garbage) /\ HeaderExists /\ Failed(TRUE, lost)
  BY DEF WriteBlockMetaFails, Deleting
<1>2. TypeOK /\ OpInside /\ wf \in File
  BY <1>1, Iteration DEF Inv
<1>r. /\ record' \in [Block -> Chunk \cup {None}]
      /\ \A q \in Block : record'[q] = IF q \in lost THEN None ELSE record[q]
      /\ \A q, u, byte : HasByte(record, q, u, byte) /\ q \notin lost
                       => HasByte(record', q, u, byte)
  BY <1>1, RecordsLost, Zenon
<1>4. PICK k \in Key : k = Garbage
  BY DEF Key
<1>5. /\ want' \in [File -> [Byte -> Fill \cup {None}]]
      /\ OpInside' /\ InsideSize' /\ op' = None
      /\ \A f \in File : \A u \in Byte : want'[f][u] # None =>
             want'[f][u] = want[f][u] /\ ~Loses(f, u, lost)
  BY <1>1, FailedKeeps
<1>6. header' \in [File -> Size \cup {None}] /\ SizesAgree' /\ HandlesOpen'
  BY <1>1, HeaderKeeps DEF meta
<1>7. /\ hashes' \in [File -> Seq(Key)] /\ \A f \in File : Len(hashes'[f]) <= Blocks
      /\ NamesWritten'
  <2>1. CASE UNCHANGED meta /\ Failed(FALSE, lost)
    <3>1. ASSUME NEW f \in File, NEW u \in Byte, want'[f][u] # None
          PROVE  /\ u \div g_block_size < Len(hashes[f])
                 /\ HasByte(record', hashes[f][u \div g_block_size + 1], u, want'[f][u])
      <4> DEFINE d == u \div g_block_size
      <4>1. want'[f][u] = want[f][u] /\ ~Loses(f, u, lost)
        BY <1>5, <3>1
      <4>2. d < Len(hashes[f]) /\ HasByte(record, hashes[f][d + 1], u, want[f][u])
        BY <3>1, <4>1 DEF Inv, NamesWritten
      <4>3. hashes[f][d + 1] \notin lost
        BY <4>1, <4>2 DEF Loses
      <4> HIDE DEF d
      <4>4. HasByte(record', hashes[f][d + 1], u, want[f][u])
        BY <1>r, <4>2, <4>3, Zenon
      <4> QED
        BY <4>1, <4>2, <4>4 DEF d
    <3>2. NamesWritten'
      BY <2>1, <3>1 DEF NamesWritten, Byte, MaxSize, meta
    <3> QED
      BY <1>2, <2>1, <3>2 DEF TypeOK, meta
  <2>2. CASE Metafile(k) /\ Failed(TRUE, lost)
    <3>1. \A f \in File : \A u \in Byte : want'[f][u] # None =>
             /\ want'[f][u] = want[f][u] /\ ~Loses(f, u, lost)
             /\ f = wf => ~InBlock(u)
      BY <1>1, <2>2, FailedKeeps
    <3>2. NamesWritten'
      BY <1>1, <1>r, <2>2, <3>1, OtherNamesStay
    <3> QED
      BY <1>1, <2>2, <3>2, MetafilePut
  <2> QED
    BY <1>1, <1>4, <2>1, <2>2
<1>8. TypeOK'
  BY <1>1, <1>2, <1>f, <1>l, <1>r, <1>5, <1>6, <1>7 DEF TypeOK
<1>9. ChunksKept'
  BY <1>1, <1>r DEF Inv, ChunksKept, Block
<1> QED
  BY <1>5, <1>6, <1>7, <1>8, <1>9 DEF Inv

-----------------------------------------------------------------------------
(* The invariants of the run. *)

(* At first no file has data, a name or two of them a size of 0. *)
LEMMA InitInv == Init => Inv
<1> SUFFICES ASSUME Init PROVE Inv
  OBVIOUS
<1>1. 0 \in Size /\ 0 \in 0 .. Chunks /\ 0 \in 0 .. MaxFree /\ 0 \in 0 .. MaxOps
      /\ 0 \in 0 .. MaxFaults /\ InitSize \subseteq 0 .. Chunks
  BY Sizes, FileAssumption
<1>2. <<>> \in Seq(Key) /\ Len(<<>>) <= Blocks
  BY FileAssumption
<1>3. chunk \in [Chunk -> Block]
  BY DEF Init, Block
<1>4. TypeOK
  BY <1>1, <1>2, <1>3 DEF Init, TypeOK, Closed
<1>5. ChunksKept /\ NamesWritten /\ OpInside /\ InsideSize
  BY DEF Init, ChunksKept, NamesWritten, OpInside, InsideSize
<1>6. SizesAgree /\ HandlesOpen
  <2>1. \A f \in File : Handles(f) = {} /\ (Links(f) # {} => header[f] = 0)
    BY ClosedIsNoFile DEF Init, Handles, Links
  <2>2. 0 # None
    BY <1>1, ClosedIsNoFile
  <2> QED
    BY <2>1, <2>2 DEF Init, SizesAgree, SizeAgrees, HandlesOpen
<1> QED
  BY <1>4, <1>5, <1>6 DEF Inv

(* What the files reach satisfies Inv. *)
THEOREM FilesInvariant == Spec => []Inv
<1>1. Inv /\ [Next]_vars => Inv'
  <2> SUFFICES ASSUME Inv, [Next]_vars PROVE Inv'
    OBVIOUS
  <2>1. CASE fuse_write
    <3>1. CASE \E h \in Fh, x \in Extent, fill \in Fill : BeginWrite(h, x[1], x[2], fill)
      BY <3>1, BeginKeeps
    <3>2. ASSUME NEW old, NEW got \in CanGet(old), NEW left \in free .. MaxFree, NEW lost,
                 \/ WriteBlock(old, got, left, lost)
                 \/ WriteBlockPutFails(old, got, left, lost)
                 \/ WriteBlockMetaFails(old, got, left, lost)
          PROVE  Inv'
      BY <3>2, WriteBlockKeeps, PutFailsKeeps, MetaFailsKeeps
    <3>3. CASE EndWrite
      BY <3>3, EndKeeps
    <3> QED
      BY <2>1, <3>1, <3>2, <3>3 DEF fuse_write
  <2>2. ASSUME NEW n \in Name,
               \/ fuse_unlink(n)
               \/ \E f \in File : fuse_mknod(n, f) \/ \E h \in Fh : fuse_create(n, f, h)
               \/ \E h \in Fh : fuse_open(n, h)
               \/ \E m \in Name : fuse_rename(n, m) \/ fuse_link(n, m)
               \/ \E size \in NewSize : fuse_truncate(n, size)
        PROVE  Inv'
    BY <2>2, UnlinkKeeps, MknodKeeps, CreateKeeps, OpenKeeps, DirectoryKeeps,
       TruncateKeeps
  <2>3. ASSUME NEW h \in Fh,
               \/ fuse_release(h) \/ fuse_release_fails(h) \/ fuse_fsync(h)
               \/ \E size \in NewSize : fuse_ftruncate(h, size)
        PROVE  Inv'
    BY <2>3, ReleaseKeeps, FsyncKeeps, FtruncateKeeps
  <2>4. CASE UNCHANGED vars
    <3>1. TypeOK' /\ HandlesOpen' /\ OpInside'
      BY <2>4 DEF vars, Inv, TypeOK, HandlesOpen, OpInside, MaxSize, meta, store, ghosts
    <3>2. ChunksKept' /\ NamesWritten'
      BY <2>4 DEF vars, Inv, ChunksKept, NamesWritten, HasByte, Block, Byte, MaxSize,
                  meta, store, ghosts
    <3>3. InsideSize'
      BY <2>4 DEF vars, Inv, InsideSize, wf, Byte, MaxSize, ghosts
    <3>4. SizesAgree'
      BY <2>4 DEF vars, Inv, SizesAgree, SizeAgrees, Handles, Links, meta, ghosts
    <3> QED
      BY <3>1, <3>2, <3>3, <3>4 DEF Inv
  <2> QED
    BY <2>1, <2>2, <2>3, <2>4 DEF Next
<1> QED
  BY InitInv, <1>1, PTL DEF Spec

(* TypeOK holds for blocks, files and stores of any size. *)
THEOREM FilesTypes == Spec => []TypeOK
<1>1. Inv => TypeOK
  BY DEF Inv
<1> QED
  BY FilesInvariant, <1>1, PTL

(* The least upper bound of what a loop has read is the block it is at,   *)
(* if that lies inside the metadata file.                                  *)
LEMMA KeyRead ==
    ASSUME NEW f \in File, hashes[f] \in Seq(Key), NEW offset \in Nat, NEW u \in Nat,
           offset <= u, u \div g_block_size < Len(hashes[f])
    PROVE  ReadKey(f, offset, u, Garbage) = hashes[f][u \div g_block_size + 1]
<1> DEFINE p == offset \div g_block_size
           q == u \div g_block_size
           read == (p .. q) \cap (0 .. Len(hashes[f]) - 1)
           upto == {r \in read : r <= q}
<1>1. p \in Nat /\ q \in Nat /\ p <= q
  <2> DEFINE B == g_block_size
             x == offset % B
             y == u % B
  <2>1. /\ B \in Nat \ {0} /\ p \in Nat /\ q \in Nat /\ x \in 0 .. B - 1 /\ y \in 0 .. B - 1
        /\ offset = B * p + x /\ u = B * q + y
    BY DivMod, FileAssumption
  <2> HIDE DEF p, q, x, y, B
  <2>2. CASE p > q
    <3>1. B * (p - q - 1) >= 0 /\ B * (p - q - 1) = B * p - B * q - B
      BY <2>1, <2>2
    <3>2. B * p \in Int /\ B * q \in Int
      BY <2>1
    <3> QED
      BY <2>1, <3>1, <3>2
  <2> QED
    BY <2>1, <2>2
<1>2. Len(hashes[f]) \in Nat /\ q < Len(hashes[f])
  OBVIOUS
<1>3. ReadKey(f, offset, u, Garbage) =
         IF upto = {} THEN Garbage ELSE hashes[f][Max(upto) + 1]
  BY DEF ReadKey, LoopKey
<1> HIDE DEF p, q
<1>4. q \in upto /\ \A r \in upto : r \in Int /\ q >= r
  BY <1>1, <1>2
<1> HIDE DEF upto
<1>5. \A m \in upto : (\A r \in upto : m >= r) => m = q
  BY <1>1, <1>4
<1>6. Max(upto) = q
  BY <1>4, <1>5, Zenon DEF Max
<1> QED
  BY <1>3, <1>4, <1>6 DEF q

(* Every byte a successful write wrote and nothing cut off, lost or failed *)
(* to carry over since is what any read over it returns, through any       *)
(* handle whose size covers it, and through every handle while the size of *)
(* the file is kept; unless its block lies in chunk 0.                     *)
THEOREM FilesReadWhatWasWritten == Spec => []WrittenIsRead
<1>1. Inv => WrittenIsRead
  <2> SUFFICES ASSUME Inv, NEW f \in File, ~Unused(f), NEW st_size \in SizesSeen(f),
                      NEW offset \in Byte,
                      NEW u \in offset .. MaxSize - 1, want[f][u] # None,
                      u < st_size \/ (f \notin mixed /\ op = None)
               PROVE  \/ InChunkZero(f, offset, u, Garbage)
                      \/ ReadByte(f, st_size, offset, u, Garbage) = want[f][u]
    BY DEF WrittenIsRead
  <2> DEFINE k == hashes[f][u \div g_block_size + 1]
             r == u % g_block_size
  <2>1. u \in Byte /\ u \in Nat /\ offset \in Nat /\ offset <= u
    BY Sizes
  <2>2. u \div g_block_size < Len(hashes[f]) /\ HasByte(record, k, u, want[f][u])
    BY <2>1 DEF Inv, NamesWritten
  <2>3. ReadKey(f, offset, u, Garbage) = k
    BY <2>1, <2>2, KeyRead DEF Inv, TypeOK
  <2>a. u < st_size
    <3>1. CASE f \notin mixed /\ op = None
      <4>1. u < wantSize[f]
        BY <2>1, <3>1 DEF Inv, InsideSize
      <4>2. st_size = wantSize[f]
        BY <3>1 DEF Inv, SizesAgree, SizeAgrees, SizesSeen, fuse_getattr, fuse_fgetattr,
                    OldSize, Unused
      <4> QED
        BY <4>1, <4>2
    <3> QED
      BY <3>1
  <2> HIDE DEF k
  <2>4. Known(k) /\ k[r] = want[f][u]
    BY <2>2 DEF HasByte, Known
  <2>5. record[k] = 0 \/ block_read(k) = k
    BY <2>4 DEF Known, Inv, ChunksKept, block_read
  <2> QED
    BY <2>3, <2>4, <2>5, <2>a DEF InChunkZero, ReadByte
<1> QED
  BY FilesInvariant, <1>1, PTL

(* A file keeps the size its writes and truncations gave it, through       *)
(* handles and header, unless it was one of those in mixed.                *)
THEOREM FilesKeepTheirSize == Spec => []SizeIsKept
<1>1. Inv => SizeIsKept
  <2> SUFFICES ASSUME Inv, NEW f \in File \ mixed, ~Unused(f)
               PROVE  /\ \A st_size \in SizesSeen(f) : st_size = wantSize[f]
                      /\ op = None => \A u \in Byte : want[f][u] # None => u < wantSize[f]
    BY DEF SizeIsKept
  <2>1. SizeAgrees(f)
    BY DEF Inv, SizesAgree
  <2>2. \A st_size \in SizesSeen(f) : st_size = wantSize[f]
    BY <2>1 DEF SizeAgrees, SizesSeen, fuse_getattr, fuse_fgetattr, OldSize, Unused
  <2>3. op = None => \A u \in Byte : want[f][u] # None => u < wantSize[f]
    BY DEF Inv, InsideSize
  <2> QED
    BY <2>2, <2>3
<1> QED
  BY FilesInvariant, <1>1, PTL
-----------------------------------------------------------------------------
(* What a read counts.                                                     *)
(*                                                                         *)
(* ReadCount adds up the iterations in the order CHOOSE takes them.        *)
(* Whatever the order, what any set of them adds up to is a block for each *)
(* of them, and less for the last.                                         *)
Amount(s, L, B, T) == Cardinality(s) * B + (IF L \in s THEN T - B ELSE 0)

(* What adds up a set, an element at a time. *)
Adds(g, c, S) ==
    g = [s \in SUBSET S |->
           IF s = {} THEN 0
           ELSE c[CHOOSE x \in s : TRUE] + g[s \ {CHOOSE x \in s : TRUE}]]

(* Every element adds a block, the last a part of one. *)
AllButLast(c, S, L, B, T) == \A i \in S : c[i] = IF i = L THEN T ELSE B

(* Amount is what adding one more element makes of it. *)
LEMMA AmountGrows ==
    ASSUME NEW s, IsFiniteSet(s), NEW x \in s, NEW L, NEW B \in Int, NEW T \in Int
    PROVE  /\ Amount(s, L, B, T) = (IF x = L THEN T ELSE B) + Amount(s \ {x}, L, B, T)
           /\ Amount(s, L, B, T) \in Int
<1> DEFINE n == Cardinality(s)
           m == Cardinality(s \ {x})
<1>1. n \in Nat /\ m \in Nat /\ m = n - 1
  BY FS_CardinalityType, FS_RemoveElement
<1>2. /\ Amount(s, L, B, T) = n * B + (IF L \in s THEN T - B ELSE 0)
      /\ Amount(s \ {x}, L, B, T) = m * B + (IF L \in s \ {x} THEN T - B ELSE 0)
  BY DEF Amount
<1> HIDE DEF n, m
<1>3. /\ n * B \in Int /\ m * B \in Int /\ n * B = m * B + B
  BY <1>1
<1>4. CASE x = L
  <2>1. /\ Amount(s, L, B, T) = n * B + (T - B)
        /\ Amount(s \ {x}, L, B, T) = m * B + 0
    BY <1>2, <1>4
  <2> QED
    BY <1>3, <1>4, <2>1
<1>5. CASE x # L
  <2> DEFINE d == IF L \in s THEN T - B ELSE 0
  <2>1. /\ Amount(s, L, B, T) = n * B + d
        /\ Amount(s \ {x}, L, B, T) = m * B + d
    BY <1>2, <1>5
  <2>2. d \in Int
    OBVIOUS
  <2> HIDE DEF d
  <2> QED
    BY <1>3, <1>5, <2>1, <2>2
<1> QED
  BY <1>4, <1>5

(* No iterations, no bytes. *)
LEMMA AmountOfNone ==
    ASSUME NEW L, NEW B \in Int, NEW T \in Int
    PROVE  Amount({}, L, B, T) = 0
BY FS_EmptySet DEF Amount

(* Amount adds up any set. *)
LEMMA AmountAdds ==
    ASSUME NEW S, IsFiniteSet(S), NEW c, NEW L, NEW B \in Int, NEW T \in Int,
           AllButLast(c, S, L, B, T)
    PROVE  Adds([s \in SUBSET S |-> Amount(s, L, B, T)], c, S)
<1> DEFINE W == [s \in SUBSET S |-> Amount(s, L, B, T)]
           step(s) == IF s = {} THEN 0
                      ELSE c[CHOOSE x \in s : TRUE] + W[s \ {CHOOSE x \in s : TRUE}]
<1>1. ASSUME NEW s \in SUBSET S
      PROVE  Amount(s, L, B, T) = step(s)
  <2>1. CASE s = {}
    BY <2>1, AmountOfNone
  <2>2. CASE s # {}
    <3> DEFINE x == CHOOSE x \in s : TRUE
    <3>1. x \in s
      BY <2>2
    <3> HIDE DEF x
    <3>2. W[s \ {x}] = Amount(s \ {x}, L, B, T)
      OBVIOUS
    <3>3. c[x] = IF x = L THEN T ELSE B
      BY <3>1 DEF AllButLast
    <3>4. Amount(s, L, B, T) = c[x] + W[s \ {x}]
      <4>1. IsFiniteSet(s)
        BY FS_Subset
      <4>2. Amount(s, L, B, T) = (IF x = L THEN T ELSE B) + Amount(s \ {x}, L, B, T)
        BY <3>1, <4>1, AmountGrows
      <4> QED
        BY <3>2, <3>3, <4>2
    <3> QED
      BY <2>2, <3>4 DEF x
  <2> QED
    BY <2>1, <2>2
<1>2. W = [s \in SUBSET S |-> step(s)]
  <2> HIDE DEF step
  <2> QED
    BY <1>1
<1> QED
  BY <1>2 DEF Adds

(* A set of numbers has a least: how a recursive definition is followed.   *)
LEMMA Least ==
    ASSUME NEW T \in SUBSET Nat, T # {}
    PROVE  \E x \in T : \A y \in T : x <= y
<1>1. IsWellFoundedOn(OpToRel(<, Nat), Nat)
  BY NatLessThanWellFounded, Zenon
<1>2. PICK x \in T : \A y \in T : ~(<<y, x>> \in OpToRel(<, Nat))
  BY <1>1, WFMin, Zenon
<1>3. \A y \in T : <<y, x>> \in OpToRel(<, Nat) <=> y < x
  BY DEF OpToRel
<1>4. \A y \in T : ~(y < x)
  BY <1>2, <1>3, Zenon
<1>5. \A y \in T : x <= y
  BY <1>4
<1> QED
  BY <1>5

(* And whatever adds it up comes to the same.                              *)
LEMMA AddsUp ==
    ASSUME NEW S, IsFiniteSet(S), NEW c, NEW L, NEW B \in Int, NEW T \in Int,
           AllButLast(c, S, L, B, T), NEW g, Adds(g, c, S)
    PROVE  g[S] = Amount(S, L, B, T)
<1> DEFINE Bad == {s \in SUBSET S : g[s] # Amount(s, L, B, T)}
           Counts == {Cardinality(s) : s \in Bad}
<1>1. \A s \in SUBSET S : IsFiniteSet(s) /\ Cardinality(s) \in Nat
  BY FS_Subset, FS_CardinalityType
<1>2. SUFFICES ASSUME Bad # {} PROVE FALSE
  BY <1>2
<1>3. Counts \in SUBSET Nat /\ Counts # {}
  BY <1>1, <1>2
<1>4. PICK n \in Counts : \A m \in Counts : n <= m
  BY <1>3, Least
<1>5. PICK s \in Bad : Cardinality(s) = n
  BY <1>4
<1>6. IsFiniteSet(s) /\ s \in SUBSET S /\ g[s] # Amount(s, L, B, T)
  BY <1>1, <1>5
<1>7. g[s] = IF s = {} THEN 0
             ELSE c[CHOOSE x \in s : TRUE] + g[s \ {CHOOSE x \in s : TRUE}]
  BY <1>6, Zenon DEF Adds
<1>8. CASE s = {}
  BY <1>6, <1>7, <1>8, AmountOfNone
<1>9. CASE s # {}
  <2> DEFINE x == CHOOSE x \in s : TRUE
             r == s \ {x}
  <2>1. x \in s /\ x \in S
    BY <1>6, <1>9
  <2>2. g[s] = c[x] + g[r]
    BY <1>7, <1>9
  <2> HIDE DEF x
  <2>3. c[x] = IF x = L THEN T ELSE B
    BY <2>1 DEF AllButLast
  <2>4. Amount(s, L, B, T) = (IF x = L THEN T ELSE B) + Amount(r, L, B, T)
    BY <1>6, <2>1, AmountGrows
  <2>5. r \in SUBSET S /\ Cardinality(r) = Cardinality(s) - 1
    BY <1>6, <2>1, FS_RemoveElement
  <2>6. r \in Bad
    BY <1>6, <2>2, <2>3, <2>4, <2>5
  <2>7. Cardinality(r) \in Counts /\ Cardinality(s) \in Nat
    BY <1>1, <1>6, <2>6
  <2>8. PICK a \in Int, b \in Int : a = Cardinality(s) /\ b = Cardinality(r)
    BY <2>5, <2>7
  <2>9. b = a - 1 /\ ~(b = a - 1 /\ a <= b)
    BY <2>5, <2>8
  <2>10. a <= b
    <3> HIDE DEF r, Counts
    <3> QED
      BY <1>4, <1>5, <2>7, <2>8, Zenon
  <2> QED
    BY <2>9, <2>10
<1> QED
  BY <1>8, <1>9
(* The multiples of a number between two of its multiples, counted. *)
LEMMA Multiples ==
    ASSUME NEW B \in Nat \ {0}, NEW p \in Nat, NEW q \in Nat, p <= q
    PROVE  /\ IsFiniteSet({B * j : j \in p .. q})
           /\ Cardinality({B * j : j \in p .. q}) = q - p + 1
<1> DEFINE f == [j \in p .. q |-> B * j]
           S == {B * j : j \in p .. q}
<1>1. f \in Surjection(p .. q, S)
  BY DEF Surjection
<1>2. \A j, k \in p .. q : B * j = B * k => j = k
  <2> TAKE j, k \in p .. q
  <2> HAVE B * j = B * k
  <2>1. j < k => B * (k - j) > 0
    OBVIOUS
  <2>2. k < j => B * (j - k) > 0
    OBVIOUS
  <2>3. B * (k - j) = B * k - B * j /\ B * (j - k) = B * j - B * k
    OBVIOUS
  <2> QED
    BY <2>1, <2>2, <2>3
<1>3. f \in Injection(p .. q, S)
  BY <1>1, <1>2 DEF Injection, IsInjective, Surjection
<1>4. ExistsBijection(p .. q, S)
  BY <1>1, <1>3 DEF ExistsBijection, Bijection
<1>5. IsFiniteSet(p .. q) /\ Cardinality(p .. q) = q - p + 1
  <2>1. \A a, b \in Int : a <= b =>
           IsFiniteSet(a .. b) /\ Cardinality(a .. b) = b - a + 1
    BY FS_Interval
  <2>2. p \in Int /\ q \in Int
    OBVIOUS
  <2> QED
    BY <2>1, <2>2
<1> QED
  BY <1>4, <1>5, FS_Bijection

(* The iterations of a read that starts at block p: one at the start of    *)
(* each block up to the one its last byte lies in.                         *)
LEMMA IterationsAre ==
    ASSUME NEW p \in Nat, NEW end \in Nat, g_block_size * p < end
    PROVE  LET q == (end - 1) \div g_block_size
           IN  /\ q \in Nat /\ p <= q
               /\ g_block_size * q < end /\ end <= g_block_size * q + g_block_size
               /\ Iterations(g_block_size * p, end) = {g_block_size * j : j \in p .. q}
<1> DEFINE B == g_block_size
           q == (end - 1) \div B
           S == Iterations(B * p, end)
<1>1. B \in Nat \ {0}
  BY FileAssumption
<1>2. B * p \in Nat /\ end - 1 \in Nat
  BY <1>1
<1>3. q \in Nat /\ B * q <= end - 1 /\ end - 1 < B * q + B
  <2>1. \E r \in 0 .. B - 1 : end - 1 = B * q + r
    BY <1>2, DivMod
  <2>2. q \in Nat
    BY <1>2, DivMod
  <2>3. B * q \in Nat
    BY <1>1, <2>2
  <2> HIDE DEF q, B
  <2> QED
    BY <1>1, <2>1, <2>2, <2>3
<1>4. \A j, k \in Nat : B * j < B * k + B => j <= k
  <2> HIDE DEF B
  <2> TAKE j, k \in Nat
  <2> HAVE B * j < B * k + B
  <2>1. j > k => B * (j - k - 1) >= 0
    BY <1>1
  <2>2. B * (j - k - 1) = B * j - B * k - B
    BY <1>1
  <2> QED
    BY <1>1, <2>1, <2>2
<1>5. \A j, k \in Nat : j <= k => B * j <= B * k
  <2> HIDE DEF B
  <2> TAKE j, k \in Nat
  <2> HAVE j <= k
  <2>1. B * (k - j) >= 0
    BY <1>1
  <2>2. B * (k - j) = B * k - B * j
    BY <1>1
  <2> QED
    BY <1>1, <2>1, <2>2
<1>6. \A j \in Nat : B * j \in Nat /\ (B * j) % B = 0
  BY <1>1
<1>7. \A i \in Nat : i % B = 0 => i \div B \in Nat /\ i = B * (i \div B)
  <2> TAKE i \in Nat
  <2>1. /\ i \div B \in Nat /\ i % B \in 0 .. B - 1
        /\ i = B * (i \div B) + (i % B)
    BY DivMod
  <2> QED
    BY <1>1, <2>1
<1> HIDE DEF q
<1>8. p <= q
  <2>1. B * p < B * q + B
    BY <1>1, <1>2, <1>3
  <2> QED
    BY <1>3, <1>4, <2>1
<1>9. ASSUME NEW i \in S
      PROVE  i \in {B * j : j \in p .. q}
  <2>1. i \in Nat /\ B * p <= i /\ i <= end - 1 /\ i % B = 0
    BY <1>2, <1>6, <1>9 DEF Iterations
  <2> DEFINE j == i \div B
  <2>2. j \in Nat /\ i = B * j
    BY <1>7, <2>1
  <2> HIDE DEF j, B
  <2>3. B * p < B * j + B /\ B * j < B * q + B
    BY <1>1, <1>2, <1>3, <2>1, <2>2
  <2>4. j \in p .. q
    BY <1>3, <1>4, <2>2, <2>3
  <2> QED
    BY <2>2, <2>4
<1>10. ASSUME NEW j \in p .. q
       PROVE  B * j \in S
  <2>1. j \in Nat /\ B * p <= B * j /\ B * j <= B * q
    BY <1>3, <1>5
  <2>2. B * j \in B * p .. end - 1 /\ (B * j) % B = 0
    BY <1>1, <1>2, <1>3, <1>6, <2>1
  <2> QED
    BY <2>2 DEF Iterations
<1>11. S = {B * j : j \in p .. q}
  BY <1>9, <1>10
<1> QED
  <2>1. B * q < end /\ end <= B * q + B
    <3>1. B * q \in Nat
      BY <1>1, <1>3
    <3> HIDE DEF B
    <3> QED
      BY <1>1, <1>2, <1>3, <3>1
  <2> QED
    BY <1>3, <1>8, <1>11, <2>1, Zenon DEF q

(* The iterations in S find their blocks, and get T bytes of block L and   *)
(* all of every other.                                                     *)
Finds(h, offset, size, S, L, T) ==
    \A i \in S :
        /\ Known(ReadKey(fh[h].file, offset, i, Garbage))
        /\ Min({g_block_size, offset + size - i}) = IF i = L THEN T ELSE g_block_size

(* Where all blocks are known, the sum is taken over a set in which all    *)
(* but the last iteration get a block.                                     *)
LEMMA CountIs ==
    ASSUME NEW h \in Fh, NEW offset \in Nat, NEW size \in Nat,
           offset + size <= fh[h].st_size, fh[h].st_size \in Nat,
           IsFiniteSet(Iterations(offset, offset + size)), NEW L, NEW T \in Int,
           Finds(h, offset, size, Iterations(offset, offset + size), L, T)
    PROVE  ReadCount(h, offset, size, Garbage)
             = Amount(Iterations(offset, offset + size), L, g_block_size, T)
<1> DEFINE S    == Iterations(offset, offset + size)
           e(i) == IF Known(ReadKey(fh[h].file, offset, i, Garbage))
                   THEN Min({g_block_size, offset + size - i}) ELSE -1
           c    == [i \in S |-> e(i)]
           R(g) == g = [s \in SUBSET S |->
                          IF s = {} THEN 0
                          ELSE e(CHOOSE x \in s : TRUE) + g[s \ {CHOOSE x \in s : TRUE}]]
<1>1. Min({offset + size, fh[h].st_size}) = offset + size
  BY MinOfTwo
<1>2. ReadCount(h, offset, size, Garbage) = (CHOOSE g : R(g))[S]
  BY <1>1 DEF ReadCount, MapThenSumSet, MapThenFoldSet
<1>a. IsFiniteSet(S) /\ Finds(h, offset, size, S, L, T)
  OBVIOUS
<1> HIDE DEF S
<1>3. \A g : R(g) <=> Adds(g, c, S)
  <2> TAKE g
  <2>1. \A s \in SUBSET S : s # {} => e(CHOOSE x \in s : TRUE) = c[CHOOSE x \in s : TRUE]
    <3> HIDE DEF e
    <3> QED
      OBVIOUS
  <2> DEFINE u(s) == IF s = {} THEN 0
                     ELSE e(CHOOSE x \in s : TRUE) + g[s \ {CHOOSE x \in s : TRUE}]
             v(s) == IF s = {} THEN 0
                     ELSE c[CHOOSE x \in s : TRUE] + g[s \ {CHOOSE x \in s : TRUE}]
  <2>2. \A s \in SUBSET S : u(s) = v(s)
    <3> HIDE DEF e, c
    <3> QED
      BY <2>1
  <2>3. (R(g) <=> g = [s \in SUBSET S |-> u(s)])
        /\ (Adds(g, c, S) <=> g = [s \in SUBSET S |-> v(s)])
    <3> HIDE DEF e, c
    <3> QED
      BY Zenon DEF Adds
  <2>4. [s \in SUBSET S |-> u(s)] = [s \in SUBSET S |-> v(s)]
    <3> HIDE DEF u, v
    <3> QED
      BY <2>2, Zenon
  <2> HIDE DEF u, v, R, c
  <2> QED
    BY <2>3, <2>4, Zenon
<1>4. g_block_size \in Int
  BY FileAssumption
<1>5. AllButLast(c, S, L, g_block_size, T)
  BY <1>a DEF AllButLast, Finds
<1> HIDE DEF c, R
<1>6. \E g : R(g)
  BY <1>a, <1>3, <1>4, <1>5, AmountAdds
<1>7. R(CHOOSE g : R(g))
  BY <1>6
<1>8. Adds(CHOOSE g : R(g), c, S)
  BY <1>3, <1>7
<1>9. (CHOOSE g : R(g))[S] = Amount(S, L, g_block_size, T)
  BY <1>a, <1>4, <1>5, <1>8, AddsUp
<1> QED
  BY <1>2, <1>9 DEF S

(* A read from the start of a block that ends inside the file, over bytes  *)
(* all of which were written, counts what it was asked for.                *)
THEOREM FilesAlignedReadsCount == Spec => []AlignedReadsCount
<1>1. Inv => AlignedReadsCount
  <2> SUFFICES ASSUME Inv, NEW h \in Fh, NEW offset \in Byte,
                      NEW size \in 1 .. fh[h].st_size - offset,
                      fh[h] # Closed, offset % g_block_size = 0,
                      \A u \in offset .. offset + size - 1 : want[fh[h].file][u] # None
               PROVE  ReadCount(h, offset, size, Garbage) = size
    BY DEF AlignedReadsCount
  <2> DEFINE f   == fh[h].file
             B   == g_block_size
             end == offset + size
             p   == offset \div B
             q   == (end - 1) \div B
             S   == Iterations(offset, end)
             L   == B * q
             T   == end - B * q
  <2>1. /\ B \in Nat \ {0} /\ f \in File
        /\ offset \in Nat /\ size \in Nat /\ end \in Nat /\ offset < end
        /\ fh[h].st_size \in Nat /\ end <= fh[h].st_size /\ fh[h].st_size <= MaxSize
    BY Sizes, SMTT(60) DEF Inv, TypeOK, HandlesOpen
  <2>2. p \in Nat /\ offset = B * p
    <3>1. /\ p \in Nat /\ offset = B * p + (offset % B)
      BY <2>1, DivMod
    <3>2. B * p \in Nat
      BY <2>1, <3>1
    <3> HIDE DEF p, B
    <3> QED
      BY <3>1, <3>2 DEF B
  <2>3. /\ q \in Nat /\ p <= q /\ B * q < end /\ end <= B * q + B
        /\ S = {B * j : j \in p .. q}
    <3> HIDE DEF p, end
    <3> QED
      BY <2>1, <2>2, IterationsAre
  <2>4. IsFiniteSet(S) /\ Cardinality(S) = q - p + 1
    <3>1. B \in Nat \ {0} /\ p \in Nat /\ q \in Nat /\ p <= q
      BY <2>1, <2>2, <2>3
    <3>2. S = {B * j : j \in p .. q}
      BY <2>3
    <3> HIDE DEF p, q, S, B
    <3>3. /\ IsFiniteSet({B * j : j \in p .. q})
          /\ Cardinality({B * j : j \in p .. q}) = q - p + 1
      BY <3>1, Multiples
    <3> QED
      BY <3>2, <3>3
  <2>5. ASSUME NEW i \in S
        PROVE  Known(ReadKey(f, offset, i, Garbage))
    <3>1. i \in offset .. end - 1 /\ i \in Byte
      BY <2>1, Sizes DEF Iterations
    <3>2. /\ i \div B < Len(hashes[f])
          /\ HasByte(record, hashes[f][i \div B + 1], i, want[f][i])
      <4>1. want[f][i] # None
        BY <3>1
      <4> HIDE DEF f, B, end, S
      <4>2. \A u \in Byte : want[f][u] # None =>
              /\ u \div g_block_size < Len(hashes[f])
              /\ HasByte(record, hashes[f][u \div g_block_size + 1], u, want[f][u])
        BY <2>1, Zenon DEF Inv, NamesWritten
      <4> QED
        BY <3>1, <4>1, <4>2, Zenon DEF B
    <3>3. ReadKey(f, offset, i, Garbage) = hashes[f][i \div B + 1]
      <4>1. hashes[f] \in Seq(Key) /\ offset \in Nat /\ i \in Nat /\ offset <= i
        BY <2>1, <3>1, Sizes DEF Inv, TypeOK
      <4> QED
        BY <2>1, <3>2, <4>1, KeyRead, ZenonT(60)
    <3> QED
      BY <3>2, <3>3 DEF HasByte, Known
  <2>6. ASSUME NEW i \in S
        PROVE  Min({B, end - i}) = IF i = L THEN T ELSE B
    <3>1. PICK j \in p .. q : i = B * j
      BY <2>3
    <3>2. j \in Nat /\ i \in Nat /\ L \in Nat
      BY <2>1, <2>2, <2>3, <3>1
    <3>3. Min({B, end - i}) = IF B <= end - i THEN B ELSE end - i
      <4> HIDE DEF end, B
      <4> QED
        BY <2>1, <3>2, MinOfTwo
    <3>4. CASE j = q
      <4> HIDE DEF q, B, end, S
      <4> QED
        BY <2>1, <2>3, <3>1, <3>2, <3>3, <3>4
    <3>5. CASE j < q
      <4> HIDE DEF q, B, end, S, p
      <4>1. B * (q - j - 1) >= 0 /\ B * (q - j - 1) = B * q - B * j - B
        BY <2>1, <2>3, <3>2, <3>5
      <4>2. i + B <= L /\ i # L
        BY <2>1, <3>1, <3>2, <4>1
      <4> QED
        BY <2>1, <2>3, <3>2, <3>3, <4>2
    <3> QED
      BY <2>2, <2>3, <3>4, <3>5
  <2>7. L \in S
    BY <2>2, <2>3
  <2>8. T \in Int
    BY <2>1, <2>3
  <2>9. ReadCount(h, offset, size, Garbage) = Amount(S, L, B, T)
    <3>1. /\ offset \in Nat /\ size \in Nat /\ fh[h].st_size \in Nat
          /\ offset + size <= fh[h].st_size
      BY <2>1
    <3>2. S = Iterations(offset, offset + size)
      OBVIOUS
    <3>4. g_block_size = B
      OBVIOUS
    <3>3. Finds(h, offset, size, S, L, T)
      <4> SUFFICES \A i \in S :
             /\ Known(ReadKey(fh[h].file, offset, i, Garbage))
             /\ Min({g_block_size, offset + size - i}) =
                   IF i = L THEN T ELSE g_block_size
        BY DEF Finds
      <4> TAKE i \in S
      <4>1. Known(ReadKey(f, offset, i, Garbage))
        BY <2>5
      <4>2. Min({B, end - i}) = IF i = L THEN T ELSE B
        BY <2>6
      <4>3. end - i = offset + size - i
        <5>1. i \in Int
          BY <2>1 DEF Iterations
        <5> QED
          BY <2>1, <5>1
      <4> HIDE DEF L, T, S, end
      <4> QED
        BY <4>1, <4>2, <4>3, Zenon
    <3> HIDE DEF L, T, S, B
    <3>5. /\ IsFiniteSet(Iterations(offset, offset + size)) /\ T \in Int
          /\ Finds(h, offset, size, Iterations(offset, offset + size), L, T)
      BY <2>4, <2>8, <3>2, <3>3, Zenon
    <3>6. ReadCount(h, offset, size, Garbage)
            = Amount(Iterations(offset, offset + size), L, g_block_size, T)
      BY <3>1, <3>5, CountIs
    <3> QED
      BY <3>2, <3>4, <3>6, Zenon
  <2>10. Amount(S, L, B, T) = size
    <3>1. Amount(S, L, B, T) = (q - p + 1) * B + (T - B)
      <4> HIDE DEF S, L, T
      <4> QED
        BY <2>4, <2>7 DEF Amount
    <3>2. (q - p + 1) * B = B * q - B * p + B
      <4> HIDE DEF q, p, B
      <4> QED
        BY <2>1, <2>2, <2>3
    <3>3. B * q \in Nat
      BY <2>1, <2>3
    <3> HIDE DEF q, p, B, S
    <3> QED
      BY <2>1, <2>2, <3>1, <3>2, <3>3
  <2> QED
    BY <2>9, <2>10
<1> QED
  BY FilesInvariant, <1>1, PTL
=============================================================================
