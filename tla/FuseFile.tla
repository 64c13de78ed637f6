------------------------------ MODULE FuseFile ------------------------------
(***************************************************************************)
(* The files of the FUSE client (src/src/client/agilefs-fuse.c) over its   *)
(* chunk store.  A file is a metadata file: a header with its size, then   *)
(* one fingerprint per block.  While a file is open its size lives in the  *)
(* handle (struct file_context), and the header is written by release and  *)
(* fsync.                                                                  *)
(*                                                                         *)
(* One operation runs at a time.  A write goes block by block and may stop *)
(* between two blocks, so each block is a step; the other operations are   *)
(* one step each.                                                          *)
(*                                                                         *)
(* A fingerprint is the block it was taken of (do_hash maps different      *)
(* blocks to different fingerprints); ZeroHash is what a hole of the       *)
(* metadata file reads as, and Garbage a fingerprint nothing was stored    *)
(* under.  Local buffers of the code are not initialised: a pread past the *)
(* end of the metadata file leaves in hash_key what was there.             *)
(*                                                                         *)
(* The store is the one ChunkStore shows: with del_chunk as it is, what is *)
(* freed is chunk 0 of file 0, again and again, and nothing else           *)
(* (ClientInv), until a list that a failed malloc or a torn file damaged   *)
(* gives out a chunk.  Up to there its free list is a number.              *)
(*                                                                         *)
(* Calls fail where they can: the header, a fingerprint or a block is not  *)
(* read or written, in part or at all, db_get and db_del return an error,  *)
(* an unlink is refused.  The 8 bytes of a header are written or not.      *)
(***************************************************************************)
EXTENDS Integers, Sequences, FiniteSets, FiniteSetsExt

CONSTANTS Name,               \* directory entries
          File,               \* metadata files (inodes)
          Fh,                 \* open files
          Fill,               \* values of a byte written
          Nul,                \* the byte 0
          g_block_size,       \* bytes of a block
          Blocks,             \* bound: blocks of a file
          Chunks,             \* bound: chunks appended to the chunk file
          MaxFree,            \* bound: entries of the free list
          MaxOps,             \* bound: operations of a behaviour
          MaxFaults,          \* bound: steps of it in which a call fails
          Extent,             \* bound: offset and size of a write
          NewSize,            \* bound: size of a truncation
          JunkSize,           \* what malloc leaves in file_context.st_size
          ZeroHash, Garbage,  \* fingerprints without a record
          InitSize,           \* chunks in the chunk file at the start
          None                \* "no such file, record, header, write"

MaxSize == Blocks * g_block_size
Byte    == 0 .. MaxSize - 1
Size    == 0 .. MaxSize
Chunk   == 0 .. Chunks
Block   == [0 .. g_block_size - 1 -> Fill \cup {Nul}]
Key     == Block \cup {ZeroHash, Garbage}
Closed  == [file |-> None, st_size |-> 0]

(* A write in progress. *)
WriteOp == [fh : Fh, offset : Byte, size : Size, i : Size, st_size : Size,
            hash_key : Key, fill : Fill]

ASSUME FileAssumption ==
    /\ g_block_size \in Nat \ {0} /\ Blocks \in Nat \ {0}
    /\ Chunks \in Nat /\ MaxFree \in Nat /\ MaxOps \in Nat
    /\ MaxFaults \in Nat /\ InitSize \subseteq 0 .. Chunks
    /\ JunkSize \subseteq Size /\ NewSize \subseteq Size
    /\ \A r \in Extent : r[1] \in Byte /\ r[2] \in 1 .. MaxSize - r[1]
    /\ ZeroHash \notin Block /\ Garbage \notin Block
    /\ None \notin File \cup Size \cup Chunk \cup Fill \cup {Nul} \cup WriteOp

VARIABLES
    names,     \* the directory
    header,    \* the size in a metadata file; None: the file is still empty
    hashes,    \* the fingerprints after it
    fh,        \* the open files, with the sizes they cache
    record,    \* the hash database: the chunk of a fingerprint
    chunk,     \* the chunk file
    cur_size,  \* where it is appended, in chunks
    free,      \* entries of its free list, all of them chunk 0
    op,        \* the write in progress
    ops,       \* operations so far
    faults,    \* steps so far in which a call failed
    want,      \* ghost: the byte last written at each place of a file
    wantSize,  \* ghost: and its size, as POSIX defines them
    mixed      \* ghost: files whose size the code may have lost

store  == <<record, chunk, cur_size, free>>
meta   == <<header, hashes>>
ghosts == <<want, wantSize, mixed>>
vars   == <<names, meta, fh, store, op, ops, faults, ghosts>>

TypeOK ==
    /\ names \in [Name -> File \cup {None}]
    /\ header \in [File -> Size \cup {None}]
    /\ hashes \in [File -> Seq(Key)] /\ \A f \in File : Len(hashes[f]) <= Blocks
    /\ fh \in [Fh -> [file : File \cup {None}, st_size : Size]]
    /\ record \in [Block -> Chunk \cup {None}]
    /\ chunk \in [Chunk -> Block]
    /\ cur_size \in 0 .. Chunks /\ free \in 0 .. MaxFree
    /\ op \in WriteOp \cup {None}
    /\ ops \in 0 .. MaxOps /\ faults \in 0 .. MaxFaults
    /\ want \in [File -> [Byte -> Fill \cup {None}]]
    /\ wantSize \in [File -> Size]
    /\ mixed \subseteq File

(* main, with a database that has none of the blocks (meta_server_init), a *)
(* chunk file that may hold others (init_chunk_file), and any directory of *)
(* files that are empty.                                                   *)
Init ==
    /\ names \in [Name -> File \cup {None}]
    /\ \A n, m \in Name : n # m /\ names[n] # None => names[n] # names[m]
    /\ header = [f \in File |-> IF \E n \in Name : names[n] = f THEN 0 ELSE None]
    /\ hashes = [f \in File |-> <<>>]
    /\ fh = [h \in Fh |-> Closed]
    /\ record = [k \in Block |-> None]
    /\ chunk = [c \in Chunk |-> [j \in 0 .. g_block_size - 1 |-> Nul]]
    /\ cur_size \in InitSize /\ free = 0
    /\ op = None /\ ops = 0 /\ faults = 0
    /\ want = [f \in File |-> [u \in Byte |-> None]]
    /\ wantSize = [f \in File |-> 0] /\ mixed = {}

Handles(f) == {h \in Fh : fh[h].file = f}
Links(f)   == {n \in Name : names[n] = f}
Unused(f)  == Handles(f) = {} /\ Links(f) = {}

(* One more operation; none runs inside another. *)
Call == op = None /\ ops < MaxOps /\ ops' = ops + 1

(* A step in which a call fails, or none does. *)
Faulty(failed) == IF failed THEN faults < MaxFaults /\ faults' = faults + 1
                  ELSE UNCHANGED faults

-----------------------------------------------------------------------------
(* The store: db_get, block_read, del_chunk and put_new_chunk. *)
Known(k) == k \in Block /\ record[k] # None

block_read(k) == chunk[record[k]]

(* del_chunk of the fingerprints key[b], one after the other.  One with a  *)
(* record is left as it is; any other is "freed", and so is one whose      *)
(* db_get fails, which then loses its record unless db_del fails too.      *)
(* Freed: how often that can be, if the fingerprints `lost' go that way.   *)
Erasable(key) == {k \in {key[b] : b \in DOMAIN key} : Known(k)}

Unrecorded(key) == Cardinality({b \in DOMAIN key : ~Known(key[b])})

Freed(key, lost) == {n \in 0 .. Cardinality(DOMAIN key) :
                        n >= Unrecorded(key) + Cardinality(lost)}

Without(lost) == [k \in Block |-> IF k \in lost THEN None ELSE record[k]]

del_chunk(key, lost) ==
    /\ lost \subseteq Erasable(key)
    /\ \E n \in Freed(key, lost) : free + n <= MaxFree /\ free' = free + n
    /\ record' = Without(lost)

(* The ghost: what a file has in a block whose record is lost is gone.     *)
Loses(f, u, lost) ==
    /\ u \div g_block_size < Len(hashes[f])
    /\ hashes[f][u \div g_block_size + 1] \in lost

(* The chunk block_write takes, and what remains: chunk 0 off a free list  *)
(* with `left' entries, or the end of the file.                            *)
TakeChunk(left) ==
    IF left > 0 THEN free' = left - 1 /\ UNCHANGED cur_size
    ELSE cur_size < Chunks /\ cur_size' = cur_size + 1 /\ free' = 0

Taken(left) == IF left > 0 THEN 0 ELSE cur_size

(* Chunk c after the first n bytes of block k went there. *)
Pwritten(c, k, n) == [j \in 0 .. g_block_size - 1 |->
                        IF j < n THEN k[j] ELSE chunk[c][j]]

-----------------------------------------------------------------------------
(* create, mknod, open, release *)
Fresh(f, size) ==
    /\ Unused(f)
    /\ header' = [header EXCEPT ![f] = size]
    /\ hashes' = [hashes EXCEPT ![f] = <<>>]
    /\ want' = [want EXCEPT ![f] = [u \in Byte |-> None]]
    /\ wantSize' = [wantSize EXCEPT ![f] = 0]
    /\ mixed' = mixed \ {f}

(* The header is written, or is not. *)
fuse_create(n, f, h) ==
    /\ Call
    /\ names[n] = None /\ fh[h] = Closed
    /\ Fresh(f, 0) \/ Fresh(f, None)
    /\ Faulty(header'[f] = None)
    /\ names' = [names EXCEPT ![n] = f]
    /\ fh' = [fh EXCEPT ![h] = [file |-> f, st_size |-> 0]]
    /\ UNCHANGED <<store, op>>

(* mknod writes no header: the metadata file is empty. *)
fuse_mknod(n, f) ==
    /\ Call
    /\ names[n] = None
    /\ Fresh(f, None)
    /\ names' = [names EXCEPT ![n] = f]
    /\ UNCHANGED <<fh, store, op, faults>>

(* The size comes from the header, and from malloc where there is none or  *)
(* it cannot be read.  A second handle caches the size on its own.         *)
fuse_open(n, h) ==
    LET f == names[n] IN
    /\ Call
    /\ f # None /\ fh[h] = Closed
    /\ \E size \in JunkSize \cup ({header[f]} \ {None}) :
          /\ fh' = [fh EXCEPT ![h] = [file |-> f, st_size |-> size]]
          /\ Faulty(header[f] \notin {None, size})
          /\ mixed' = IF size # header[f] \/ Handles(f) # {} THEN mixed \cup {f} ELSE mixed
    /\ UNCHANGED <<names, meta, store, op, want, wantSize>>

fuse_release(h) ==
    /\ Call
    /\ fh[h] # Closed
    /\ header' = [header EXCEPT ![fh[h].file] = fh[h].st_size]
    /\ fh' = [fh EXCEPT ![h] = Closed]
    /\ UNCHANGED <<names, hashes, store, op, faults, ghosts>>

(* The write of the size fails: the descriptor stays open, the kernel has  *)
(* forgotten the handle.                                                   *)
fuse_release_fails(h) ==
    /\ Call
    /\ fh[h] # Closed
    /\ Faulty(TRUE)
    /\ mixed' = mixed \cup {fh[h].file}
    /\ fh' = [fh EXCEPT ![h] = Closed]
    /\ UNCHANGED <<names, meta, store, op, want, wantSize>>

(* Nobody looks whether fsync wrote the size. *)
HeaderMayBe(f, size) == \/ header' = [header EXCEPT ![f] = size]
                        \/ UNCHANGED header

fuse_fsync(h) ==
    /\ Call
    /\ fh[h] # Closed
    /\ HeaderMayBe(fh[h].file, fh[h].st_size)
    /\ Faulty(header'[fh[h].file] # fh[h].st_size)
    /\ UNCHANGED <<names, hashes, fh, store, op, ghosts>>

-----------------------------------------------------------------------------
(* rename, link: the directory alone.  rename over a file drops its name   *)
(* and none of its chunks.                                                 *)
fuse_rename(from, to) ==
    /\ Call
    /\ names[from] # None /\ names[from] # names[to]
    /\ names' = [names EXCEPT ![to] = names[from], ![from] = None]
    /\ UNCHANGED <<meta, fh, store, op, faults, ghosts>>

fuse_link(from, to) ==
    /\ Call
    /\ names[from] # None /\ names[to] = None
    /\ names' = [names EXCEPT ![to] = names[from]]
    /\ UNCHANGED <<meta, fh, store, op, faults, ghosts>>

(* The fingerprint a loop over blocks has in hash_key at block b, when it  *)
(* started with hash_key = init and has read the fingerprints of the       *)
(* blocks `read': the last one it read.                                    *)
LoopKey(f, read, b, init) ==
    LET upto == {r \in read : r <= b}
    IN IF upto = {} THEN init ELSE hashes[f][Max(upto) + 1]

RoundUp(size) == (size + g_block_size - 1) \div g_block_size

(* The blocks between the new size and the old, and their fingerprints: of *)
(* one that lies past the end of the metadata file, or cannot be read, the *)
(* one before.                                                             *)
Gone(size, old) == RoundUp(size) .. RoundUp(old) - 1

There(f, size, old) == {b \in Gone(size, old) : b < Len(hashes[f])}

GoneKeys(f, size, old, read) ==
    [b \in Gone(size, old) |-> LoopKey(f, read, b, ZeroHash)]

DeleteBlocks(f, size, old, lost) ==
    \E read \in SUBSET There(f, size, old) :
        del_chunk(GoneKeys(f, size, old, read), lost)

DeletedAsMeant(f, size, old) ==
    /\ free' = free + Unrecorded(GoneKeys(f, size, old, There(f, size, old)))
    /\ record' = record

Erasures == SUBSET {k \in Block : Known(k)}

Cut(f, size, lost) ==
    want' = [e \in File |-> [u \in Byte |->
                IF (e = f /\ u >= size) \/ Loses(e, u, lost) THEN None ELSE want[e][u]]]

OldSize(f) == IF header[f] = None THEN 0 ELSE header[f]

(* truncate changes the header and no handle, and succeeds even when the   *)
(* header keeps the old size.  The fingerprints stay.                      *)
fuse_truncate(n, size) ==
    LET f == names[n] IN
    /\ Call
    /\ f # None
    /\ \E lost \in Erasures : DeleteBlocks(f, size, OldSize(f), lost) /\ Cut(f, size, lost)
    /\ HeaderMayBe(f, size)
    /\ Faulty(~DeletedAsMeant(f, size, OldSize(f)) \/ header'[f] # size)
    /\ wantSize' = [wantSize EXCEPT ![f] = size]
    /\ mixed' = IF Handles(f) # {} \/ header'[f] # size THEN mixed \cup {f} ELSE mixed
    /\ UNCHANGED <<names, hashes, fh, chunk, cur_size, op>>

(* Mutant: the handle keeps its size. *)
FtruncateHeaderOnly(h, size) ==
    LET f == fh[h].file IN
    /\ Call
    /\ f # None
    /\ \E lost \in Erasures : DeleteBlocks(f, size, fh[h].st_size, lost) /\ Cut(f, size, lost)
    /\ HeaderMayBe(f, size)
    /\ Faulty(~DeletedAsMeant(f, size, fh[h].st_size) \/ header'[f] # size)
    /\ wantSize' = [wantSize EXCEPT ![f] = size]
    /\ UNCHANGED <<names, hashes, fh, chunk, cur_size, op, mixed>>

(* ftruncate changes both; a header that keeps the old size gets the new   *)
(* one when the handle is released.                                        *)
fuse_ftruncate(h, size) ==
    LET f == fh[h].file IN
    /\ Call
    /\ f # None
    /\ \E lost \in Erasures : DeleteBlocks(f, size, fh[h].st_size, lost) /\ Cut(f, size, lost)
    /\ HeaderMayBe(f, size)
    /\ Faulty(~DeletedAsMeant(f, size, fh[h].st_size) \/ header'[f] # size)
    /\ fh' = [fh EXCEPT ![h].st_size = size]
    /\ wantSize' = [wantSize EXCEPT ![f] = size]
    /\ UNCHANGED <<names, hashes, chunk, cur_size, op, mixed>>

(* unlink truncates the file to 0 first, if it can open it, whoever else   *)
(* has a name or a handle of it, and whether the name can then be removed  *)
(* or not.  A handle writes its own size back; a name without a handle is  *)
(* left with the size 0.                                                   *)
fuse_unlink(n) ==
    LET f == names[n] IN
    /\ Call
    /\ f # None
    /\ \/ /\ \E lost \in Erasures : DeleteBlocks(f, 0, OldSize(f), lost)
                                     /\ Cut(f, MaxSize, lost)
          /\ HeaderMayBe(f, 0)
       \/ UNCHANGED <<record, free, want, header>>
    /\ \/ names' = [names EXCEPT ![n] = None]
       \/ UNCHANGED names
    /\ Faulty(\/ ~DeletedAsMeant(f, 0, OldSize(f))
              \/ header'[f] # 0 \/ names'[n] # None)
    /\ mixed' = IF header' # header /\ Handles(f) = {} THEN mixed \cup {f} ELSE mixed
    /\ UNCHANGED <<hashes, fh, chunk, cur_size, op, wantSize>>

-----------------------------------------------------------------------------
(* write.  The cached size is read before the first block and set after    *)
(* the last; hash_key starts as what the stack holds.                      *)
BeginWrite(h, offset, size, fill) ==
    /\ Call
    /\ fh[h] # Closed
    /\ \E junk \in {Garbage} \cup {k \in Block : Known(k)} :
          op' = [fh |-> h, offset |-> offset, size |-> size, i |-> offset,
                 st_size |-> fh[h].st_size, hash_key |-> junk, fill |-> fill]
    /\ UNCHANGED <<names, meta, fh, store, faults, ghosts>>

(* The block of this iteration, its bytes [From, To), and the fingerprint  *)
(* that was in its place: the one before it, if that cannot be read.       *)
Writing == op # None /\ op.i < op.offset + op.size
wf      == fh[op.fh].file
Index   == op.i \div g_block_size
From    == op.i % g_block_size
To      == Min({g_block_size, From + op.offset + op.size - op.i})
OldKey  == IF Index < Len(hashes[wf]) THEN hashes[wf][Index + 1] ELSE op.hash_key
Partial == To - From # g_block_size

(* Mutant: the old block is not read before part of it is written. *)
BlankBlock(old, got) == [j \in 0 .. g_block_size - 1 |->
                           IF From <= j /\ j < To THEN op.fill ELSE Nul]

(* The block written: the bytes of the call over the first `got' bytes of  *)
(* the old block, and zeros where that was not read.  Its being read only  *)
(* in part, or not at all, stops nothing.                                  *)
CanGet(old) == IF Partial /\ Known(old) THEN 0 .. g_block_size ELSE {0}

NewBlock(old, got) == [j \in 0 .. g_block_size - 1 |->
                         IF From <= j /\ j < To THEN op.fill
                         ELSE IF j < got THEN block_read(old)[j] ELSE Nul]

(* Mutant: the offset of a fingerprint is one block off. *)
MetafileShifted(k) ==
    hashes' = [hashes EXCEPT ![wf] =
        [b \in 1 .. Max({Len(@), IF Index > 0 THEN Index ELSE 1}) |->
            IF b = (IF Index > 0 THEN Index ELSE 1) THEN k ELSE @[b]]]

(* The fingerprint goes to its place in the metadata file; what lies       *)
(* between the old end and that place is a hole.                           *)
Metafile(k) ==
    hashes' = [hashes EXCEPT ![wf] =
        [b \in 1 .. Max({Len(@), Index + 1}) |->
            IF b = Index + 1 THEN k ELSE IF b <= Len(@) THEN @[b] ELSE ZeroHash]]

HeaderExists == header' = [header EXCEPT ![wf] = IF @ = None THEN 0 ELSE @]

(* The ghost: bytes beside the ones written survive if they were read from *)
(* their old block, and that was not in chunk 0, whose data nobody can     *)
(* rely on.                                                                *)
InBlock(u) == u \div g_block_size = Index

Survives(u, old, got) ==
    old = OldKey /\ Known(old) /\ record[old] # 0 /\ u % g_block_size < got

Rewritten(old, got, lost) ==
    want' = [f \in File |-> [u \in Byte |->
        IF f = wf /\ InBlock(u)
        THEN IF From <= u % g_block_size /\ u % g_block_size < To THEN op.fill
             ELSE IF Survives(u, old, got) THEN want[f][u] ELSE None
        ELSE IF Loses(f, u, lost) THEN None ELSE want[f][u]]]

(* A write that fails: blocks it already wrote stay, but those past the    *)
(* end of the file stay outside, for the size is not updated.              *)
Failed(blockLost, lost) ==
    /\ want' = [f \in File |-> [u \in Byte |->
          IF \/ f = wf /\ (u >= wantSize[wf] \/ (blockLost /\ InBlock(u)))
             \/ Loses(f, u, lost)
          THEN None ELSE want[f][u]]]
    /\ op' = None

(* The old block read, and deleted: `left' entries are then in the free    *)
(* list.                                                                   *)
Old(old) == [b \in {Index} |-> old]

Deleting(old, got, left, lost) ==
    Writing /\ left - free \in Freed(Old(old), lost)

DeletedOld(old, got, left, lost) ==
    /\ old = OldKey /\ got = Max(CanGet(old))
    /\ left = free + Unrecorded(Old(old)) /\ lost = {}

(* The block counts as there if it is known; it is written if it is not,   *)
(* or if db_get says so in error, and then has a new record.               *)
WriteBlock(old, got, left, lost) ==
    LET new == NewBlock(old, got) IN
    /\ Deleting(old, got, left, lost)
    /\ Metafile(new) /\ HeaderExists
    /\ \/ /\ Known(new) /\ new \notin lost
          /\ free' = left /\ record' = Without(lost) /\ UNCHANGED <<chunk, cur_size>>
       \/ /\ TakeChunk(left)
          /\ record' = [Without(lost) EXCEPT ![new] = Taken(left)]
          /\ chunk' = [chunk EXCEPT ![Taken(left)] = new]
    /\ Faulty(\/ ~DeletedOld(old, got, left, lost)
              \/ Known(new) /\ <<free', cur_size'>> # <<left, cur_size>>)
    /\ Rewritten(old, got, lost)
    /\ op' = [op EXCEPT !.i = @ + To - From, !.hash_key = new]
    /\ UNCHANGED <<names, fh, ops, wantSize, mixed>>

(* put_new_chunk fails: the metadata file names a block that is not there, *)
(* or names one that is and is not counted.                                *)
WriteBlockPutFails(old, got, left, lost) ==
    LET new == NewBlock(old, got) IN
    /\ Deleting(old, got, left, lost)
    /\ Metafile(new) /\ HeaderExists
    /\ \/ /\ Known(new) /\ new \notin lost
          /\ free' = left /\ UNCHANGED <<chunk, cur_size>>
       \/ /\ TakeChunk(left)
          /\ \E n \in 0 .. g_block_size :
                chunk' = [chunk EXCEPT ![Taken(left)] = Pwritten(Taken(left), new, n)]
    /\ record' = Without(lost)
    /\ Faulty(TRUE)
    /\ Failed(TRUE, lost)
    /\ UNCHANGED <<names, fh, ops, wantSize, mixed>>

(* The metadata file takes none of the fingerprint, or a part of it. *)
WriteBlockMetaFails(old, got, left, lost) ==
    /\ Deleting(old, got, left, lost)
    /\ Faulty(TRUE)
    /\ free' = left /\ record' = Without(lost)
    /\ \/ UNCHANGED meta /\ Failed(FALSE, lost)
       \/ Metafile(Garbage) /\ HeaderExists /\ Failed(TRUE, lost)
    /\ UNCHANGED <<names, fh, chunk, cur_size, ops, wantSize, mixed>>

Larger(a, b) == IF a < b THEN b ELSE a

(* Mutant: the bytes of the call are added to the size. *)
EndWriteAdds ==
    /\ op # None /\ ~Writing
    /\ fh' = [fh EXCEPT ![op.fh].st_size = op.st_size + op.size]
    /\ wantSize' = [wantSize EXCEPT ![wf] = Larger(@, op.offset + op.size)]
    /\ op' = None
    /\ UNCHANGED <<names, meta, store, ops, faults, want, mixed>>

EndWrite ==
    /\ op # None /\ ~Writing
    /\ fh' = [fh EXCEPT ![op.fh].st_size = Larger(op.st_size, op.offset + op.size)]
    /\ wantSize' = [wantSize EXCEPT ![wf] = Larger(@, op.offset + op.size)]
    /\ op' = None
    /\ UNCHANGED <<names, meta, store, ops, faults, want, mixed>>

fuse_write ==
    \/ \E h \in Fh, r \in Extent, fill \in Fill : BeginWrite(h, r[1], r[2], fill)
    \/ /\ Writing
       /\ \E old \in {OldKey, op.hash_key} :
          \E got \in CanGet(old), left \in free .. MaxFree, lost \in SUBSET Erasable(Old(old)) :
          \/ WriteBlock(old, got, left, lost)
          \/ WriteBlockPutFails(old, got, left, lost)
          \/ WriteBlockMetaFails(old, got, left, lost)
    \/ EndWrite

-----------------------------------------------------------------------------
Next ==
    \/ fuse_write
    \/ \E n \in Name :
          \/ fuse_unlink(n)
          \/ \E f \in File : fuse_mknod(n, f) \/ \E h \in Fh : fuse_create(n, f, h)
          \/ \E h \in Fh : fuse_open(n, h)
          \/ \E m \in Name : fuse_rename(n, m) \/ fuse_link(n, m)
          \/ \E size \in NewSize : fuse_truncate(n, size)
    \/ \E h \in Fh : \/ fuse_release(h) \/ fuse_release_fails(h) \/ fuse_fsync(h)
                     \/ \E size \in NewSize : fuse_ftruncate(h, size)

Spec == Init /\ [][Next]_vars

-----------------------------------------------------------------------------
(* read and getattr change nothing: they are what the other operations are *)
(* judged by, where none of their own calls fails.  fuse_read stops at the *)
(* size its handle has.  An iteration starts at the offset and at every    *)
(* block after it, and asks for up to a block from there on, across the    *)
(* end of the chunk if the offset is not aligned; the next iteration       *)
(* writes over what lies beyond the block.                                 *)
Iterations(offset, end) ==
    {i \in offset .. end - 1 : i = offset \/ i % g_block_size = 0}

ReadKey(f, offset, u, junk) ==
    LoopKey(f, (offset \div g_block_size .. u \div g_block_size) \cap (0 .. Len(hashes[f]) - 1),
            u \div g_block_size, junk)

(* rdcount: the bytes each iteration got, -1 where the block is unknown. *)
ReadCount(h, offset, size, junk) ==
    MapThenSumSet(LAMBDA i : IF Known(ReadKey(fh[h].file, offset, i, junk))
                             THEN Min({g_block_size, offset + size - i}) ELSE -1,
                  Iterations(offset, Min({offset + size, fh[h].st_size})))

(* The byte that ends up in the buffer of a read through a handle of size  *)
(* st_size; None: what was there before.                                   *)
ReadByte(f, st_size, offset, u, junk) ==
    LET k == ReadKey(f, offset, u, junk)
    IN IF u < st_size /\ Known(k) THEN block_read(k)[u % g_block_size] ELSE None

(* fgetattr takes the size of the handle, getattr that of the header, read *)
(* by path, or of the empty metadata file itself: while a handle is open,  *)
(* the size before it was opened, or last synced.                          *)
fuse_fgetattr(h) == fh[h].st_size
fuse_getattr(f)  == OldSize(f)

(* The sizes a file is read with: those of its handles, or the one a       *)
(* handle would be opened with.                                            *)
SizesSeen(f) == IF Handles(f) = {} THEN {fuse_getattr(f)}
                ELSE {fuse_fgetattr(h) : h \in Handles(f)}

-----------------------------------------------------------------------------
(* What was written is read.  Every byte last written by a write that      *)
(* succeeded, and not cut off since, is what a read of any range around it *)
(* returns, whatever was written to other files, deleted, renamed, linked, *)
(* or failed: in a file whose size is kept (SizeIsKept) wherever it is, in *)
(* any other if it lies inside the size of the handle.  Except that        *)
(* - its block may lie in chunk 0, which every del_chunk of an unknown     *)
(*   fingerprint gives away again;                                         *)
(* - a db_get that fails in del_chunk may have erased the record (Loses);  *)
(* - a later write of other bytes of the block may have gone on although   *)
(*   it could not read the old ones (Survives).  (fuse_write, fuse_read)   *)
InChunkZero(f, offset, u, junk) ==
    LET k == ReadKey(f, offset, u, junk) IN Known(k) /\ record[k] = 0

WrittenIsRead ==
    \A f \in File : ~Unused(f) =>
        \A st_size \in SizesSeen(f), offset \in Byte : \A u \in offset .. MaxSize - 1 :
            /\ want[f][u] # None
            /\ u < st_size \/ (f \notin mixed /\ op = None)
            => \/ InChunkZero(f, offset, u, Garbage)
               \/ ReadByte(f, st_size, offset, u, Garbage) = want[f][u]

(* The handle of a file has the size that its writes and truncations gave  *)
(* it, and once it is released so has the file, whichever header writes    *)
(* failed on the way.  Of this are out (mixed): a file two handles were    *)
(* open for at a time, or that was truncated by name beside a handle; one  *)
(* unlinked under another name, or in vain, while no handle was open; and  *)
(* one whose size open could not read, or release or truncate could not    *)
(* write.  (fuse_open, fuse_write, fuse_ftruncate, fuse_release)           *)
SizeIsKept ==
    \A f \in File \ mixed : ~Unused(f) =>
        /\ \A st_size \in SizesSeen(f) : st_size = wantSize[f]
        /\ op = None => \A u \in Byte : want[f][u] # None => u < wantSize[f]

(* A read that starts at a block and ends inside the file, over blocks     *)
(* that are all there, counts the bytes it was asked for.                  *)
AlignedReadsCount ==
    \A h \in Fh : \A offset \in Byte : \A size \in 1 .. fh[h].st_size - offset :
        /\ fh[h] # Closed /\ offset % g_block_size = 0
        /\ \A u \in offset .. offset + size - 1 : want[fh[h].file][u] # None
        => ReadCount(h, offset, size, Garbage) = size
=============================================================================
