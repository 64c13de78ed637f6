# agilefs, specified in TLA+

agilefs is a deduplicating store written in C. A server cuts its input into
chunks, keeps each distinct chunk once in one of a few large chunk files, and
keeps one record per fingerprint (which file, which offset, how many
references) in a Berkeley DB. A FUSE client keeps, for every file, a metadata
file with the fingerprints of its chunks. This directory models the code under
`src/`; every definition that stands for code is listed with its lines in
`PROJECT.json` ("map").

1. [Inventory](#1-inventory)
2. [Modules](#2-modules)
3. [Runs and bounds](#3-runs-and-bounds)
4. [Fairness](#4-fairness)
5. [Proofs](#5-proofs)
6. [Findings](#6-findings)
7. [What is not modelled](#7-what-is-not-modelled)
8. [Plan](#8-plan)

## 1. Inventory

| Component | State | Operations | What makes it correct | Modules |
|---|---|---|---|---|
| free-chunk list (`server/chunks.c`) | pages of offsets on the heap, `current`, `total_cnt`, the list file | init, get, add, flush | it is a stack, and an orderly stop and start bring it back; no entry is read that was never written | `FreeList`, `ChunkStack` |
| chunk store (`server/chunks-io.c`, `expat-xml.c`) | chunk files, `cur_size`, `fds`, one free-chunk list per file | put, delete, read, start, release | a record points at the data of its key, whatever failed before; nothing a record points at is overwritten | `ChunkStore`, `DedupStore` |
| hash database (`server/db_ops.c`) | one Berkeley DB per server | get, put, del, open, close | no log: after a death it holds what its cache wrote back | `ChunkStore` |
| I/O threads (`io/thread-mgr.c`) | one ring per consumer, two semaphores each, three global flags | start, produce, consume | every chunk read is stored once, with its own fingerprint | `BufferQueue` |
| server main (`server/agilefs-server.c`) | the table of descriptors, the order of start and teardown | main | a stop loses and damages nothing (it may, since it does not wait) | `Server` |
| FUSE client (`client/agilefs-fuse.c`) | metadata files, the size of each open file | open, read, write, truncate, unlink, release | what was written is read; size and fingerprints agree | `FuseFile` |
| client block cache (`client/fuse_cache.c`) | lines of eight ways with lives | find, add, evict | a hit returns the block that was put | `FuseCache` |
| fingerprints (`common/misc/*.c`) | the digest's buffer and counts | init, update, finish | the digest does not depend on how the input is cut | `DigestStream` |
| socket I/O (`io/net/sockio.c`) | descriptors, a transfer in progress | socket, bind, connect, receive, send | the bytes the calls return are those that left the socket, in order | `SockIO` |
| TCP method (`io/net/tcp.c`) | listening address, collection, addresses with their sockets | initialize, send, accept | a descriptor has one owner | `TcpMethod` |
| socket collections (`io/net/socket-collection.c`) | an epoll descriptor | init, test | it polls what listens | `TcpMethod` (init) |
| block files with share counts (`client/fuse_io_util.c`) | a file per fingerprint, its count in an extended attribute | write, unlink, the context of an open file | nothing calls the first two | `FuseFile` (the context) |
| storage layer (`io/storage`) | – | – | unfinished: it does not compile, nothing is built from it | – |

**Interaction.** `main` parses `global.xml`, which opens every chunk file and
loads its free-chunk list, opens the database and calls `thread_io_start`. The
producer reads chunks, computes fingerprints and routes each by the
fingerprint's first int to a ring. The consumer of that ring calls
`put_new_chunk`, which looks the key up; a known key gets its reference count
raised, a new one goes through `block_write`: choose the file with the least
used space, take a free chunk or append, `pwrite`, then `write_hash_db`. At the
end `release_chunk_file` saves the free-chunk lists and the database is closed.
The FUSE client links the same store and calls it from FUSE's threads.

**What is hard here.** The store keeps one fact in three places (free list,
chunk file, database) that are written one after the other, with calls that
fail in between, a database that has no log and a process that may die. The
rings are used by two threads of which one takes no lock. `main` tears the
store down while its threads still use it. The FUSE client keeps a file's size
in a handle and writes it when the handle is released. The cache takes no lock.
The digests count and buffer a message that comes in pieces. `PROJECT.json`
("hazards") lists each of these at its line, with the property that would catch
it, or the reason why none does.

## 2. Modules

### FreeList implements ChunkStack

`ChunkStack` says what a free-chunk list promises: a last-in first-out stack
that an orderly stop saves and the next start restores; only a step in which a
call failed or the process died may lose a list.

`FreeList` is `chunks.c`: pages of `PER_LIST_SIZE` slots, `current` (top, −1
when empty) and `total_cnt` (slots allocated), as in `struct free_chunk_list`;
the file is the header and the pages. One action per operation and outcome:
`init_free_chunk` (with any set of pages whose `malloc` fails or whose read
gives junk), `GetFirst`/`GetEmpty`, `AddInPage`/`AddNewPage`/`AddMallocFails`/
`AddOverrun` (the page past `base[FREE_CHUNK_MAX]`), `flush_free_chunk` and its
failures, a death at rest and one inside a flush. `NullPage` is the end of the
process on a page that `malloc` did not give. The refinement maps the pages up to
`current` to the stack.

### ChunkStore implements DedupStore

`DedupStore` is the promise to a client that only puts: while nothing fails,
each acknowledged put of a key is counted exactly once and its data can be read
from then on; after a fault a count may be too low and a key may be gone, but
no count is too high and no read returns another key's data.

`ChunkStore` is `chunks-io.c`, `db_ops.c` and the chunk-file half of
`expat-xml.c`, driven by one thread.

| Variable | Code |
|---|---|
| `chunkFile`, `st_size` | the chunk files, byte by byte: a byte is (key, position in chunk) or a hole |
| `fds`, `cur_size`, `fcls` | `cfi` (`struct chunk_file_info`); a list is the stack `ChunkStack` promises |
| `fclFile` | the list files |
| `hashDb`, `hashDbFile` | the database as its users see it, and the records its cache has written back |
| `pending` | the chunk between `pwrite` and `write_hash_db` of one `put_new_chunk` |
| `phase` | before `start_element_init`, between it and release, and between release and `DB_clean` |
| `acked`, `clean`, `astray` | ghosts: puts answered with 0; whether nothing has failed yet; whether a damaged list has given out a chunk |

Sizes are in bytes because a short `pwrite` leaves a file that ends inside a
chunk, and the next start appends at that size. `PutNew` writes, `WriteHashDb`
records: these are two steps because the process may die between them. Database
errors of `db_get` are a step of their own, since the code treats every
error as "not found". A restart that cannot open a file takes `cur_size` from
an uninitialised `struct stat` (`JunkSize`). `ServerNext` is the server (puts
only); `Next` adds `del_chunk`, which only the FUSE client calls.

A free list is a stack as long as nothing was lost of it. `FreeList` shows how
it is lost: `add_free_chunk` moves `current` before its `malloc` fails, a save
that dies or fails after its first `write` leaves a header without pages, and
`init_free_chunk` takes what `malloc` returned for a page it cannot read. From
there on the list is `Damaged`: `current` may be anything, and
`get_first_free_chunk` gives out any chunk of the file (`Allocate`, which then
sets `astray`). `Saves` and `Loads` are the outcomes of `flush_free_chunk` and
`init_free_chunk`; lists that are empty have no pages to lose, so that the
server, which frees nothing, never has a damaged one. A page the code reads
through a null pointer is the end of the process, as `Crash`, and a list that
grows past its array of pages stays with `FreeList`.

`del_chunk` is modelled as it is: its test of `db_get`'s result is inverted,
so deleting an unknown key frees chunk 0 of file 0 (the record is zeroed), and
deleting a known one reads its record and does nothing with it.

### BufferQueue

`BufferQueue` is `thread-mgr.c` with the rings of `buffer-queue.h`. Each
statement of the producer and of a consumer that touches shared memory is an
action: look at the running flag, wait, copy data, copy key, advance, post.
`main` starts threads that may fail to start, which clears the flag or, when it
was the attributes that failed, does not. A slot's data is named by the key it belongs to, so a slot
or buffer whose two names differ holds a torn chunk. `Route` is the first int of a
fingerprint. The state `"wild"` is an index outside the array of rings: from
there on the program's behaviour is undefined, so the producer takes no
further step. `sent`, `taken` and `put` are ghosts.

### Server

`Server` composes `main` with the producer, the consumer, the store and the
table of descriptors, and asks what the teardown does to threads that still
run: on success `main` does not wait for `over` (the loop hangs under
`if (ret != 0)`). The components it composes enter as what their own modules
show them to be: the ring as a queue, a free-chunk list as a stack, a chunk as
one slot.

| Variable | Code |
|---|---|
| `pc`, `idx`, `listFd` | the statement of `main`, and the file and list descriptor of `start_element_release` |
| `fdOf` | the descriptors: the input, each chunk file, and what took over a number that was closed |
| `freed`, `pages`, `cur_size`, `fcls` | `cfi`: whether its arrays were freed, whose lists' pages were not, sizes and lists |
| `data`, `fclFile`, `db`, `dbOpen` | chunk files, list files, database |
| `over`, `producer`, `chunk`, `ring`, `consumer`, `put` | the threads |
| `configRead`, `reads` | whether somebody has read the configuration to its end; chunks read |
| `seen`, `lost`, `quiet`, `strayed`, `junk` | ghosts: keys read; keys whose last put failed; whether all was stored when `main` closed the input; keys whose data went into a list file; whether a slot came off a freed page |

Descriptors are numbers, taken lowest first, because the code uses numbers it
has closed: `fopen` of the configuration gets the number of the input, which
the producer goes on reading; `open` of a list file gets the number of a chunk
file, to which the consumer goes on writing. `WriteList` frees the pages it
wrote and `FreeCfi` the arrays; a slot taken off a freed page is any slot
(`junk`), an access to a freed array or a closed database ends the process, and
so does the assertion of `block_write` when no file is proper. Each call of a
put may fail: `db_get` and `db_put` (`PutKnown`, `PutNew`), `pwrite`, which may
also write a part (`PwriteFails`), `write_hash_db` (`WriteHashDbFails`). The
consumer drops the result (`thread-mgr.c:262`), so that the key is `lost` until
another chunk of it is put.

### FuseFile

`FuseFile` is `agilefs-fuse.c` over the store that `ChunkStore` shows: names,
metadata files (`header` and `hashes`), handles with the size they cache
(`fh`), and the store cut down to records, chunks, the end of the chunk file
and the length of the free list, all of whose entries are chunk 0 (`ClientInv`)
as long as the list is not damaged, which is where this module stops.
A fingerprint is the block it was taken of. `fuse_write` is a step per block
(`WriteBlock`, or `WriteBlockPutFails`, `WriteBlockMetaFails`) between
`BeginWrite`, which reads the cached size, and `EndWrite`, which sets it; the
other operations are a step each. `fuse_read`, `fuse_getattr` and
`fuse_fgetattr` change nothing: they are operators (`ReadByte`, `ReadCount`,
`fuse_getattr`, `fuse_fgetattr`) the properties use.

Calls fail inside an operation where the code goes on: the fingerprint of a
block is not read and the loop has the one before (`GoneKeys`, `old`); the old
block of a partial write is read in part or not at all (`got`); `db_get` fails
in `del_chunk` on a fingerprint that is there, which frees chunk 0 and may erase
the record, shared or not (`lost`); `put_new_chunk` takes a known block for new;
a header is not written (`HeaderMayBe`); a name is not removed. `faults` counts
the steps in which one did. The ghosts `want`, `wantSize` and `mixed` say what
POSIX promises, and for which files the code cannot promise it.

### FuseCache

`FuseCache` is `fuse_cache.c` in a build with `WITH_CACHE`: the scan of a line,
the copy of a fingerprint and the copy of a block are steps of their own, in
threads that take no lock. `cache_read` ages the ways it misses, `cache_write`
refills or replaces; way 0 is never compared. Any data comes under any
fingerprint, for `fuse_read` puts what a read wanted, at whatever offset in the
block, and `fuse_write` puts a block under a fingerprint it never set. The
cache promises only that a hit returns what was put.

### DigestStream

`DigestStream` is `md5.c` and `sha1.c` from `starts` to `finish` with
`md5_file`: buffer, counts, padding. A compression appends its block to the
state, so that a digest is the sequence of blocks it went through, and is right
when that is the padded message. Blocks, words and bytes are small numbers, so
that the low word of a count wraps. The test `j + len > 63` of `SHA1Update` is
on 32-bit words: a piece of nearly 2^32 bytes wraps it and is copied past the
buffer. `Sha1Update` wraps as the code does, and such a piece leads to the pc
`"overrun"`, of which nothing more is said.

### SockIO and TcpMethod

`SockIO` is the table of descriptors and the transfer loops `sockio_nbrecv` and
`sockio_nbsend`, a step per `recv` or `send`. A socket delivers 1, 2, 3, …
over all the calls on it; the buffer of a call, the place it has come to (`at`)
and what remains (`comp`) are as in the code, and the ghosts `got` and `dropped`
collect what calls returned, and what left the socket in a call that then
failed. A socket is made non-blocking by two `fcntl`s nobody looks at
(`SetNonblock`), and a transfer on one that blocks ends in its assertion
(`"aborted"`). `TcpMethod` extends this with
`tcp.c` and `socket_collection_init`: what `tcp_initialize` opens and leaves
open when it fails, the socket an address gets at its first send, the number it
keeps when `TCP_NODELAY` cannot be set, accepted sockets (`tcp_accept_init` is
declared static and has no caller: it is what a caller in that file could do).

### MC modules and proof modules

A module `MC`*X* gives the constants of *X*. Modules ending in `Proofs` hold
theorems. Definitions whose comment starts with "Mutant:" are plausible wrong
versions of the definition that follows them; each property was seen to fail
with one of them.

## 3. Runs and bounds

| Run | Checks | Bounds |
|---|---|---|
| `freelist` | `TypeOK`; `PagesHoldTheStack`: below `current` every page is there and holds entries that were added; `OverrunMeansFreedTwice`: the list passes its last page only after a chunk was freed twice; `ImplementsStack` | 2 pages of 2 slots, 4 chunk numbers |
| `store_server` | `TypeOK` (no chunk past the end of a file); `RecordsPointAtData`; `ServerInv`; `NoSpaceWasted` and `FilesFillEvenly` while nothing fails; `WrittenOnce`; `ImplementsDedup` | 2 keys, 2 files of 2 chunks of 2 bytes, 2 puts per key |
| `store_client` | `DamageStaysInChunkZero`, `ClientInv` (its first conjunct is `TypeOK`) | 2 keys, 1 file of 3 chunks of 2 bytes, 1 counted put per key, free lists of at most 2 entries, up to the chunk a damaged list gives out |
| `store_delete` | `FreeChunksAreUnused`, **violated** | 2 keys, 1 file of 2 chunks |
| `store_full` | `FreeChunkIsUsable`, **violated** | 3 keys, 1 file of 2 chunks |
| `queue` | `TypeOK` (no semaphore above the slots), `StoredInOrder`, `NoSlotRace`, `QueueInv`, `EverythingIsStored` | 2 rings of 2 slots, 4 chunks of 3 fingerprints |
| `queue_route` | `NeverWild`, **violated** | the same, with a fingerprint whose first int is 2 |
| `server` | `TypeOK` (the ring never over its size); `QuietStopKeepsAll` and `QuietStopIsSafe`: a stop that finds all stored damages nothing and loses only the keys a failed call had lost; `RecordsWrongByTeardownOnly`: otherwise a record is wrong in two ways only; `SpinEndsUnlessStuck`, `StuckForEver`: when `main` waits for ever | 2 files of 3 slots, empty or full, lists of 0 or 2 chunks, 2 keys and the configuration's, 3 chunks read, a ring of 1 |
| `fuse_file` | `TypeOK`; `WrittenIsRead`; `SizeIsKept`; `AlignedReadsCount` | 2 names, 2 files, 2 handles, 2 blocks of 2 bytes, 4 operations, 2 steps in which a call fails |
| `cache` | `TypeOK` (lives stay an unsigned short); `HitIsWhatWasPut`; `OneWayBesideWayZero` | 1 line of 3 ways, 2 threads, 6 calls |
| `digest` | `TypeOK` (counts stay words); `DigestOfTheMessage`; `NothingLostInTheBuffer`; `FileDigestIsWhole`; `PaddingEnds` | blocks of 4 bytes, words of 5 bits, messages up to 35 bytes |
| `net` | `TypeOK` (counts never negative); `RecvTakesTheStream`; `OneOwnerEach` | 3 descriptors, 2 addresses, 2 bytes to a transfer, 3 bytes a socket delivers |

Why these bounds reach the interesting cases.

- `freelist`: two pages of two slots are the least that crosses a page boundary
  in both directions, cuts `total_cnt` on flush and runs past the last page;
  four numbers fill them without repetition.
- `store_server`: two files make the choice of a file matter; two chunks per file
  make them fill up. Chunks of two bytes are the least that can be written in
  part, and give every offset that is not a multiple of a chunk. Two puts per
  key tell a counted put from an uncounted one and from a second copy.
- `store_client`: `del_chunk` reaches file 0 only, so one file is enough; three
  chunks hold both keys, one of them twice; a list of two entries gives chunk 0
  out twice. The constraint `NotAstray` stops behaviours at the step in which a
  damaged list gives out a chunk, after which the properties promise nothing;
  lists are saved torn, loaded damaged and grown with a failed `malloc` before.
  What a damaged list holds is bounded to numbers of chunks of the file. A file
  that could not be opened is taken for a full one (`MCJunkFull`).
- `queue`: rings of two slots wrap after two chunks, and four chunks send one
  ring round twice.
- `server`: two files let a list file take over the number of one chunk file
  while the other is still open; files start empty, full, or full with two free
  chunks, the least that the count of `get_proper_chunk_file` sees as one, so
  that a put finds room, a free chunk or no file; a ring of one is full behind
  one chunk.
- `fuse_file`: two blocks have a hole before the second, a partial write of
  each, and one write over both; four operations are a create or open, two
  writes and whatever shows or spoils them, or a write, a release and an open;
  with two faults a second failure meets what the first one left. One chunk is
  in the chunk file at the start, so that chunk 0 is not the first written.
- `cache`: three ways are way 0 and two that can hold one fingerprint; six calls
  fill the line and replace a way twice.
- `digest`: 35 bytes wrap the low word of the count for both digests and fill
  nine blocks; every cut of every shorter message is there.
- `net`: three descriptors are a listening socket, a collection and one more, or
  those of two addresses and one more, so that a number is used again after each
  failure; three bytes take two receives of two, one of which is cut short.

Where a run uses symmetry (keys, chunk numbers, files, threads, addresses), it
checks no temporal property except `[][A]_vars`, which TLC evaluates step by
step. Deadlock is not checked: a full store aborts and stays down, bounds end
behaviours, an overrun list, a process at its end and the threads at the end of
the input stop, and `"wild"` has no successor. What matters of stopping is in
`EverythingIsStored`, `SpinEndsUnlessStuck` and `PaddingEnds`.

## 4. Fairness

`BufferQueue` and `Server` state weak fairness of `main`, the producer and each
consumer. Each is a POSIX thread that the system schedules, and the calls they
make on files return. A semaphore of a ring is waited on by one thread only, so
a wait that stays possible is taken: strong fairness is not needed.
`EndOfInput` is one disjunct of the producer and can happen at any read;
`MaxChunks` bounds the input and makes it happen. `EverythingIsStored` speaks
of runs in which every thread was started, and of the thread library alone, for
as long as the process stays up; `Server` shows what becomes of it when `main`
does not stay. `DigestStream` states weak fairness of the loop of `SHA1Final`,
which runs to its end once it was begun. The other modules state none: nothing
obliges a caller to call.

## 5. Proofs

The proofs hold for every value of the constants that meets the named
assumptions: `SizeAssumption` and `SentinelAssumption` of `ChunkStore`
(sizes are positive, a file takes one chunk at least, the sentinels are
not values), `QueueAssumption` of `BufferQueue` (at least one ring of at
least one slot, and `Garbage` is not a fingerprint; that the size is a power of two
justifies `%` for the code's mask and is not used in the proofs),
`ServerAssumption` of `Server` (sizes are positive, a list the server starts
with holds different slots below the end of its file, `None` is no slot),
`SizeAssumption`, `RoomAssumption` and `SentinelAssumption` of `FreeList`
(pages of at least one entry, at least one page, no more chunks in a file than
the pages hold entries, as the sizes in `chunks.h` and `agilefs-def.h` have it),
`CacheAssumption` of `FuseCache` and `FileAssumption` of `FuseFile` (sizes are
positive, an extent lies inside the largest file, the sentinels are not
values), `SockAssumption` of `SockIO` (there is a descriptor),
`AddrAssumption` of `TcpMethod` (addresses are not the names of the other
owners) and `DigestAssumption` of `DigestStream` (a block is larger than the
count at its end, the range of a word of the count is a multiple of a block,
counted in bits, and the buffer of a file is below half of it).

| Theorem | Module | Says |
|---|---|---|
| `ServerInvariant`, `ServerTypes` | `ChunkStoreProofs` | `ServerSpec => []ServerInv`, `[]TypeOK` |
| `ServerKeepsData` | | `[]RecordsPointAtData` |
| `ServerWritesOnce` | | `WrittenOnce` |
| `ServerImplementsDedup` | | the server implements `DedupStore` |
| `ClientInvariant`, `ClientTypes` | `ChunkStoreProofs` | `Spec => []ClientInv`, `[]TypeOK` |
| `ClientDamageIsConfined` | | `[]DamageStaysInChunkZero` |
| `QueueInvariant`, `QueueTypes` | `BufferQueueProofs` | `Spec => []QueueInv`, `[]TypeOK` |
| `QueueStoresInOrder` | | `[]StoredInOrder` |
| `QueueHasNoSlotRace` | | `[]NoSlotRace` |
| `ServerInvariant`, `ServerTypes` | `ServerProofs` | `Spec => []Inv`, `[]TypeOK` |
| `TeardownOnlyStrays` | | `[]RecordsWrongByTeardownOnly` |
| `WaitingIsEnough` | | `[]QuietStopIsSafe` |
| `WaitingKeepsAll` | | `[]QuietStopKeepsAll` |
| `StuckStays` | | `StuckForEver` |
| `ServerSpace` | `ChunkStoreProofs` | `ServerSpec => []SpaceInv` |
| `ServerWastesNoSpace`, `ServerFillsEvenly` | | `[]NoSpaceWasted`, `[]FilesFillEvenly` |
| `FreeListInvariant`, `FreeListTypes` | `FreeListProofs` | `Spec => []Inv`, `[]TypeOK` |
| `FreeListHoldsItsPages` | | `[]PagesHoldTheStack` |
| `FreeListHasRoom` | | `[]OverrunMeansFreedTwice` |
| `FreeListIsAStack` | | `FreeList` implements `ChunkStack` |
| `FilesInvariant`, `FilesTypes` | `FuseFileProofs` | `Spec => []Inv`, `[]TypeOK` |
| `FilesReadWhatWasWritten` | | `[]WrittenIsRead` |
| `FilesKeepTheirSize` | | `[]SizeIsKept` |
| `FilesAlignedReadsCount` | | `[]AlignedReadsCount` |
| `CacheInvariant`, `CacheTypes` | `FuseCacheProofs` | `Spec => []Inv`, `[]TypeOK` |
| `CacheKeepsOneWay` | | `[]OneWayBesideWayZero` |
| `CacheReturnsWhatWasPut` | | `HitIsWhatWasPut` |
| `NetInvariant`, `NetTypes` | `TcpMethodProofs` | `Spec => []Inv`, `[]TypeOK` |
| `NetReceivesTheStream` | | `[]RecvTakesTheStream` |
| `NetHasOneOwnerEach` | | `[]OneOwnerEach` |
| `DigestInvariant`, `DigestTypes` | `DigestStreamProofs` | `Spec => []Inv`, `[]TypeOK` |
| `DigestIsOfTheMessage` | | `[]DigestOfTheMessage` |
| `DigestLosesNothing` | | `[]NothingLostInTheBuffer` |
| `FileDigestWhole` | | `[]FileDigestIsWhole` |

**ServerInv.** `RecordsPointAtData` is not inductive: a put may be between its
two steps, and a write could hit a chunk a record points at. What is needed
besides: free lists stay empty (nothing frees chunks on the server), so a chunk
is always appended; `cur_size` is never before the end of the file
(`AppendsPastEnd`); and no file holds anything past its end
(`NothingPastEnd`). Hence every write goes where nothing was, which is
also `WrittenOnce`. `PendingPointsAtData` carries the chunk over the gap
between data and record, and `CountedAtMostOnce` bounds the counts for
`DedupStore`.

**ClientInv.** With `del_chunk` as it is, the free lists may hold chunk 0 of
file 0, any number of times, and nothing else, or be damaged, and only file 0's
can be (`FreesOnlyChunkZero`). So until a damaged list gives out a chunk
(`astray`) a write either lies in chunk 0 or is appended past the end of the
file (`AppendsOutsideChunkZero`), and a record outside that chunk keeps its
data. After it the types are all that holds (`ClientTypes`).

**QueueInv.** The semaphores count the chunks of a ring up to the step each
thread is in (`Semaphores`); `head` and `tail` are the numbers of chunks taken
and sent, modulo the size (`Positions`); the slots between them hold
what was sent and not yet taken (`Contents`). Writing needs a free
slot and reading a full one, so that positions used together are fewer than a
ring apart, and positions less than a ring apart are different slots
(`SlotsDiffer`): this is `NoSlotRace`. The index arithmetic
(`NextSlot`, `SlotsDiffer`) is proved for every size.

**Inv of `ServerProofs`.** A record is right as long as its slot is nobody
else's. So the lists hold different slots that were handed out before
(`ListsAreSets`), and no slot of a record, or of the chunk being written, is on
a list (`SlotsInUse`); this is lost only with a slot off a freed page. The
number of a chunk file names that file, a list file or nothing (`Descriptors`),
so that data goes to its slot or strays (`DataWritten`). For a quiet stop: once
all is stored the threads have nothing left that could change that
(`Teardown`), no key read is dropped on its way but by a failed call
(`KeysKept`), and the lists are saved one file after the other while nothing
changes them (`ListsSaved`).

**SpaceInv.** While nothing has failed, `cur_size` of a file is its end
(`SizesFollow`), so that the least used file is the shortest, and an appended
chunk leaves no gap before it.

**Inv of `FreeListProofs`.** The list is shorter than its pages (`BelowTotal`);
a list that lost nothing has exactly the pages `total_cnt` counts and has
written every entry up to `current` (`Held`), and so has its file
(`HeldInFile`); it overruns only when all pages are full (`OverrunIsFull`). An
entry that is written lies in one page and one slot (`PageBelow`, `SamePlace`),
which gives the refinement. `FreeListHasRoom` counts: a list of different chunks
is no longer than the number of chunks of a file (an injection), and there is
an entry for each.

**Inv of `FuseFileProofs`.** A fingerprint is its block, so it is enough that
the metadata names the right block for each byte written (`NamesWritten`) and
that the store has every block with a record, but for chunk 0, the only one
it frees (`ChunksKept`). For sizes: a write knows the handle it began on
(`OpInside`), what is written lies inside the size, or will when the write ends
(`InsideSize`), and the one handle of an unmixed file, or its header when
there is none, has the size (`SizesAgree`). Every failing call is in the steps
these are proved for: a record that a failed `db_get` erases takes with it what
every file had in its block, and a fingerprint that was not read is the one of
another block, whose record, if it has one, is what `ChunksKept` says.

`FilesAlignedReadsCount` follows a sum over the blocks of a read, added up in
any order. The sum of any set of them has a closed form (`Amount`: a block for
each, and less for the last), which satisfies the recursion of the sum
(`AmountAdds`), so that the sum exists; and a least set on which another
solution differed from it would be one element larger than a set on which
they agree (`AddsUp`). The blocks of the read are counted by a bijection with
their indices (`Multiples`).

**Inv of `FuseCacheProofs`.** It speaks of lines where no two threads met.
There, a writer is alone (`WriterAlone`); what it found missing stays missing
until it names a way (`StillAbsent`), and the way it named, or the way a reader
hit, keeps its name (`StillNamed`). Hence a way holds what was put under its
name (`HoldsPut`), and no two ways besides way 0 have one name (`InOneWay`).

**Inv of `TcpMethodProofs`.** A descriptor is taken only while it is closed, so
it has no owner then (`OwnedIffOpen`, `OwnerIsOne`); what loses its owner
without being closed was leaked (`LeakedIsOpen`). An address whose socket
was closed, or that is connected, has a number (`HasNumber`). A send never
counts (`SendKeepsAll`), which is the finding on `sockio_nbsend`. A receive has
in its buffer the bytes that follow those taken before it began
(`ReceivedSoFar`); so when it returns, the bytes of all calls are still those
that left the socket but for what failed calls dropped (`Settled`), and when it
fails its own are dropped.

**Inv of `DigestStreamProofs`.** A context *has* a sequence when its state is
the whole blocks of it, its buffer begins with the rest, and its count is that
of its length, in the words of MD5 or SHA-1 (`Has`). An update that is given
`x` takes a context that has `s` to one that has `s \o x`, for pieces that stay
in the buffer, fill it, or run over several blocks (`Md5Takes`, `Sha1Takes`):
this is where a count taken for the wrong place in the buffer, or a carry lost
between its words, would show. The invariant then says which sequence it is at
each place: the message so far; the message with its padding, never more of it
than is needed (`Fewest`, as the loop of `SHA1Final` looks at a count that
its own updates move); the padded message of the RFC at the end. And `md5_file`
has read all of the file when it returns 0. That the state, flattened, is the
message follows the recursion of `FlattenSeq` by least counterexample, as above.

**Only model-checked.** The liveness properties `EverythingIsStored`,
`SpinEndsUnlessStuck` and `PaddingEnds`, for fairness arguments are out of the
prover's reach. Every other property of the passing runs, the refinements
included, is stated by a theorem. The findings (runs that end in a violation)
are TLC's.

## 6. Findings

Three runs end in a violation; each is the code against what the document of
the repository (`src/doc/master.docx`) says.

- `store_delete`: `del_chunk` (`chunks-io.c:145`) frees chunk 0 of file 0 when
  the key is *not* known and does nothing when it is. Section 3.3.3 says to
  free the chunk and delete the record when the share count is 1.
- `store_full`: `get_proper_chunk_file` (`chunks-io.c:35`) takes the index of
  the top of the free list for its length, so that the last free chunk of a
  full store is never used and `block_write` ends the process in its assertion.
  The run: two keys fill the only file, a delete frees a chunk, no file is proper.
- `queue_route`: the first int of a fingerprint is used as an index unreduced
  (`thread-mgr.c:227`; the same in `db_ops.c:103`). Section 3.4.1 asks for an
  unsigned int and a uniform hash of it.

Seen while modelling, without a run of their own; where a passing property has
an exception for one, it is named.

- `get_one_chunk` is called with its two buffers in the other order than the
  callee declares them (`thread-mgr.c:223`); the fingerprint is computed over
  `HASH_SIZE` bytes and not over the chunk (`agilefs-server.c:43`).
- Section 4.3.3 of the document says the file with the largest free area is
  chosen, the code chooses the least used space, which agrees only while no
  list is counted short. `sync_chunk_data` tests its result the wrong way round.
- `main` of the server saves the free-chunk lists while the consumer may still
  take chunks off them (`agilefs-server.c:58`): what was lost or went into a
  list file is what `quiet`, `strayed` and `junk` tell apart. A put that failed
  goes unnoticed as well (`thread-mgr.c:262`): `lost`.
- A damaged free list gives out chunks in use (`chunks.c:42-47, 81-84, 99-112`):
  `astray` in `DamageStaysInChunkZero`.
- `fuse_write` goes on when the old block of a partial write cannot be read
  (`agilefs-fuse.c:503`), with zeros in its place; `del_chunk` erases a record
  that may be shared when `db_get` fails on it. Both are exceptions of
  `WrittenIsRead`.
- `fuse_truncate` answers 0 when the header was not written, and `fuse_unlink`
  empties a file also when the name then stays (`agilefs-fuse.c:298, 334`):
  `mixed`.
- `SHA1Update` copies a piece of nearly 2^32 bytes past its buffer
  (`sha1.c:191`): `"overrun"`.
- `fuse_read` returns the bytes it asked the store for, not those it read, and
  subtracts one for each block without a record (`agilefs-fuse.c:449`;
  `AlignedReadsCount` holds only for reads that begin at a block).
- A file opened twice, or truncated by name while open, has two sizes, and the
  handle released last decides (`agilefs-fuse.c:531`): `mixed` in `SizeIsKept`.
  One that is unlinked while open keeps the size of its handle.
- `fuse_write` passes an uninitialised fingerprint to `cache_write`
  (`agilefs-fuse.c:526`), and `fuse_read` caches what a read that began inside a
  block got as if it were the block (`agilefs-fuse.c:444-453`): with the cache
  built in, a hit is what was put and not what was written.
- `fuse_getattr` is said to be "equal to the stat/lstaf system call"
  (`agilefs-fuse.c:76`), but reads the header by path, which a write leaves alone
  until the handle is released (`agilefs-fuse.c:98`): open a file, write a block,
  and it has the size it had. `SizeIsKept` takes the size of an open file from
  its handles (`SizesSeen`).
- `sockio_nbrecv` and `sockio_nbsend` assert that their socket does not block
  (`sockio.c:137, 164`); where it is made so, a failing `fcntl` goes unnoticed
  (`tcp.c:82-84, 110-112, 146-148`): accept, with an `fcntl` that fails, and the
  first transfer ends the process (`"aborted"`).
- Lives of cache ways wrap from 0 to `USHRT_MAX` (`fuse_cache.c:48`).
- `ret = 0 || ...` in `sockio_nbsend` (`sockio.c:169`) makes it send the same
  bytes until the socket is full and return 0.
- `tcp_server_init` clears the address, port included, before it binds
  (`tcp.c:77`); after a failed `TCP_NODELAY` the address keeps the number of a
  closed socket and the next send takes it for a connection (`tcp.c:115`):
  `stale` in `OneOwnerEach`.
- `is_zero` of `z-hash.h:56` calls itself for ever; nothing includes it.

## 7. What is not modelled

- `sync_chunk_data`: with no crash of the machine there is nothing it could save.
- Bits: the compression functions of MD5 and SHA-1 are uninterpreted; that
  different chunks have different fingerprints is assumed (a key names one data).
- `write_hash_db` and the meta server are called by the code and not in the
  repository: they are modelled from their callers and marked external.
- A crash of the machine: a death of the process keeps what `pwrite` wrote.
- Several databases (`NUM_SERVER_DBS` is 1), and a `DB_init` that fails.
- Several threads in the chunk store. The server has one consumer
  (`NUM_BUFFER_QUEUES` is 1). The FUSE client may have several; `FuseFile` runs
  its operations one at a time.
- FUSE calls that the client hands on unchanged (directories, attributes,
  symbolic links, `statfs`, `ioctl`).
- `write_block_file` and `ulink_block_file` (share counts in extended
  attributes), the macros of the metafile locks, `sockio_nbvector`,
  `socket_collection_testglobal`, `z-hash.h`: nothing calls them.
- The storage layer (it does not compile), the `epoll` variant of the socket
  collection (its headers are missing), the alternative XML parser, the test
  programs; formatting and logging.

## 8. Plan

What is left, most important first.

1. `FuseThreads`: two threads of FUSE over one `ChunkStore`, with `put_new_chunk`
   cut at its calls: two puts of one new key, two increments of one count, a
   put beside a `del_chunk`.
2. `FuseFile` with writes of two handles that take turns block by block.
3. Proofs: `FuseThreads`, once it is written, needs the client's invariant
   (`ClientInv` of `ChunkStoreProofs`) per thread.
