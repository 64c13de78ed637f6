------------------------------ MODULE FreeList ------------------------------
(***************************************************************************)
(* The free-chunk list of one chunk file (src/src/server/chunks.c): a      *)
(* stack of chunk numbers kept in pages of PER_LIST_SIZE entries that are  *)
(* allocated on demand, read from a list file when the server starts and   *)
(* written back to it when it shuts down.                                  *)
(*                                                                         *)
(* A list file is its header (total_cnt, current) and the pages that were  *)
(* written after it; an absent file and an empty one read the same.  A     *)
(* read() or write() of a header or of a page either happens or does not.  *)
(***************************************************************************)
EXTENDS Integers, SequencesExt

CONSTANTS PER_LIST_SIZE,   \* entries of a page
          FREE_CHUNK_MAX,  \* pages of a list
          Offset,          \* the chunks of the file, the values a caller adds
          NULL,            \* a page that is not allocated
          Junk,            \* an entry of an allocated page nobody wrote
          Unknown          \* an abstract list that promises nothing

ASSUME SizeAssumption == /\ PER_LIST_SIZE \in Nat \ {0}
                         /\ FREE_CHUNK_MAX \in Nat \ {0}

(* A chunk file holds as many chunks as its list has room for: 4 GB of     *)
(* 4 KB chunks, and 1024 pages of 1024 entries.                            *)
ASSUME RoomAssumption ==
    IsFiniteSet(Offset) /\ Cardinality(Offset) <= PER_LIST_SIZE * FREE_CHUNK_MAX

(* The sentinels are what they are not. *)
ASSUME SentinelAssumption ==
    /\ Junk \notin Offset
    /\ NULL \notin [0 .. PER_LIST_SIZE - 1 -> Offset \cup {Junk}]
    /\ Unknown \notin Seq(Offset)

VARIABLES
    phase,      \* "down", "up", or "overrun": base[] was written past its end
    total_cnt,  \* entries the allocated pages hold
    current,    \* the top of the stack, -1 when it is empty
    base,       \* the pages
    file,       \* the list file
    ret,        \* what the last get_first_free_chunk returned
    fault,      \* ghost: a call failed, or the process died, in the last step
    intact,     \* ghost: the list in memory lost nothing
    fileIntact  \* ghost: the list file lost nothing

list == <<total_cnt, current, base>>
ghosts == <<fault, intact, fileIntact>>
vars == <<phase, list, file, ret, ghosts>>

PageNo   == 0 .. FREE_CHUNK_MAX - 1
SlotNo   == 0 .. PER_LIST_SIZE - 1
Page     == [SlotNo -> Offset \cup {Junk}]
JunkPage == [s \in SlotNo |-> Junk]
NoPages  == [p \in PageNo |-> NULL]
NoFile   == [total |-> 0, current |-> -1, pages |-> <<>>]

PageOf(i) == i \div PER_LIST_SIZE
SlotOf(i) == i % PER_LIST_SIZE

(* free_list(fclp, i), where the page of i is there *)
Entry(i) == base[PageOf(i)][SlotOf(i)]

TypeOK ==
    /\ phase \in {"down", "up", "overrun"}
    /\ total_cnt \in {PER_LIST_SIZE * n : n \in 0 .. FREE_CHUNK_MAX}
    /\ current \in -1 .. PER_LIST_SIZE * FREE_CHUNK_MAX - 1
    /\ base \in [PageNo -> Page \cup {NULL}]
    /\ file.total \in {PER_LIST_SIZE * n : n \in 0 .. FREE_CHUNK_MAX}
    /\ file.current \in -1 .. file.total - 1
    /\ file.pages \in Seq(Page) /\ Len(file.pages) <= PageOf(file.total)
    /\ ret \in Offset \cup {Junk, -1}
    /\ fault \in BOOLEAN /\ intact \in BOOLEAN /\ fileIntact \in BOOLEAN

Init == /\ phase = "down"
        /\ total_cnt = 0 /\ current = -1 /\ base = NoPages
        /\ file = NoFile
        /\ ret = -1
        /\ fault = FALSE /\ intact = TRUE /\ fileIntact = TRUE

-----------------------------------------------------------------------------
(* Mutant: the top of the stack is taken from total_cnt. *)
InitTopFromTotal(failed) ==
    /\ phase = "down" /\ phase' = "up"
    /\ failed = {}
    /\ total_cnt' = file.total
    /\ current' = file.total - 1
    /\ base' = [p \in PageNo |-> IF PageOf(file.total) <= p THEN NULL
                                 ELSE IF p < Len(file.pages) THEN file.pages[p + 1]
                                      ELSE JunkPage]
    /\ intact' = fileIntact
    /\ fault' = FALSE
    /\ UNCHANGED <<file, ret, fileIntact>>

(* init_free_chunk.  failed is the set of pages malloc gives no memory     *)
(* for: read() into NULL fails and leaves the next page of the file for    *)
(* the next page in memory; past the end of the file a page keeps the junk *)
(* malloc returned.                                                        *)
init_free_chunk(failed) ==
    LET FilePage(p) == Cardinality({q \in 0 .. p - 1 : q \notin failed}) + 1
    IN /\ phase = "down" /\ phase' = "up"
       /\ failed \subseteq 0 .. PageOf(file.total) - 1
       /\ total_cnt' = file.total
       /\ current' = file.current
       /\ base' = [p \in PageNo |->
                     IF PageOf(file.total) <= p \/ p \in failed THEN NULL
                     ELSE IF FilePage(p) <= Len(file.pages)
                          THEN file.pages[FilePage(p)] ELSE JunkPage]
       /\ intact' = (fileIntact /\ failed = {})
       /\ fault' = (failed # {})
       /\ UNCHANGED <<file, ret, fileIntact>>

(* open() fails: init_free_chunk returns -1, which its caller ignores, and *)
(* the list stays empty.                                                   *)
InitOpenFails == /\ phase = "down" /\ phase' = "up"
                 /\ file # NoFile
                 /\ total_cnt' = 0 /\ current' = -1 /\ base' = NoPages
                 /\ intact' = TRUE /\ fault' = TRUE
                 /\ UNCHANGED <<file, ret, fileIntact>>

(* get_first_free_chunk *)
GetEmpty == /\ phase = "up" /\ current = -1
            /\ ret' = -1
            /\ fault' = FALSE
            /\ UNCHANGED <<phase, list, file, intact, fileIntact>>

(* Mutant: the entry is returned and stays on the list. *)
GetWithoutPop == /\ phase = "up" /\ current # -1
                 /\ base[PageOf(current)] # NULL
                 /\ ret' = Entry(current)
                 /\ fault' = FALSE
                 /\ UNCHANGED <<phase, list, file, intact, fileIntact>>

GetFirst == /\ phase = "up" /\ current # -1
            /\ base[PageOf(current)] # NULL
            /\ ret' = Entry(current)
            /\ current' = current - 1
            /\ fault' = FALSE
            /\ UNCHANGED <<phase, total_cnt, base, file, intact, fileIntact>>

(* add_free_chunk: below total_cnt the entry goes to its page; at          *)
(* total_cnt a page is allocated first, and both counters have moved       *)
(* before malloc is known to have failed.                                  *)
AddInPage(x) ==
    LET top == current + 1
    IN /\ phase = "up" /\ top < total_cnt
       /\ base[PageOf(top)] # NULL
       /\ current' = top
       /\ base' = [base EXCEPT ![PageOf(top)][SlotOf(top)] = x]
       /\ fault' = FALSE
       /\ UNCHANGED <<phase, total_cnt, file, ret, intact, fileIntact>>

(* Mutant: the entry is stored only where no page was allocated. *)
AddPageOnly(x) ==
    LET top == current + 1
    IN /\ phase = "up" /\ top >= total_cnt
       /\ PageOf(top) \in PageNo
       /\ current' = top
       /\ total_cnt' = total_cnt + PER_LIST_SIZE
       /\ base' = [base EXCEPT ![PageOf(top)] = JunkPage]
       /\ fault' = FALSE
       /\ UNCHANGED <<phase, file, ret, intact, fileIntact>>

AddNewPage(x) ==
    LET top == current + 1
    IN /\ phase = "up" /\ top >= total_cnt
       /\ PageOf(top) \in PageNo
       /\ current' = top
       /\ total_cnt' = total_cnt + PER_LIST_SIZE
       /\ base' = [base EXCEPT ![PageOf(top)] = [JunkPage EXCEPT ![SlotOf(top)] = x]]
       /\ fault' = FALSE
       /\ UNCHANGED <<phase, file, ret, intact, fileIntact>>

AddMallocFails ==
    /\ phase = "up" /\ current + 1 >= total_cnt
    /\ PageOf(current + 1) \in PageNo
    /\ current' = current + 1
    /\ total_cnt' = total_cnt + PER_LIST_SIZE
    /\ intact' = FALSE /\ fault' = TRUE
    /\ UNCHANGED <<phase, base, file, ret, fileIntact>>

(* No bound on the pages is tested: base[FREE_CHUNK_MAX] lies past the     *)
(* array, and what the program does next is not defined.                   *)
AddOverrun ==
    /\ phase = "up" /\ current + 1 >= total_cnt
    /\ PageOf(current + 1) \notin PageNo
    /\ phase' = "overrun"
    /\ UNCHANGED <<list, file, ret, ghosts>>

(* free_list dereferences a page malloc did not give: the process dies. *)
Forget == /\ phase' = "down"
          /\ total_cnt' = 0 /\ current' = -1 /\ base' = NoPages
          /\ intact' = TRUE
          /\ UNCHANGED ret

NullPage == /\ phase = "up"
            /\ \/ current # -1 /\ base[PageOf(current)] = NULL
               \/ current + 1 < total_cnt /\ base[PageOf(current + 1)] = NULL
            /\ Forget
            /\ fault' = TRUE
            /\ UNCHANGED <<file, fileIntact>>

-----------------------------------------------------------------------------
(* Mutant: total_cnt is not cut to whole pages. *)
FlushTotalUncut == current + PER_LIST_SIZE

(* flush_free_chunk: total_cnt is cut to the pages current reaches (none   *)
(* when current is -1), the header goes first, then each page; the write   *)
(* of a page that was never allocated fails and adds nothing.              *)
FlushTotal == PageOf(current) * PER_LIST_SIZE + PER_LIST_SIZE
Kept       == {p \in PageNo : p < PageOf(FlushTotal) /\ base[p] # NULL}
Written(n) == CHOOSE p \in Kept : Cardinality({q \in Kept : q < p}) = n - 1
Flushed == [total   |-> FlushTotal,
            current |-> current,
            pages   |-> [n \in 1 .. Cardinality(Kept) |-> base[Written(n)]]]

flush_free_chunk == /\ phase = "up"
                    /\ file' = Flushed
                    /\ fileIntact' = intact
                    /\ Forget
                    /\ fault' = FALSE

(* open() fails: -1 is returned and the previous list file stays *)
FlushOpenFails == /\ phase = "up"
                  /\ Forget
                  /\ fault' = TRUE
                  /\ UNCHANGED <<file, fileIntact>>

(* The process dies at any moment, or while it flushes: O_TRUNC has        *)
(* emptied the file, and the header and some of the pages were written.    *)
Crash == /\ phase = "up"
         /\ Forget
         /\ fault' = TRUE
         /\ UNCHANGED <<file, fileIntact>>

CrashInFlush ==
    /\ phase = "up"
    /\ \/ /\ file' = NoFile
          /\ fileIntact' = TRUE
       \/ \E n \in 0 .. Len(Flushed.pages) :
            /\ file' = [Flushed EXCEPT !.pages = SubSeq(@, 1, n)]
            /\ fileIntact' = (intact /\ n = Len(Flushed.pages))
    /\ Forget
    /\ fault' = TRUE

Next == \/ \E failed \in SUBSET PageNo : init_free_chunk(failed)
        \/ InitOpenFails
        \/ GetEmpty \/ GetFirst
        \/ \E x \in Offset : AddInPage(x) \/ AddNewPage(x)
        \/ AddMallocFails \/ AddOverrun \/ NullPage
        \/ flush_free_chunk \/ FlushOpenFails
        \/ Crash \/ CrashInFlush

Spec == Init /\ [][Next]_vars

-----------------------------------------------------------------------------
(* The stack the list stands for, in memory and in a list file. *)
List      == [i \in 1 .. current + 1 |-> Entry(i - 1)]
SavedList == [i \in 1 .. file.current + 1 |->
                 file.pages[PageOf(i - 1) + 1][SlotOf(i - 1)]]

(* A list that lost nothing never points into a page that is not there and *)
(* never holds an entry nobody wrote: get_first_free_chunk cannot fault or *)
(* hand out junk, whatever sequence of adds, gets, flushes and reloads     *)
(* came before.                                                            *)
PagesHoldTheStack ==
    phase = "up" /\ intact =>
        /\ current < total_cnt
        /\ \A i \in 0 .. current : base[PageOf(i)] # NULL /\ Entry(i) # Junk
        /\ \A p \in PageNo : base[p] # NULL <=> p < PageOf(total_cnt)

(* FREE_CHUNK_MAX pages are enough for every chunk of a file to be free at *)
(* once: add_free_chunk runs past base[] only when a chunk is freed twice  *)
(* (one is in the list twice, or all are in it already), or when the list  *)
(* had lost its contents.                                                  *)
OverrunMeansFreedTwice ==
    phase = "overrun" => \/ ~intact
                         \/ ~IsInjective(List)
                         \/ Offset \subseteq Range(List)

(* The abstract stack this list implements. *)
Stack == INSTANCE ChunkStack WITH
    NoChunk <- -1,
    stack   <- IF phase = "down" THEN <<>> ELSE IF intact THEN List ELSE Unknown,
    saved   <- IF fileIntact THEN SavedList ELSE Unknown,
    up      <- phase # "down"

(* chunks.c keeps a stack across shutdown and start: what one run of the   *)
(* server freed and did not reuse is what the next one pops, last first,   *)
(* and only failures and crashes may change that.                          *)
ImplementsStack == Stack!Spec
=============================================================================
