---------------------------- MODULE FreeListProofs ----------------------------
(***************************************************************************)
(* What FreeList promises for pages of any size, any number of them and    *)
(* any chunks: types, no entry that was never written, no page too few,    *)
(* and that it is the stack of ChunkStack.                                 *)
(***************************************************************************)
EXTENDS FreeList, FiniteSetTheorems, SequenceTheorems, TLAPS

(* The list is shorter than its pages. *)
BelowTotal == current < total_cnt

(* A list that lost nothing has its pages, and wrote what they hold below  *)
(* the top.                                                                *)
Held == intact =>
    /\ \A p \in PageNo : base[p] # NULL <=> p < PageOf(total_cnt)
    /\ \A i \in 0 .. current : Entry(i) # Junk

(* So has a list file. *)
SavedEntry(f, i) == f.pages[PageOf(i) + 1][SlotOf(i)]

HeldIn(f) == /\ Len(f.pages) = PageOf(f.total)
             /\ \A i \in 0 .. f.current : SavedEntry(f, i) # Junk

HeldInFile == fileIntact => HeldIn(file)

(* The list that overruns its pages has filled them. *)
OverrunIsFull == phase = "overrun" => PER_LIST_SIZE * FREE_CHUNK_MAX <= current + 1

Inv == TypeOK /\ BelowTotal /\ Held /\ HeldInFile /\ OverrunIsFull

(* The parts of TypeOK. *)
Total == {PER_LIST_SIZE * n : n \in 0 .. FREE_CHUNK_MAX}

ListType == /\ total_cnt \in Total
            /\ current \in -1 .. PER_LIST_SIZE * FREE_CHUNK_MAX - 1
            /\ base \in [PageNo -> Page \cup {NULL}]

FileType(f) == /\ f.total \in Total
               /\ f.current \in -1 .. f.total - 1
               /\ f.pages \in Seq(Page)
               /\ Len(f.pages) <= PageOf(f.total)

RestType == /\ phase \in {"down", "up", "overrun"}
            /\ ret \in Offset \cup {Junk, -1}
            /\ fault \in BOOLEAN /\ intact \in BOOLEAN /\ fileIntact \in BOOLEAN

(* They are all of it. *)
LEMMA TypeParts == TypeOK <=> ListType /\ FileType(file) /\ RestType
  BY DEF TypeOK, ListType, FileType, RestType, Total

-----------------------------------------------------------------------------
(* Pages and slots. *)

(* A place is a page and a slot of it. *)
LEMMA PageAndSlot ==
    ASSUME NEW i \in Nat
    PROVE  /\ PageOf(i) \in Nat
           /\ SlotOf(i) \in SlotNo
           /\ i = PER_LIST_SIZE * PageOf(i) + SlotOf(i)
  BY SizeAssumption, SMT DEF PageOf, SlotOf, SlotNo

(* No page and slot are two places. *)
LEMMA SamePlace ==
    ASSUME NEW i \in Nat, NEW j \in Nat,
           PageOf(i) = PageOf(j), SlotOf(i) = SlotOf(j)
    PROVE  i = j
  BY PageAndSlot

(* The pages that end at PER_LIST_SIZE * n are those below n. *)
LEMMA PageBelow ==
    ASSUME NEW i \in Nat, NEW n \in Nat
    PROVE  i < PER_LIST_SIZE * n <=> PageOf(i) < n
<1> DEFINE N == PER_LIST_SIZE
           q == PageOf(i)
           r == SlotOf(i)
<1>1. N \in Nat \ {0} /\ q \in Nat /\ r \in 0 .. N - 1 /\ i = N * q + r
  BY PageAndSlot, SizeAssumption DEF SlotNo
<1> HIDE DEF N, q, r
<1>2. CASE q < n
  <2>1. N * (n - q) >= N
    BY <1>1, <1>2
  <2>2. N * (n - q) = N * n - N * q
    BY <1>1
  <2>3. N * n \in Int /\ N * q \in Int
    BY <1>1
  <2> QED
    BY <1>1, <1>2, <2>1, <2>2, <2>3 DEF N, q
<1>3. CASE n <= q
  <2>1. N * (q - n) >= 0
    BY <1>1, <1>3
  <2>2. N * (q - n) = N * q - N * n
    BY <1>1
  <2>3. N * n \in Int /\ N * q \in Int
    BY <1>1
  <2> QED
    BY <1>1, <1>3, <2>1, <2>2, <2>3 DEF N, q
<1> QED
  BY <1>1, <1>2, <1>3

(* A whole number of pages. *)
LEMMA PageOfMultiple ==
    ASSUME NEW n \in Nat
    PROVE  /\ PER_LIST_SIZE * n \in Nat
           /\ PageOf(PER_LIST_SIZE * n) = n
           /\ SlotOf(PER_LIST_SIZE * n) = 0
  BY SizeAssumption, SMT DEF PageOf, SlotOf

(* The top of an empty list is on page -1. *)
LEMMA PageOfEmpty == PageOf(-1) = -1
  BY SizeAssumption, SMT DEF PageOf

(* Fewer pages hold fewer entries. *)
LEMMA TotalsOrdered ==
    ASSUME NEW m \in Nat, NEW n \in Nat
    PROVE  /\ m <= n => PER_LIST_SIZE * m <= PER_LIST_SIZE * n
           /\ m < n => PER_LIST_SIZE * m + PER_LIST_SIZE <= PER_LIST_SIZE * n
           /\ PER_LIST_SIZE * m + PER_LIST_SIZE = PER_LIST_SIZE * (m + 1)
<1>1. PER_LIST_SIZE * n - PER_LIST_SIZE * m = PER_LIST_SIZE * (n - m)
  BY SizeAssumption
<1>2. m <= n => PER_LIST_SIZE * (n - m) >= 0
  BY SizeAssumption
<1>3. m < n => PER_LIST_SIZE * (n - m) >= PER_LIST_SIZE
  BY SizeAssumption
<1>4. PER_LIST_SIZE * m \in Int /\ PER_LIST_SIZE * n \in Int
  BY SizeAssumption
<1> QED
  BY <1>1, <1>2, <1>3, <1>4, SizeAssumption

-----------------------------------------------------------------------------
(* Counting and sequences. *)

(* A function of the first n numbers is a sequence of length n. *)
LEMMA FunctionIsSeq ==
    ASSUME NEW S, NEW n \in Nat, NEW f \in [1 .. n -> S]
    PROVE  f \in Seq(S) /\ Len(f) = n
<1>1. f \in Seq(S)
  BY SeqDef
<1>2. DOMAIN f = 1 .. n
  OBVIOUS
<1>3. DOMAIN f = 1 .. Len(f) /\ Len(f) \in Nat
  BY <1>1, LenProperties
<1> QED
  BY <1>1, <1>2, <1>3

(* In a finite set of numbers there is one with n - 1 below it. *)
LEMMA NthExists ==
    ASSUME NEW S \in SUBSET Nat, IsFiniteSet(S), NEW n \in 1 .. Cardinality(S)
    PROVE  \E p \in S : Cardinality({q \in S : q < p}) = n - 1
<1> DEFINE Below(p) == {q \in S : q < p}
           c == Cardinality(S)
           f == [p \in S |-> Cardinality(Below(p))]
           T == 0 .. c - 1
<1>1. c \in Nat /\ n \in Nat
  BY FS_CardinalityType
<1>2. ASSUME NEW p \in S
      PROVE  /\ IsFiniteSet(Below(p))
             /\ Cardinality(Below(p)) \in 0 .. c - 1
  <2>1. Below(p) \in SUBSET S /\ p \notin Below(p)
    OBVIOUS
  <2>2. IsFiniteSet(Below(p)) /\ Cardinality(Below(p)) <= c
    BY <2>1, FS_Subset
  <2>3. Cardinality(Below(p)) # c
    BY <2>1, FS_Subset
  <2>4. Cardinality(Below(p)) \in Nat
    BY <2>2, FS_CardinalityType
  <2> QED
    BY <1>1, <2>2, <2>3, <2>4
<1>3. ASSUME NEW p \in S, NEW r \in S, p < r
      PROVE  Cardinality(Below(p)) # Cardinality(Below(r))
  <2>1. \A q \in S : q \in Int
    OBVIOUS
  <2>2. p \in Below(r) /\ p \notin Below(p)
    BY <1>3, <2>1
  <2>3. Below(p) \in SUBSET Below(r)
    <3>1. \A q \in S : q < p => q < r
      BY <1>3, <2>1
    <3> QED
      BY <3>1
  <2> QED
    BY <2>2, <2>3, <1>2, FS_Subset
<1>4. f \in [S -> T]
  BY <1>2
<1>5. \A p, r \in S : f[p] = f[r] => p = r
  <2> SUFFICES ASSUME NEW p \in S, NEW r \in S, f[p] = f[r], p # r PROVE FALSE
    OBVIOUS
  <2>1. Cardinality(Below(p)) = Cardinality(Below(r))
    OBVIOUS
  <2>2. p < r \/ r < p
    OBVIOUS
  <2> HIDE DEF Below
  <2> QED
    BY <1>3, <2>1, <2>2
<1>6. IsFiniteSet(T) /\ Cardinality(T) = c
  <2>1. c - 1 \in Int
    BY <1>1
  <2> QED
    BY <1>1, <2>1, FS_Interval
<1> HIDE DEF f, T, Below
<1>7. f \in Injection(S, T)
  BY <1>4, <1>5 DEF Injection, IsInjective
<1>8. f \in Surjection(S, T)
  BY <1>6, <1>7, FS_Injection DEF c
<1>9. n - 1 \in T
  BY <1>1 DEF T, c
<1>10. PICK p \in S : f[p] = n - 1
  BY <1>8, <1>9 DEF Surjection
<1> QED
  BY <1>10 DEF f, Below

(* The numbers below p are p. *)
LEMMA CountBelow ==
    ASSUME NEW p \in Nat, NEW m \in Nat, p <= m
    PROVE  Cardinality({q \in 0 .. m - 1 : q < p}) = p
<1>1. {q \in 0 .. m - 1 : q < p} = 0 .. p - 1
  OBVIOUS
<1>2. p - 1 \in Int /\ 0 \in Int
  OBVIOUS
<1>3. Cardinality(0 .. p - 1) = IF 0 > p - 1 THEN 0 ELSE p - 1 - 0 + 1
  BY <1>2, FS_Interval
<1>4. Cardinality(0 .. p - 1) = p
  BY <1>3
<1> QED
  BY <1>1, <1>4

-----------------------------------------------------------------------------
(* What the types say of sizes and pages. *)

(* The sizes are whole numbers of pages. *)
LEMMA TotalIsPages ==
    ASSUME NEW t \in Total
    PROVE  /\ PageOf(t) \in 0 .. FREE_CHUNK_MAX
           /\ t \in Nat /\ t = PER_LIST_SIZE * PageOf(t)
           /\ t <= PER_LIST_SIZE * FREE_CHUNK_MAX
<1>1. PICK n \in 0 .. FREE_CHUNK_MAX : t = PER_LIST_SIZE * n
  BY DEF Total
<1>2. FREE_CHUNK_MAX \in Nat /\ n \in Nat /\ n <= FREE_CHUNK_MAX
  BY SizeAssumption
<1>3. PageOf(t) = n /\ t \in Nat
  BY <1>1, <1>2, PageOfMultiple
<1>4. t <= PER_LIST_SIZE * FREE_CHUNK_MAX
  BY <1>1, <1>2, TotalsOrdered
<1> QED
  BY <1>1, <1>2, <1>3, <1>4

(* A page is not the absence of one. *)
LEMMA PageIsThere ==
    /\ NULL \notin Page
    /\ JunkPage \in Page
    /\ \A g \in Page, s \in SlotNo, x \in Offset : [g EXCEPT ![s] = x] \in Page
  BY SentinelAssumption DEF Page, SlotNo, JunkPage

(* The place of an entry of the list. *)
LEMMA EntryPlace ==
    ASSUME NEW c \in Int, NEW t \in Total, c < t, NEW i \in 0 .. c
    PROVE  /\ i \in Nat /\ SlotOf(i) \in SlotNo
           /\ PageOf(i) \in PageNo /\ PageOf(i) < PageOf(t)
<1>1. i \in Nat /\ i < t
  BY TotalIsPages
<1>2. PageOf(i) \in Nat /\ SlotOf(i) \in SlotNo
  BY <1>1, PageAndSlot
<1>3. PageOf(t) \in 0 .. FREE_CHUNK_MAX /\ t = PER_LIST_SIZE * PageOf(t)
  BY TotalIsPages
<1>4. PageOf(t) \in Nat
  BY <1>3
<1>5. PageOf(i) < PageOf(t)
  BY <1>1, <1>3, <1>4, PageBelow
<1> QED
  BY <1>1, <1>2, <1>3, <1>5, SizeAssumption DEF PageNo

(* The list ends where its last page does, and add_free_chunk needs a new  *)
(* page exactly there.                                                     *)
LEMMA NewPagePlace ==
    ASSUME ListType, BelowTotal, current + 1 >= total_cnt
    PROVE  /\ current + 1 = total_cnt /\ total_cnt \in Nat
           /\ PageOf(current + 1) = PageOf(total_cnt)
           /\ PageOf(total_cnt) \in 0 .. FREE_CHUNK_MAX
           /\ total_cnt = PER_LIST_SIZE * PageOf(total_cnt)
           /\ SlotOf(current + 1) = 0
<1>1. total_cnt \in Total /\ current \in Int
  BY SizeAssumption DEF ListType
<1>2. /\ PageOf(total_cnt) \in 0 .. FREE_CHUNK_MAX
      /\ total_cnt \in Nat /\ total_cnt = PER_LIST_SIZE * PageOf(total_cnt)
  BY <1>1, TotalIsPages
<1>3. current + 1 = total_cnt
  BY <1>1, <1>2 DEF BelowTotal
<1>4. PICK n \in Nat : n = PageOf(total_cnt)
  BY <1>2, SizeAssumption
<1>5. SlotOf(PER_LIST_SIZE * n) = 0
  BY PageOfMultiple
<1> QED
  BY <1>2, <1>3, <1>4, <1>5

(* flush_free_chunk keeps the pages up to the top. *)
LEMMA FlushTotalFacts ==
    ASSUME ListType
    PROVE  /\ PageOf(FlushTotal) = PageOf(current) + 1
           /\ PageOf(FlushTotal) \in 0 .. FREE_CHUNK_MAX
           /\ FlushTotal \in Total
           /\ current < FlushTotal
           /\ BelowTotal => PageOf(FlushTotal) <= PageOf(total_cnt)
<1> DEFINE K == PageOf(current) + 1
<1>0. /\ PER_LIST_SIZE \in Nat \ {0} /\ FREE_CHUNK_MAX \in Nat \ {0}
      /\ current \in Int /\ current >= -1
      /\ current < PER_LIST_SIZE * FREE_CHUNK_MAX
      /\ PER_LIST_SIZE * FREE_CHUNK_MAX \in Int
  <2>1. PER_LIST_SIZE * FREE_CHUNK_MAX \in Int
    BY SizeAssumption
  <2> QED
    BY <2>1, SizeAssumption DEF ListType
<1>1. K \in 0 .. FREE_CHUNK_MAX /\ (BelowTotal => K <= PageOf(total_cnt))
  <2>1. CASE current = -1
    <3>1. PageOf(total_cnt) \in 0 .. FREE_CHUNK_MAX
      BY TotalIsPages DEF ListType
    <3> QED
      BY <2>1, <3>1, <1>0, PageOfEmpty
  <2>2. CASE current # -1
    <3>1. current \in Nat
      BY <2>2, <1>0
    <3>2. PageOf(current) \in Nat
      BY <3>1, PageAndSlot
    <3>3. PageOf(current) < FREE_CHUNK_MAX
      BY <3>1, <1>0, PageBelow
    <3>4. /\ PageOf(total_cnt) \in 0 .. FREE_CHUNK_MAX
          /\ total_cnt = PER_LIST_SIZE * PageOf(total_cnt)
      BY TotalIsPages DEF ListType
    <3>5. PICK n \in Nat : n = PageOf(total_cnt)
      BY <3>4, <1>0
    <3>6. PICK i \in Nat : i = current
      BY <3>1
    <3>7. i < PER_LIST_SIZE * n <=> PageOf(i) < n
      BY PageBelow
    <3>8. BelowTotal => PageOf(current) < PageOf(total_cnt)
      BY <3>4, <3>5, <3>6, <3>7 DEF BelowTotal
    <3> QED
      BY <3>2, <3>3, <3>4, <3>8, <1>0
  <2> QED
    BY <2>1, <2>2
<1>2. PageOf(current) \in Int
  <2>1. CASE current = -1
    BY <2>1, PageOfEmpty
  <2>2. CASE current # -1
    <3>1. current \in Nat
      BY <2>2, <1>0
    <3> QED
      BY <3>1, PageAndSlot
  <2> QED
    BY <2>1, <2>2
<1>3. FlushTotal = PER_LIST_SIZE * K
  BY <1>0, <1>2 DEF FlushTotal
<1>4. PICK k \in Nat : k = K
  BY <1>0, <1>1
<1>5. PageOf(FlushTotal) = K
  BY <1>3, <1>4, PageOfMultiple
<1>6. FlushTotal \in Total
  BY <1>1, <1>3 DEF Total
<1>7. current < FlushTotal
  <2>1. CASE current = -1
    <3>1. FlushTotal \in Nat
      BY <1>6, TotalIsPages
    <3> QED
      BY <2>1, <3>1
  <2>2. CASE current # -1
    <3>1. current \in Nat
      BY <2>2, <1>0
    <3>2. PICK i \in Nat : i = current
      BY <3>1
    <3>3. i < PER_LIST_SIZE * k <=> PageOf(i) < k
      BY PageBelow
    <3> QED
      BY <3>2, <3>3, <1>2, <1>3, <1>4
  <2> QED
    BY <2>1, <2>2
<1> HIDE DEF K
<1> QED
  BY <1>1, <1>5, <1>6, <1>7 DEF K

-----------------------------------------------------------------------------
(* What flush_free_chunk writes. *)

(* The pages it writes are there, one after the other. *)
LEMMA WrittenFacts ==
    ASSUME ListType
    PROVE  /\ IsFiniteSet(Kept) /\ Kept \in SUBSET Nat /\ Kept \in SUBSET PageNo
           /\ Cardinality(Kept) \in 0 .. PageOf(FlushTotal)
           /\ \A n \in 1 .. Cardinality(Kept) :
                /\ Written(n) \in Kept
                /\ Cardinality({q \in Kept : q < Written(n)}) = n - 1
                /\ base[Written(n)] \in Page
<1> DEFINE K == PageOf(FlushTotal)
<1>1. K \in 0 .. FREE_CHUNK_MAX /\ K \in Nat
  BY FlushTotalFacts, SizeAssumption
<1>2. IsFiniteSet(0 .. K - 1) /\ Cardinality(0 .. K - 1) = K
  <2>1. K - 1 \in Int /\ 0 \in Int
    BY <1>1
  <2>2. Cardinality(0 .. K - 1) = IF 0 > K - 1 THEN 0 ELSE K - 1 - 0 + 1
    BY <2>1, FS_Interval
  <2>3. Cardinality(0 .. K - 1) = K
    BY <2>2, <1>1
  <2> QED
    BY <2>1, <2>3, FS_Interval
<1>3. Kept \in SUBSET PageNo /\ Kept \in SUBSET Nat
  BY SizeAssumption DEF Kept, PageNo
<1>4. Kept \in SUBSET (0 .. K - 1)
  <2>1. \A p \in Kept : p \in Nat /\ p < K
    BY <1>3 DEF Kept
  <2> HIDE DEF K
  <2> QED
    BY <2>1, <1>1
<1>5. IsFiniteSet(Kept) /\ Cardinality(Kept) <= K
  BY <1>2, <1>4, FS_Subset, ZenonT(60)
<1>6. Cardinality(Kept) \in Nat
  BY <1>5, FS_CardinalityType
<1>7. ASSUME NEW n \in 1 .. Cardinality(Kept)
      PROVE  /\ Written(n) \in Kept
             /\ Cardinality({q \in Kept : q < Written(n)}) = n - 1
             /\ base[Written(n)] \in Page
  <2>1. \E p \in Kept : Cardinality({q \in Kept : q < p}) = n - 1
    BY <1>3, <1>5, NthExists
  <2>2. /\ Written(n) \in Kept
        /\ Cardinality({q \in Kept : q < Written(n)}) = n - 1
    BY <2>1 DEF Written
  <2>3. Written(n) \in PageNo /\ base[Written(n)] # NULL
    BY <2>2 DEF Kept
  <2>4. base[Written(n)] \in Page
    BY <2>3 DEF ListType
  <2> QED
    BY <2>2, <2>4
<1>8. Cardinality(Kept) \in 0 .. K
  BY <1>1, <1>5, <1>6
<1> QED
  BY <1>3, <1>5, <1>7, <1>8

(* What it writes is a list file. *)
LEMMA FlushedIsFile ==
    ASSUME ListType
    PROVE  /\ FileType(Flushed)
           /\ Len(Flushed.pages) = Cardinality(Kept)
           /\ Len(Flushed.pages) \in Nat
<1> DEFINE g == [n \in 1 .. Cardinality(Kept) |-> base[Written(n)]]
<1>1. Cardinality(Kept) \in 0 .. PageOf(FlushTotal) /\ Cardinality(Kept) \in Nat
  BY WrittenFacts, FlushTotalFacts, SizeAssumption
<1>2. g \in [1 .. Cardinality(Kept) -> Page]
  BY WrittenFacts
<1>3. g \in Seq(Page) /\ Len(g) = Cardinality(Kept)
  <2> HIDE DEF g
  <2> QED
    BY <1>1, <1>2, FunctionIsSeq
<1>4. Flushed.total = FlushTotal /\ Flushed.current = current /\ Flushed.pages = g
  BY DEF Flushed
<1> HIDE DEF g
<1>5. current \in -1 .. FlushTotal - 1 /\ FlushTotal \in Total
  <2>1. FlushTotal \in Nat
    BY FlushTotalFacts, TotalIsPages
  <2>2. current \in Int /\ current >= -1
    BY SizeAssumption DEF ListType
  <2> QED
    BY <2>1, <2>2, FlushTotalFacts
<1>6. Len(g) <= PageOf(FlushTotal)
  BY <1>1, <1>3
<1> QED
  BY <1>1, <1>3, <1>4, <1>5, <1>6 DEF FileType

(* A part of it is one too. *)
LEMMA CutIsFile ==
    ASSUME ListType, NEW n \in 0 .. Len(Flushed.pages)
    PROVE  /\ FileType([Flushed EXCEPT !.pages = SubSeq(@, 1, n)])
           /\ n = Len(Flushed.pages) => [Flushed EXCEPT !.pages = SubSeq(@, 1, n)] = Flushed
<1> DEFINE s == Flushed.pages
           f == [Flushed EXCEPT !.pages = SubSeq(@, 1, n)]
<1>1. FileType(Flushed) /\ Len(s) \in Nat
  BY FlushedIsFile
<1>2. /\ f.total = Flushed.total /\ f.current = Flushed.current
      /\ f.pages = SubSeq(s, 1, n)
  BY DEF Flushed
<1>3. s \in Seq(Page)
  BY <1>1 DEF FileType
<1>4. SubSeq(s, 1, n) \in Seq(Page) /\ Len(SubSeq(s, 1, n)) = n
  <2>1. \A i \in 1 .. n : s[i] \in Page
    <3>1. \A i \in 1 .. n : i \in 1 .. Len(s)
      BY <1>1
    <3> QED
      BY <3>1, <1>3, ElementOfSeq
  <2>2. /\ SubSeq(s, 1, n) \in Seq(Page)
        /\ Len(SubSeq(s, 1, n)) = IF 1 <= n THEN n - 1 + 1 ELSE 0
    <3>1. 1 \in Int /\ n \in Int
      BY <1>1
    <3> HIDE DEF s
    <3> QED
      BY <2>1, <3>1, SubSeqProperties
  <2> QED
    BY <2>2
<1>5. PageOf(Flushed.total) \in Nat
  <2>1. Flushed.total \in Total
    BY <1>1 DEF FileType
  <2> QED
    BY <2>1, TotalIsPages, SizeAssumption
<1>6. FileType(f)
  <2>1. Len(f.pages) <= PageOf(f.total)
    <3> HIDE DEF f
    <3> QED
      BY <1>1, <1>2, <1>4, <1>5 DEF FileType
  <2> HIDE DEF f
  <2> QED
    BY <1>1, <1>2, <1>4, <2>1 DEF FileType
<1>7. ASSUME n = Len(s) PROVE f = Flushed
  <2>1. SubSeq(s, 1, n) = s
    BY <1>3, <1>7, SubSeqFull
  <2> QED
    BY <2>1 DEF Flushed
<1> QED
  BY <1>6, <1>7

(* Of a list that lost nothing it writes every entry. *)
LEMMA FlushSaves ==
    ASSUME ListType, BelowTotal, Held, intact
    PROVE  /\ HeldIn(Flushed)
           /\ \A i \in 0 .. current : SavedEntry(Flushed, i) = Entry(i)
<1> DEFINE K == PageOf(FlushTotal)
<1>1. K \in Nat /\ K <= FREE_CHUNK_MAX
  BY FlushTotalFacts, SizeAssumption
<1>2. Kept = 0 .. K - 1
  <2>1. \A p \in PageNo : base[p] # NULL <=> p < PageOf(total_cnt)
    BY DEF Held
  <2>2. K <= PageOf(total_cnt) /\ PageOf(total_cnt) \in Nat
    BY FlushTotalFacts, TotalIsPages, SizeAssumption DEF ListType
  <2>3. Kept = {p \in PageNo : p < K /\ base[p] # NULL}
    BY DEF Kept
  <2> HIDE DEF K
  <2>4. \A p : p \in PageNo /\ p < K <=> p \in 0 .. K - 1
    BY <1>1, SizeAssumption DEF PageNo
  <2>5. \A p \in 0 .. K - 1 : p < PageOf(total_cnt)
    BY <1>1, <2>2
  <2> QED
    BY <2>1, <2>3, <2>4, <2>5
<1>3. Cardinality(Kept) = K
  <2>1. K - 1 \in Int /\ 0 \in Int
    BY <1>1
  <2>2. Cardinality(0 .. K - 1) = IF 0 > K - 1 THEN 0 ELSE K - 1 - 0 + 1
    BY <2>1, FS_Interval
  <2> QED
    BY <2>2, <1>1, <1>2
<1>4. ASSUME NEW n \in 1 .. K PROVE Written(n) = n - 1
  <2>1. Written(n) \in 0 .. K - 1 /\ Cardinality({q \in Kept : q < Written(n)}) = n - 1
    BY <1>2, <1>3, WrittenFacts
  <2>2. PICK w \in 0 .. K - 1 : w = Written(n)
    BY <2>1
  <2>3. w \in Nat /\ w <= K
    BY <1>1
  <2>4. Cardinality({q \in 0 .. K - 1 : q < w}) = w
    BY <1>1, <2>3, CountBelow
  <2> QED
    BY <1>2, <2>1, <2>2, <2>4
<1>5. /\ Flushed.total = FlushTotal /\ Flushed.current = current
      /\ Flushed.pages = [n \in 1 .. K |-> base[Written(n)]]
  BY <1>3 DEF Flushed
<1>6. ASSUME NEW i \in 0 .. current
      PROVE  SavedEntry(Flushed, i) = Entry(i)
  <2>1. PageOf(i) \in Nat /\ PageOf(i) < K
    <3>1. current \in Int /\ FlushTotal \in Total /\ current < FlushTotal
      BY FlushTotalFacts, SizeAssumption DEF ListType
    <3>2. PageOf(i) \in PageNo /\ PageOf(i) < K
      BY <3>1, EntryPlace
    <3> QED
      BY <3>2, SizeAssumption DEF PageNo
  <2> HIDE DEF K
  <2>2. PageOf(i) + 1 \in 1 .. K
    BY <1>1, <2>1
  <2>3. Written(PageOf(i) + 1) = PageOf(i)
    BY <1>4, <2>1, <2>2
  <2> QED
    BY <1>5, <2>2, <2>3 DEF SavedEntry, Entry
<1>7. Len(Flushed.pages) = PageOf(Flushed.total)
  BY <1>3, <1>5, FlushedIsFile
<1>8. \A i \in 0 .. current : Entry(i) # Junk
  BY DEF Held
<1> QED
  BY <1>5, <1>6, <1>7, <1>8 DEF HeldIn

-----------------------------------------------------------------------------
(* What init_free_chunk reads. *)

(* Whatever page malloc refused, what it reads is a list. *)
LEMMA LoadIsList ==
    ASSUME FileType(file), NEW failed \in SUBSET PageNo, init_free_chunk(failed)
    PROVE  ListType' /\ BelowTotal'
<1> DEFINE FilePage(p) == Cardinality({q \in 0 .. p - 1 : q \notin failed}) + 1
           Loaded(p) == IF PageOf(file.total) <= p \/ p \in failed THEN NULL
                        ELSE IF FilePage(p) <= Len(file.pages)
                             THEN file.pages[FilePage(p)] ELSE JunkPage
<1>1. /\ total_cnt' = file.total /\ current' = file.current
      /\ base' = [p \in PageNo |-> Loaded(p)]
  BY DEF init_free_chunk
<1>2. file.pages \in Seq(Page) /\ Len(file.pages) \in Nat
  BY LenProperties DEF FileType
<1>3. ASSUME NEW p \in PageNo PROVE FilePage(p) \in Nat \ {0}
  <2>1. p - 1 \in Int /\ 0 \in Int
    BY SizeAssumption DEF PageNo
  <2>2. IsFiniteSet(0 .. p - 1)
    BY <2>1, FS_Interval
  <2>3. {q \in 0 .. p - 1 : q \notin failed} \in SUBSET (0 .. p - 1)
    OBVIOUS
  <2>4. IsFiniteSet({q \in 0 .. p - 1 : q \notin failed})
    BY <2>2, <2>3, FS_Subset
  <2>5. Cardinality({q \in 0 .. p - 1 : q \notin failed}) \in Nat
    BY <2>4, FS_CardinalityType
  <2> QED
    BY <2>5
<1>4. ASSUME NEW p \in PageNo PROVE Loaded(p) \in Page \cup {NULL}
  <2>1. CASE FilePage(p) <= Len(file.pages)
    <3>1. FilePage(p) \in 1 .. Len(file.pages)
      <4>1. FilePage(p) \in Nat \ {0}
        BY <1>3
      <4> HIDE DEF FilePage
      <4> QED
        BY <4>1, <1>2, <2>1
    <3>2. file.pages[FilePage(p)] \in Page
      <4> HIDE DEF FilePage
      <4> QED
        BY <3>1, <1>2, ElementOfSeq
    <3> HIDE DEF FilePage
    <3> QED
      BY <2>1, <3>2
  <2>2. CASE ~(FilePage(p) <= Len(file.pages))
    <3> HIDE DEF FilePage
    <3> QED
      BY <2>2, PageIsThere
  <2> QED
    BY <2>1, <2>2
<1> HIDE DEF Loaded
<1>5. base' \in [PageNo -> Page \cup {NULL}]
  BY <1>1, <1>4
<1>6. /\ file.total \in Total /\ file.total \in Nat
      /\ file.total <= PER_LIST_SIZE * FREE_CHUNK_MAX
      /\ file.current \in -1 .. file.total - 1
      /\ PER_LIST_SIZE * FREE_CHUNK_MAX \in Int
  <2>1. file.total \in Total /\ file.current \in -1 .. file.total - 1
    BY DEF FileType
  <2>2. PER_LIST_SIZE * FREE_CHUNK_MAX \in Int
    BY SizeAssumption
  <2> QED
    BY <2>1, <2>2, TotalIsPages
<1>7. current' \in -1 .. PER_LIST_SIZE * FREE_CHUNK_MAX - 1 /\ BelowTotal'
  <2>1. file.current \in -1 .. PER_LIST_SIZE * FREE_CHUNK_MAX - 1
    BY <1>6
  <2>2. file.current < file.total
    BY <1>6
  <2> QED
    BY <1>1, <2>1, <2>2 DEF BelowTotal
<1>8. Total' = Total
  BY DEF Total
<1> QED
  BY <1>1, <1>5, <1>6, <1>7, <1>8 DEF ListType

(* A whole list file gives back every entry it was written with. *)
LEMMA LoadRestores ==
    ASSUME FileType(file), HeldIn(file), init_free_chunk({})
    PROVE  /\ \A p \in PageNo : base'[p] # NULL <=> p < PageOf(total_cnt')
           /\ \A i \in 0 .. current' : Entry(i)' = SavedEntry(file, i)
           /\ \A i \in 0 .. current' : Entry(i)' # Junk
<1> DEFINE FilePage(p) == Cardinality({q \in 0 .. p - 1 : q \notin {}}) + 1
           K == PageOf(file.total)
<1>1. /\ total_cnt' = file.total /\ current' = file.current
      /\ base' = [p \in PageNo |->
                    IF K <= p \/ p \in {} THEN NULL
                    ELSE IF FilePage(p) <= Len(file.pages)
                         THEN file.pages[FilePage(p)] ELSE JunkPage]
  BY DEF init_free_chunk
<1>2. /\ K \in Nat /\ Len(file.pages) = K /\ file.total \in Total
      /\ file.current \in Int /\ file.current < file.total
      /\ file.pages \in Seq(Page)
  <2>1. file.total \in Total /\ file.current \in -1 .. file.total - 1
        /\ file.pages \in Seq(Page)
    BY DEF FileType
  <2>2. K \in Nat /\ file.total \in Nat
    BY <2>1, TotalIsPages, SizeAssumption
  <2> QED
    BY <2>1, <2>2 DEF HeldIn
<1>3. ASSUME NEW p \in PageNo PROVE FilePage(p) = p + 1
  <2>1. p \in Nat /\ p - 1 \in Int /\ 0 \in Int
    BY SizeAssumption DEF PageNo
  <2>2. {q \in 0 .. p - 1 : q \notin {}} = 0 .. p - 1
    OBVIOUS
  <2>3. Cardinality(0 .. p - 1) = IF 0 > p - 1 THEN 0 ELSE p - 1 - 0 + 1
    BY <2>1, FS_Interval
  <2>4. Cardinality(0 .. p - 1) = p
    BY <2>1, <2>3
  <2> QED
    BY <2>2, <2>4
<1> HIDE DEF FilePage, K
<1>4. ASSUME NEW p \in PageNo
      PROVE  /\ K <= p => base'[p] = NULL
             /\ p < K => base'[p] = file.pages[p + 1]
  <2>1. p \in Nat
    BY SizeAssumption DEF PageNo
  <2>2. base'[p] = IF K <= p THEN NULL
                   ELSE IF p + 1 <= K THEN file.pages[p + 1] ELSE JunkPage
    BY <1>1, <1>2, <1>3
  <2> QED
    BY <1>2, <2>1, <2>2
<1>5. \A p \in PageNo : base'[p] # NULL <=> p < PageOf(total_cnt')
  <2> SUFFICES ASSUME NEW p \in PageNo PROVE base'[p] # NULL <=> p < K
    BY <1>1 DEF K
  <2>1. p \in Nat
    BY SizeAssumption DEF PageNo
  <2>2. CASE K <= p
    BY <1>2, <1>4, <2>1, <2>2
  <2>3. CASE p < K
    <3>1. p + 1 \in 1 .. Len(file.pages)
      BY <1>2, <2>1, <2>3
    <3>2. file.pages[p + 1] \in Page
      BY <1>2, <3>1, ElementOfSeq
    <3> QED
      BY <1>4, <2>3, <3>2, PageIsThere
  <2> QED
    BY <1>2, <2>1, <2>2, <2>3
<1>6. ASSUME NEW i \in 0 .. current'
      PROVE  Entry(i)' = SavedEntry(file, i) /\ Entry(i)' # Junk
  <2>1. i \in 0 .. file.current
    BY <1>1
  <2>2. PageOf(i) \in PageNo /\ PageOf(i) < K
    BY <1>2, <2>1, EntryPlace DEF K
  <2>3. base'[PageOf(i)] = file.pages[PageOf(i) + 1]
    BY <1>4, <2>2
  <2>4. Entry(i)' = base'[PageOf(i)][SlotOf(i)]
    BY DEF Entry, PageOf, SlotOf
  <2>5. Entry(i)' = SavedEntry(file, i)
    BY <2>3, <2>4 DEF SavedEntry
  <2>6. SavedEntry(file, i) # Junk
    BY <2>1 DEF HeldIn
  <2> QED
    BY <2>5, <2>6
<1> QED
  BY <1>5, <1>6

-----------------------------------------------------------------------------
(* Inv is inductive. *)

(* A list without pages. *)
LEMMA EmptyList ==
    /\ 0 \in Total /\ PageOf(0) = 0
    /\ -1 \in -1 .. PER_LIST_SIZE * FREE_CHUNK_MAX - 1
    /\ NoPages \in [PageNo -> Page \cup {NULL}]
    /\ \A p \in PageNo : NoPages[p] = NULL /\ ~(p < 0)
<1>1. 0 = PER_LIST_SIZE * 0 /\ 0 \in 0 .. FREE_CHUNK_MAX
  BY SizeAssumption
<1>2. 0 \in Total
  BY <1>1 DEF Total
<1>3. PageOf(0) = 0
  BY <1>1, PageOfMultiple
<1>4. PER_LIST_SIZE * FREE_CHUNK_MAX >= 0 /\ PER_LIST_SIZE * FREE_CHUNK_MAX \in Int
  BY SizeAssumption
<1>5. \A p \in PageNo : ~(p < 0)
  BY SizeAssumption DEF PageNo
<1> QED
  BY <1>2, <1>3, <1>4, <1>5 DEF NoPages

(* What is true of a list file that was never written. *)
LEMMA EmptyFile == FileType(NoFile) /\ HeldIn(NoFile)
<1>1. /\ NoFile.total = 0 /\ NoFile.current = -1 /\ NoFile.pages = <<>>
  BY DEF NoFile
<1>2. <<>> \in Seq(Page) /\ Len(<<>>) = 0
  BY EmptySeq
<1>3. -1 \in -1 .. 0 - 1 /\ 0 .. -1 = {}
  OBVIOUS
<1> QED
  BY <1>1, <1>2, <1>3, EmptyList DEF FileType, HeldIn

(* A process that ended holds no list. *)
LEMMA ForgetIsList ==
    ASSUME Forget
    PROVE  /\ ListType' /\ BelowTotal' /\ Held' /\ OverrunIsFull'
           /\ phase' = "down" /\ intact' = TRUE /\ ret' = ret
<1>1. /\ phase' = "down" /\ total_cnt' = 0 /\ current' = -1
      /\ base' = NoPages /\ intact' = TRUE /\ ret' = ret
  BY DEF Forget
<1>2. ListType'
  BY <1>1, EmptyList DEF ListType, Total, PageNo, Page, SlotNo
<1>3. BelowTotal'
  BY <1>1 DEF BelowTotal
<1>4. Held'
  <2>1. \A p \in PageNo : base'[p] # NULL <=> p < PageOf(total_cnt')
    BY <1>1, EmptyList
  <2>2. 0 .. -1 = {}
    OBVIOUS
  <2> QED
    BY <1>1, <2>1, <2>2 DEF Held, PageNo, PageOf
<1>5. OverrunIsFull'
  BY <1>1 DEF OverrunIsFull
<1> QED
  BY <1>1, <1>2, <1>3, <1>4, <1>5

(* The first start holds Inv. *)
LEMMA InitInv == Init => Inv
<1> SUFFICES ASSUME Init PROVE Inv
  OBVIOUS
<1>1. ListType
  BY EmptyList DEF Init, ListType
<1>2. FileType(file) /\ HeldInFile
  BY EmptyFile DEF Init, HeldInFile
<1>3. RestType
  BY DEF Init, RestType
<1>4. BelowTotal /\ OverrunIsFull
  BY DEF Init, BelowTotal, OverrunIsFull
<1>5. Held
  <2>1. 0 .. -1 = {}
    OBVIOUS
  <2> QED
    BY <2>1, EmptyList DEF Init, Held
<1> QED
  BY <1>1, <1>2, <1>3, <1>4, <1>5, TypeParts DEF Inv

(* A new page that holds one entry, or none. *)
LEMMA NewPageFits ==
    ASSUME ListType, BelowTotal, current + 1 >= total_cnt, PageOf(current + 1) \in PageNo
    PROVE  /\ total_cnt + PER_LIST_SIZE \in Total
           /\ PageOf(total_cnt + PER_LIST_SIZE) = PageOf(total_cnt) + 1
           /\ current + 1 \in -1 .. PER_LIST_SIZE * FREE_CHUNK_MAX - 1
           /\ current + 1 < total_cnt + PER_LIST_SIZE
<1>1. /\ current + 1 = total_cnt /\ total_cnt \in Nat
      /\ PageOf(current + 1) = PageOf(total_cnt)
      /\ total_cnt = PER_LIST_SIZE * PageOf(total_cnt)
  BY NewPagePlace
<1>2. PICK n \in Nat : n = PageOf(total_cnt) /\ n < FREE_CHUNK_MAX
  BY <1>1, SizeAssumption DEF PageNo
<1>3. /\ total_cnt + PER_LIST_SIZE = PER_LIST_SIZE * (n + 1)
      /\ total_cnt + PER_LIST_SIZE <= PER_LIST_SIZE * FREE_CHUNK_MAX
      /\ PER_LIST_SIZE * FREE_CHUNK_MAX \in Int
  BY <1>1, <1>2, TotalsOrdered, SizeAssumption
<1>4. n + 1 \in 0 .. FREE_CHUNK_MAX /\ n + 1 \in Nat
  BY <1>2, SizeAssumption
<1>5. PageOf(PER_LIST_SIZE * (n + 1)) = n + 1
  BY <1>4, PageOfMultiple
<1>6. total_cnt + PER_LIST_SIZE \in Total
  BY <1>3, <1>4 DEF Total
<1> QED
  BY <1>1, <1>2, <1>3, <1>5, <1>6, SizeAssumption

(* add_free_chunk below total_cnt changes one entry, the new top. *)
LEMMA AddInPageKeeps ==
    ASSUME ListType, BelowTotal, NEW x \in Offset, AddInPage(x)
    PROVE  /\ ListType' /\ BelowTotal'
           /\ \A p \in PageNo : base'[p] # NULL <=> base[p] # NULL
           /\ Entry(current)' = x
           /\ \A i \in 0 .. current : Entry(i)' = Entry(i)
<1> DEFINE top == current + 1
           P == PageOf(top)
           s == SlotOf(top)
<1>1. /\ top < total_cnt /\ base[P] # NULL
      /\ current' = top /\ total_cnt' = total_cnt
      /\ base' = [base EXCEPT ![P][s] = x]
  BY DEF AddInPage
<1>2. /\ current \in Int /\ current >= -1 /\ top \in Nat
      /\ total_cnt \in Total /\ base \in [PageNo -> Page \cup {NULL}]
      /\ total_cnt \in Nat /\ total_cnt <= PER_LIST_SIZE * FREE_CHUNK_MAX
      /\ PER_LIST_SIZE * FREE_CHUNK_MAX \in Int
  <2>1. PER_LIST_SIZE * FREE_CHUNK_MAX \in Int
    BY SizeAssumption
  <2>2. total_cnt \in Total
    BY DEF ListType
  <2>3. total_cnt \in Nat /\ total_cnt <= PER_LIST_SIZE * FREE_CHUNK_MAX
    BY <2>2, TotalIsPages
  <2>4. current \in Int /\ current >= -1
    BY <2>1 DEF ListType
  <2> QED
    BY <2>1, <2>2, <2>3, <2>4 DEF ListType
<1>3. P \in PageNo /\ s \in SlotNo
  <2>1. top \in 0 .. top /\ top \in Int
    BY <1>2
  <2> QED
    BY <1>1, <1>2, <2>1, EntryPlace
<1>4. base[P] \in Page
  BY <1>1, <1>2, <1>3
<1> HIDE DEF P, s
<1>5. [base[P] EXCEPT ![s] = x] \in Page
  BY <1>3, <1>4, PageIsThere
<1>6. \A p \in PageNo : base'[p] = IF p = P THEN [base[P] EXCEPT ![s] = x] ELSE base[p]
  BY <1>1, <1>2, <1>3
<1>7. base' \in [PageNo -> Page \cup {NULL}]
  BY <1>1, <1>2, <1>3, <1>5
<1>8. ListType'
  <2>1. current' \in -1 .. PER_LIST_SIZE * FREE_CHUNK_MAX - 1
    BY <1>1, <1>2
  <2> QED
    BY <1>1, <1>2, <1>7, <2>1 DEF ListType, Total, PageNo, Page, SlotNo
<1>9. BelowTotal'
  BY <1>1 DEF BelowTotal
<1>10. \A p \in PageNo : base'[p] # NULL <=> base[p] # NULL
  BY <1>1, <1>5, <1>6, PageIsThere
<1>11. base'[P][s] = x
  <2>1. base[P] \in [SlotNo -> Offset \cup {Junk}]
    BY <1>4 DEF Page
  <2> QED
    BY <1>3, <1>6, <2>1
<1>12. Entry(current)' = x
  BY <1>1, <1>11 DEF Entry, PageOf, SlotOf, P, s
<1>13. ASSUME NEW i \in 0 .. current PROVE Entry(i)' = Entry(i)
  <2>1. i \in Nat /\ i # top /\ current \in Int /\ current < total_cnt
    BY <1>1, <1>2
  <2>2. PageOf(i) \in PageNo /\ SlotOf(i) \in SlotNo
    BY <1>2, <2>1, EntryPlace
  <2>3. PageOf(i) # P \/ SlotOf(i) # s
    BY <1>2, <2>1, SamePlace DEF P, s
  <2>4. base[P] \in [SlotNo -> Offset \cup {Junk}]
    BY <1>4 DEF Page
  <2>5. base'[PageOf(i)][SlotOf(i)] = base[PageOf(i)][SlotOf(i)]
    BY <1>6, <2>2, <2>3, <2>4
  <2> QED
    BY <2>5 DEF Entry, PageOf, SlotOf
<1> QED
  BY <1>8, <1>9, <1>10, <1>12, <1>13

(* At total_cnt it adds the next page, whose first entry is the new top.   *)
LEMMA AddNewPageKeeps ==
    ASSUME ListType, BelowTotal, NEW x \in Offset, AddNewPage(x)
    PROVE  /\ ListType' /\ BelowTotal'
           /\ (\A p \in PageNo : base[p] # NULL <=> p < PageOf(total_cnt))
                => \A p \in PageNo : base'[p] # NULL <=> p < PageOf(total_cnt')
           /\ Entry(current)' = x
           /\ \A i \in 0 .. current : Entry(i)' = Entry(i)
<1> DEFINE top == current + 1
           P == PageOf(top)
           s == SlotOf(top)
           g == [JunkPage EXCEPT ![s] = x]
<1>1. /\ top >= total_cnt /\ P \in PageNo
      /\ current' = top /\ total_cnt' = total_cnt + PER_LIST_SIZE
      /\ base' = [base EXCEPT ![P] = g]
  BY DEF AddNewPage
<1>2. /\ top = total_cnt /\ total_cnt \in Nat
      /\ P = PageOf(total_cnt) /\ s = 0
  BY <1>1, NewPagePlace
<1>3. /\ total_cnt' \in Total
      /\ PageOf(total_cnt') = P + 1
      /\ current' \in -1 .. PER_LIST_SIZE * FREE_CHUNK_MAX - 1
      /\ current' < total_cnt'
  BY <1>1, <1>2, NewPageFits
<1>4. base \in [PageNo -> Page \cup {NULL}] /\ total_cnt \in Total
  BY DEF ListType
<1>5. s \in SlotNo
  BY <1>2, SizeAssumption DEF SlotNo
<1>6. g \in Page /\ g[s] = x
  <2>1. JunkPage \in [SlotNo -> Offset \cup {Junk}]
    BY PageIsThere DEF Page
  <2> HIDE DEF s
  <2> QED
    BY <1>5, <2>1, PageIsThere
<1> HIDE DEF P, s, g
<1>7. \A p \in PageNo : base'[p] = IF p = P THEN g ELSE base[p]
  BY <1>1, <1>4
<1>8. base' \in [PageNo -> Page \cup {NULL}]
  BY <1>1, <1>4, <1>6
<1>9. ListType' /\ BelowTotal'
  BY <1>3, <1>8 DEF ListType, BelowTotal, Total, PageNo, Page, SlotNo
<1>10. ASSUME \A p \in PageNo : base[p] # NULL <=> p < PageOf(total_cnt)
       PROVE  \A p \in PageNo : base'[p] # NULL <=> p < PageOf(total_cnt')
  <2> SUFFICES ASSUME NEW p \in PageNo
               PROVE  base'[p] # NULL <=> p < P + 1
    BY <1>3
  <2>1. p \in Int /\ P \in Int
    BY <1>1, SizeAssumption DEF PageNo
  <2>2. CASE p = P
    BY <1>6, <1>7, <2>1, <2>2, PageIsThere
  <2>3. CASE p # P
    BY <1>2, <1>7, <1>10, <2>1, <2>3
  <2> QED
    BY <2>2, <2>3
<1>11. Entry(current)' = x
  <2>1. base'[P][s] = x
    BY <1>1, <1>6, <1>7
  <2> QED
    BY <1>1, <2>1 DEF Entry, PageOf, SlotOf, P, s
<1>12. ASSUME NEW i \in 0 .. current PROVE Entry(i)' = Entry(i)
  <2>1. current \in Int /\ current < total_cnt
    BY <1>2, SizeAssumption DEF ListType
  <2>2. PageOf(i) \in PageNo /\ PageOf(i) < PageOf(total_cnt)
    BY <1>4, <2>1, EntryPlace
  <2>3. PageOf(i) # P
    BY <1>2, <2>2, SizeAssumption DEF PageNo
  <2>4. base'[PageOf(i)] = base[PageOf(i)]
    BY <1>7, <2>2, <2>3
  <2> QED
    BY <2>4 DEF Entry, PageOf, SlotOf
<1> QED
  BY <1>9, <1>10, <1>11, <1>12

(* The entry get_first_free_chunk returns is an entry of a page. *)
LEMMA TopEntry ==
    ASSUME ListType, BelowTotal, current # -1, base[PageOf(current)] # NULL
    PROVE  /\ current \in Nat
           /\ Entry(current) \in Offset \cup {Junk}
           /\ current - 1 \in -1 .. PER_LIST_SIZE * FREE_CHUNK_MAX - 1
<1>1. PER_LIST_SIZE * FREE_CHUNK_MAX \in Int
  BY SizeAssumption
<1>2. /\ current \in -1 .. PER_LIST_SIZE * FREE_CHUNK_MAX - 1
      /\ total_cnt \in Total /\ base \in [PageNo -> Page \cup {NULL}]
  BY DEF ListType
<1>3. current \in Nat /\ current \in Int /\ current \in 0 .. current
  BY <1>1, <1>2
<1>4. PageOf(current) \in PageNo /\ SlotOf(current) \in SlotNo
  BY <1>2, <1>3, EntryPlace DEF BelowTotal
<1>5. base[PageOf(current)] \in Page
  BY <1>2, <1>4
<1>6. Entry(current) \in Offset \cup {Junk}
  BY <1>4, <1>5 DEF Entry, Page
<1> QED
  BY <1>1, <1>2, <1>3, <1>6

(* A step that does not open the list file leaves it. *)
LEMMA FileKept ==
    ASSUME FileType(file), HeldInFile, file' = file, fileIntact' = fileIntact
    PROVE  FileType(file)' /\ HeldInFile'
<1>1. FileType(file)'
  BY DEF FileType, Total, Page, SlotNo, PageOf
<1>2. HeldInFile'
  BY DEF HeldInFile, HeldIn, SavedEntry, PageOf, SlotOf
<1> QED
  BY <1>1, <1>2

(* A step that does not touch the list leaves it. *)
LEMMA ListKept ==
    ASSUME ListType, BelowTotal, Held, list' = list, intact' => intact
    PROVE  ListType' /\ BelowTotal' /\ Held'
<1>1. total_cnt' = total_cnt /\ current' = current /\ base' = base
  BY DEF list
<1>2. ListType' /\ BelowTotal'
  BY <1>1 DEF ListType, BelowTotal, Total, PageNo, Page, SlotNo
<1>3. Held'
  BY <1>1 DEF Held, PageNo, Entry, PageOf, SlotOf
<1> QED
  BY <1>2, <1>3

(* Every step of the list keeps Inv. *)
LEMMA NextInv == Inv /\ [Next]_vars => Inv'
<1> SUFFICES ASSUME Inv, [Next]_vars PROVE Inv'
  OBVIOUS
<1> DEFINE IO == FileType(file)' /\ HeldInFile'
           InMemory == ListType' /\ BelowTotal' /\ Held'
<1>0. /\ ListType /\ FileType(file) /\ RestType
      /\ BelowTotal /\ Held /\ HeldInFile /\ OverrunIsFull
  BY TypeParts DEF Inv
<1>a. /\ phase \in {"down", "up", "overrun"}
      /\ ret \in Offset \cup {Junk, -1}
      /\ fault \in BOOLEAN /\ intact \in BOOLEAN /\ fileIntact \in BOOLEAN
  BY <1>0 DEF RestType
<1> SUFFICES InMemory /\ IO /\ RestType' /\ OverrunIsFull'
  BY DEF Inv, TypeOK, ListType, FileType, RestType, Total
<1>1. ASSUME NEW failed \in SUBSET PageNo, init_free_chunk(failed)
      PROVE  InMemory /\ IO /\ RestType' /\ OverrunIsFull'
  <2>0. /\ phase' = "up" /\ file' = file /\ ret' = ret /\ fileIntact' = fileIntact
        /\ intact' = (fileIntact /\ failed = {}) /\ fault' = (failed # {})
    BY <1>1 DEF init_free_chunk
  <2>1. ListType' /\ BelowTotal'
    BY <1>0, <1>1, LoadIsList
  <2>2. Held'
    <3> SUFFICES ASSUME intact' PROVE Held'
      BY DEF Held
    <3>1. fileIntact /\ failed = {}
      BY <2>0, Zenon
    <3>2. HeldIn(file) /\ init_free_chunk({})
      BY <1>0, <1>1, <3>1 DEF HeldInFile
    <3>3. /\ \A p \in PageNo : base'[p] # NULL <=> p < PageOf(total_cnt')
          /\ \A i \in 0 .. current' : Entry(i)' # Junk
      BY <1>0, <3>2, LoadRestores
    <3> QED
      BY <3>3 DEF Held, PageNo, PageOf
  <2>3. IO
    BY <1>0, <2>0, FileKept
  <2>4. RestType'
    <3>1. intact' \in BOOLEAN /\ fault' \in BOOLEAN /\ fileIntact' \in BOOLEAN
      BY <2>0, <1>a, Zenon
    <3> QED
      BY <2>0, <1>a, <3>1 DEF RestType
  <2>5. OverrunIsFull'
    BY <2>0 DEF OverrunIsFull
  <2> QED
    BY <2>1, <2>2, <2>3, <2>4, <2>5
<1>2. CASE InitOpenFails
  <2>0. /\ phase' = "up" /\ file' = file /\ ret' = ret /\ fileIntact' = fileIntact
        /\ total_cnt' = 0 /\ current' = -1 /\ base' = NoPages
        /\ intact' = TRUE /\ fault' = TRUE
    BY <1>2 DEF InitOpenFails
  <2>1. ListType' /\ BelowTotal'
    BY <2>0, EmptyList DEF ListType, BelowTotal, Total, PageNo, Page, SlotNo
  <2>2. Held'
    <3>1. \A p \in PageNo : base'[p] # NULL <=> p < PageOf(total_cnt')
      BY <2>0, EmptyList
    <3>2. 0 .. -1 = {}
      OBVIOUS
    <3> QED
      BY <2>0, <3>1, <3>2 DEF Held, PageNo, PageOf
  <2>3. IO
    BY <1>0, <2>0, FileKept
  <2>4. RestType'
    BY <1>a, <2>0 DEF RestType
  <2>5. OverrunIsFull'
    BY <2>0 DEF OverrunIsFull
  <2> QED
    BY <2>1, <2>2, <2>3, <2>4, <2>5
<1>3. CASE GetEmpty
  <2>0. /\ phase = "up" /\ phase' = phase /\ list' = list /\ file' = file /\ ret' = -1
        /\ fault' = FALSE /\ intact' = intact /\ fileIntact' = fileIntact
    BY <1>3 DEF GetEmpty
  <2>1. InMemory
    BY <1>0, <2>0, ListKept
  <2>2. IO
    BY <1>0, <2>0, FileKept
  <2>3. RestType'
    BY <1>a, <2>0 DEF RestType
  <2> QED
    BY <2>0, <2>1, <2>2, <2>3 DEF OverrunIsFull
<1>4. CASE GetFirst
  <2>0. /\ phase = "up" /\ phase' = phase /\ total_cnt' = total_cnt /\ base' = base
        /\ current' = current - 1 /\ ret' = Entry(current) /\ file' = file
        /\ fault' = FALSE /\ intact' = intact /\ fileIntact' = fileIntact
    BY <1>4 DEF GetFirst
  <2>1. /\ current \in Nat /\ Entry(current) \in Offset \cup {Junk}
        /\ current - 1 \in -1 .. PER_LIST_SIZE * FREE_CHUNK_MAX - 1
    BY <1>0, <1>4, TopEntry DEF GetFirst
  <2>2. ListType'
    BY <1>0, <2>0, <2>1 DEF ListType, Total, PageNo, Page, SlotNo
  <2>3. BelowTotal'
    <3>1. total_cnt \in Nat
      BY <1>0, TotalIsPages DEF ListType
    <3> QED
      BY <1>0, <2>0, <2>1, <3>1 DEF BelowTotal
  <2>4. Held'
    <3>1. \A i \in 0 .. current' : i \in 0 .. current
      BY <2>0, <2>1
    <3> QED
      BY <1>0, <2>0, <3>1 DEF Held, PageNo, Entry, PageOf, SlotOf
  <2>5. IO
    BY <1>0, <2>0, FileKept
  <2>6. RestType'
    BY <1>a, <2>0, <2>1 DEF RestType
  <2> QED
    BY <2>0, <2>2, <2>3, <2>4, <2>5, <2>6 DEF OverrunIsFull
<1>5. ASSUME NEW x \in Offset, AddInPage(x)
      PROVE  InMemory /\ IO /\ RestType' /\ OverrunIsFull'
  <2>0. /\ phase = "up" /\ phase' = phase /\ total_cnt' = total_cnt /\ file' = file
        /\ ret' = ret /\ fault' = FALSE /\ intact' = intact /\ fileIntact' = fileIntact
        /\ current' = current + 1
    BY <1>5 DEF AddInPage
  <2>1. /\ ListType' /\ BelowTotal'
        /\ \A p \in PageNo : base'[p] # NULL <=> base[p] # NULL
        /\ Entry(current)' = x
        /\ \A i \in 0 .. current : Entry(i)' = Entry(i)
    BY <1>0, <1>5, AddInPageKeeps
  <2>2. Held'
    <3>1. \A i \in 0 .. current' : i = current' \/ i \in 0 .. current
      BY <1>0, <2>0, SizeAssumption DEF ListType
    <3>2. intact' => \A i \in 0 .. current' : Entry(i)' # Junk
      BY <1>0, <2>0, <2>1, <3>1, SentinelAssumption DEF Held
    <3>3. intact' => \A p \in PageNo : base'[p] # NULL <=> p < PageOf(total_cnt')
      BY <1>0, <2>0, <2>1 DEF Held
    <3> QED
      BY <3>2, <3>3 DEF Held, PageNo, PageOf
  <2>3. IO
    BY <1>0, <2>0, FileKept
  <2>4. RestType'
    BY <1>a, <2>0 DEF RestType
  <2> QED
    BY <2>0, <2>1, <2>2, <2>3, <2>4 DEF OverrunIsFull
<1>6. ASSUME NEW x \in Offset, AddNewPage(x)
      PROVE  InMemory /\ IO /\ RestType' /\ OverrunIsFull'
  <2>0. /\ phase = "up" /\ phase' = phase /\ file' = file
        /\ ret' = ret /\ fault' = FALSE /\ intact' = intact /\ fileIntact' = fileIntact
        /\ current' = current + 1
    BY <1>6 DEF AddNewPage
  <2>1. /\ ListType' /\ BelowTotal'
        /\ (\A p \in PageNo : base[p] # NULL <=> p < PageOf(total_cnt))
             => \A p \in PageNo : base'[p] # NULL <=> p < PageOf(total_cnt')
        /\ Entry(current)' = x
        /\ \A i \in 0 .. current : Entry(i)' = Entry(i)
    BY <1>0, <1>6, AddNewPageKeeps
  <2>2. Held'
    <3>1. \A i \in 0 .. current' : i = current' \/ i \in 0 .. current
      BY <1>0, <2>0, SizeAssumption DEF ListType
    <3>2. intact' => \A i \in 0 .. current' : Entry(i)' # Junk
      BY <1>0, <2>0, <2>1, <3>1, SentinelAssumption DEF Held
    <3>3. intact' => \A p \in PageNo : base'[p] # NULL <=> p < PageOf(total_cnt')
      BY <1>0, <2>0, <2>1 DEF Held
    <3> QED
      BY <3>2, <3>3 DEF Held, PageNo, PageOf
  <2>3. IO
    BY <1>0, <2>0, FileKept
  <2>4. RestType'
    BY <1>a, <2>0 DEF RestType
  <2> QED
    BY <2>0, <2>1, <2>2, <2>3, <2>4 DEF OverrunIsFull
<1>7. CASE AddMallocFails
  <2>0. /\ phase = "up" /\ phase' = phase /\ base' = base /\ file' = file
        /\ ret' = ret /\ fault' = TRUE /\ intact' = FALSE /\ fileIntact' = fileIntact
        /\ current' = current + 1 /\ total_cnt' = total_cnt + PER_LIST_SIZE
        /\ current + 1 >= total_cnt /\ PageOf(current + 1) \in PageNo
    BY <1>7 DEF AddMallocFails
  <2>1. ListType' /\ BelowTotal'
    BY <1>0, <2>0, NewPageFits
       DEF ListType, BelowTotal, Total, PageNo, Page, SlotNo
  <2>2. Held'
    BY <2>0 DEF Held
  <2>3. IO
    BY <1>0, <2>0, FileKept
  <2>4. RestType'
    BY <1>a, <2>0 DEF RestType
  <2> QED
    BY <2>0, <2>1, <2>2, <2>3, <2>4 DEF OverrunIsFull
<1>8. CASE AddOverrun
  <2>0. /\ phase' = "overrun" /\ list' = list /\ file' = file /\ ret' = ret
        /\ fault' = fault /\ intact' = intact /\ fileIntact' = fileIntact
        /\ current' = current
        /\ current + 1 >= total_cnt /\ PageOf(current + 1) \notin PageNo
    BY <1>8 DEF AddOverrun, ghosts, list
  <2>1. InMemory
    BY <1>0, <2>0, ListKept
  <2>2. IO
    BY <1>0, <2>0, FileKept
  <2>3. RestType'
    BY <1>a, <2>0 DEF RestType
  <2>4. OverrunIsFull'
    <3>1. /\ current + 1 = total_cnt /\ PageOf(current + 1) = PageOf(total_cnt)
          /\ PageOf(total_cnt) \in 0 .. FREE_CHUNK_MAX
          /\ total_cnt = PER_LIST_SIZE * PageOf(total_cnt)
      BY <1>0, <2>0, NewPagePlace
    <3>2. PageOf(total_cnt) = FREE_CHUNK_MAX
      BY <2>0, <3>1, SizeAssumption DEF PageNo
    <3>3. current + 1 = PER_LIST_SIZE * FREE_CHUNK_MAX
      BY <3>1, <3>2
    <3>4. PER_LIST_SIZE * FREE_CHUNK_MAX \in Int
      BY SizeAssumption
    <3> QED
      BY <2>0, <3>3, <3>4 DEF OverrunIsFull
  <2> QED
    BY <2>1, <2>2, <2>3, <2>4
<1>9. ASSUME Forget, FileType(file)', HeldInFile',
             fault' \in BOOLEAN, fileIntact' \in BOOLEAN
      PROVE  InMemory /\ IO /\ RestType' /\ OverrunIsFull'
  <2>1. /\ InMemory /\ OverrunIsFull'
        /\ phase' = "down" /\ intact' = TRUE /\ ret' = ret
    BY <1>9, ForgetIsList
  <2>2. RestType'
    BY <1>9, <1>a, <2>1 DEF RestType
  <2> QED
    BY <1>9, <2>1, <2>2
<1>10. CASE NullPage \/ FlushOpenFails \/ Crash
  <2>0. Forget /\ fault' = TRUE /\ file' = file /\ fileIntact' = fileIntact
    BY <1>10 DEF NullPage, FlushOpenFails, Crash
  <2>1. IO
    BY <1>0, <2>0, FileKept
  <2>2. fault' \in BOOLEAN /\ fileIntact' \in BOOLEAN
    BY <1>a, <2>0
  <2> QED
    BY <1>9, <2>0, <2>1, <2>2
<1>11. CASE flush_free_chunk
  <2>0. Forget /\ fault' = FALSE /\ file' = Flushed /\ fileIntact' = intact
    BY <1>11 DEF flush_free_chunk
  <2>1. FileType(file)'
    <3>1. FileType(Flushed)
      BY <1>0, FlushedIsFile
    <3> QED
      BY <2>0, <3>1 DEF FileType, Total, Page, SlotNo, PageOf
  <2>2. HeldInFile'
    <3> SUFFICES ASSUME fileIntact' PROVE HeldIn(file)'
      BY DEF HeldInFile
    <3>1. intact
      BY <2>0
    <3>2. HeldIn(Flushed)
      BY <1>0, <3>1, FlushSaves
    <3> QED
      BY <2>0, <3>2 DEF HeldIn, SavedEntry, PageOf, SlotOf
  <2>3. fault' \in BOOLEAN /\ fileIntact' \in BOOLEAN
    BY <1>a, <2>0
  <2> QED
    BY <1>9, <2>0, <2>1, <2>2, <2>3
<1>12. CASE CrashInFlush
  <2>0. Forget /\ fault' = TRUE
    BY <1>12 DEF CrashInFlush
  <2>1. CASE file' = NoFile /\ fileIntact' = TRUE
    <3>1. FileType(file)'
      BY <2>1, EmptyFile DEF FileType, Total, Page, SlotNo, PageOf
    <3>2. HeldInFile'
      BY <2>1, EmptyFile DEF HeldInFile, HeldIn, SavedEntry, PageOf, SlotOf
    <3> QED
      BY <1>9, <2>0, <2>1, <3>1, <3>2
  <2>2. ASSUME NEW n \in 0 .. Len(Flushed.pages),
               file' = [Flushed EXCEPT !.pages = SubSeq(@, 1, n)],
               fileIntact' = (intact /\ n = Len(Flushed.pages))
        PROVE  InMemory /\ IO /\ RestType' /\ OverrunIsFull'
    <3>1. FileType(file)'
      <4>1. FileType([Flushed EXCEPT !.pages = SubSeq(@, 1, n)])
        BY <1>0, CutIsFile
      <4>2. FileType(file')
        BY <2>2, <4>1
      <4> QED
        BY <4>2 DEF FileType, Total, Page, SlotNo, PageOf
    <3>2. HeldInFile'
      <4> SUFFICES ASSUME fileIntact' PROVE HeldIn(file)'
        BY DEF HeldInFile
      <4>1. intact /\ n = Len(Flushed.pages)
        BY <2>2, Zenon
      <4>2. file' = Flushed
        BY <1>0, <2>2, <4>1, CutIsFile
      <4>3. HeldIn(file')
        BY <1>0, <4>1, <4>2, FlushSaves
      <4> QED
        BY <4>3 DEF HeldIn, SavedEntry, PageOf, SlotOf
    <3>3. fileIntact' \in BOOLEAN /\ fault' \in BOOLEAN
      BY <2>0, <2>2, Zenon
    <3> QED
      BY <1>9, <2>0, <3>1, <3>2, <3>3
  <2> QED
    BY <1>12, <2>1, <2>2 DEF CrashInFlush
<1>13. CASE UNCHANGED vars
  <2>0. /\ phase' = phase /\ list' = list /\ current' = current /\ file' = file
        /\ ret' = ret /\ fault' = fault /\ intact' = intact /\ fileIntact' = fileIntact
    BY <1>13 DEF vars, ghosts, list
  <2>1. InMemory
    BY <1>0, <2>0, ListKept
  <2>2. IO
    BY <1>0, <2>0, FileKept
  <2>3. RestType'
    BY <1>a, <2>0 DEF RestType
  <2> QED
    BY <1>0, <2>0, <2>1, <2>2, <2>3 DEF OverrunIsFull
<1> HIDE DEF IO, InMemory
<1> QED
  BY <1>1, <1>2, <1>3, <1>4, <1>5, <1>6, <1>7, <1>8, <1>10, <1>11, <1>12, <1>13 DEF Next

(* What the list reaches satisfies Inv. *)
THEOREM FreeListInvariant == Spec => []Inv
  BY InitInv, NextInv, PTL DEF Spec

-----------------------------------------------------------------------------
(* The invariants of the runs. *)

(* TypeOK holds for pages of any size, any number of them and any chunks.  *)
THEOREM FreeListTypes == Spec => []TypeOK
<1>1. Inv => TypeOK
  BY DEF Inv
<1> QED
  BY FreeListInvariant, <1>1, PTL

(* A list that lost nothing finds every page of its entries and never      *)
(* hands out an entry nobody wrote.                                        *)
THEOREM FreeListHoldsItsPages == Spec => []PagesHoldTheStack
<1>1. Inv => PagesHoldTheStack
  <2> SUFFICES ASSUME Inv, phase = "up", intact
               PROVE  /\ current < total_cnt
                      /\ \A i \in 0 .. current : base[PageOf(i)] # NULL /\ Entry(i) # Junk
                      /\ \A p \in PageNo : base[p] # NULL <=> p < PageOf(total_cnt)
    BY DEF PagesHoldTheStack
  <2>1. /\ current < total_cnt
        /\ \A p \in PageNo : base[p] # NULL <=> p < PageOf(total_cnt)
        /\ \A i \in 0 .. current : Entry(i) # Junk
    BY DEF Inv, BelowTotal, Held
  <2>2. current \in Int /\ total_cnt \in Total
    BY TypeParts, SizeAssumption DEF Inv, ListType
  <2>3. \A i \in 0 .. current : PageOf(i) \in PageNo /\ PageOf(i) < PageOf(total_cnt)
    BY <2>1, <2>2, EntryPlace
  <2> QED
    BY <2>1, <2>3
<1> QED
  BY FreeListInvariant, <1>1, PTL

(* The stack is a sequence of chunks. *)
ListIsSeq == /\ List \in [1 .. current + 1 -> Offset]
             /\ List \in Seq(Offset)
             /\ Len(List) = current + 1
             /\ \A i \in 0 .. current : List[i + 1] = Entry(i)

(* That of a list that lost nothing is one. *)
LEMMA ListFacts == Inv /\ intact => ListIsSeq
<1> SUFFICES ASSUME Inv, intact PROVE ListIsSeq
  OBVIOUS
<1>1. /\ current \in Int /\ current >= -1 /\ current + 1 \in Nat
      /\ current < total_cnt /\ total_cnt \in Total
      /\ base \in [PageNo -> Page \cup {NULL}]
  <2>1. PER_LIST_SIZE * FREE_CHUNK_MAX \in Int
    BY SizeAssumption
  <2>2. current \in -1 .. PER_LIST_SIZE * FREE_CHUNK_MAX - 1
    BY TypeParts DEF Inv, ListType
  <2>3. current \in Int /\ current >= -1 /\ current + 1 \in Nat
    BY <2>1, <2>2
  <2> QED
    BY <2>3, TypeParts DEF Inv, ListType, BelowTotal
<1>2. ASSUME NEW i \in 0 .. current PROVE Entry(i) \in Offset
  <2>1. /\ PageOf(i) \in PageNo /\ PageOf(i) < PageOf(total_cnt)
        /\ SlotOf(i) \in SlotNo
    BY <1>1, EntryPlace
  <2>2. base[PageOf(i)] # NULL /\ Entry(i) # Junk
    BY <2>1 DEF Inv, Held
  <2>3. base[PageOf(i)] \in Page
    BY <1>1, <2>1, <2>2
  <2> QED
    BY <2>1, <2>2, <2>3 DEF Entry, Page
<1>3. \A j \in 1 .. current + 1 : j - 1 \in 0 .. current
  BY <1>1
<1>4. List \in [1 .. current + 1 -> Offset]
  BY <1>2, <1>3 DEF List
<1>5. List \in Seq(Offset) /\ Len(List) = current + 1
  <2> DEFINE n == current + 1
             f == List
  <2>1. n \in Nat /\ f \in [1 .. n -> Offset]
    BY <1>1, <1>4
  <2> HIDE DEF n, f
  <2>2. f \in Seq(Offset) /\ Len(f) = n
    BY <2>1, FunctionIsSeq
  <2> QED
    BY <2>2 DEF n, f
<1>6. \A i \in 0 .. current : List[i + 1] = Entry(i)
  <2>1. \A i \in 0 .. current : i + 1 \in 1 .. current + 1 /\ (i + 1) - 1 = i
    BY <1>1
  <2> QED
    BY <2>1 DEF List
<1> QED
  BY <1>4, <1>5, <1>6 DEF ListIsSeq

(* There are pages enough for every chunk of a file to be free at once: a  *)
(* list that overran them holds a chunk twice, or all of them, or had lost *)
(* its contents.                                                           *)
THEOREM FreeListHasRoom == Spec => []OverrunMeansFreedTwice
<1>1. Inv => OverrunMeansFreedTwice
  <2> SUFFICES ASSUME Inv, phase = "overrun", intact, IsInjective(List)
               PROVE  Offset \subseteq Range(List)
    BY DEF OverrunMeansFreedTwice
  <2> DEFINE n == current + 1
             f == List
  <2>1. f \in [1 .. n -> Offset]
    BY ListFacts DEF ListIsSeq
  <2>2. n \in Nat /\ n >= PER_LIST_SIZE * FREE_CHUNK_MAX
    <3>1. PER_LIST_SIZE * FREE_CHUNK_MAX \in Nat
      BY SizeAssumption
    <3>2. current \in -1 .. PER_LIST_SIZE * FREE_CHUNK_MAX - 1
      BY TypeParts DEF Inv, ListType
    <3>3. PER_LIST_SIZE * FREE_CHUNK_MAX <= current + 1
      BY DEF Inv, OverrunIsFull
    <3> QED
      BY <3>1, <3>2, <3>3
  <2>3. f \in Injection(1 .. n, Offset)
    BY <2>1 DEF Injection
  <2> HIDE DEF n, f
  <2>4. Cardinality(1 .. n) = n
    <3>1. Cardinality(1 .. n) = IF 1 > n THEN 0 ELSE n - 1 + 1
      BY <2>2, FS_Interval
    <3> QED
      BY <2>2, <3>1
  <2>5. /\ Cardinality(1 .. n) <= Cardinality(Offset)
        /\ Cardinality(1 .. n) = Cardinality(Offset) => f \in Surjection(1 .. n, Offset)
    BY <2>3, RoomAssumption, FS_Injection
  <2>6. Cardinality(Offset) <= n
    <3>1. PER_LIST_SIZE * FREE_CHUNK_MAX \in Nat /\ Cardinality(Offset) \in Nat
      BY SizeAssumption, RoomAssumption, FS_CardinalityType
    <3> QED
      BY <2>2, <3>1, RoomAssumption
  <2>7. Cardinality(Offset) \in Nat
    BY RoomAssumption, FS_CardinalityType
  <2>8. f \in Surjection(1 .. n, Offset)
    BY <2>2, <2>4, <2>5, <2>6, <2>7
  <2>9. Offset \subseteq Range(f)
    BY <2>1, <2>8 DEF Surjection, Range
  <2> QED
    BY <2>9 DEF f
<1> QED
  BY FreeListInvariant, <1>1, PTL

-----------------------------------------------------------------------------
(* The list implements the stack of ChunkStack. *)

(* The abstract variables. *)
StackNow == IF phase = "down" THEN <<>> ELSE IF intact THEN List ELSE Unknown
SavedNow == IF fileIntact THEN SavedList ELSE Unknown
UpNow    == phase # "down"

(* An empty list stands for the empty stack. *)
LEMMA EmptyStack ==
    /\ current = -1 => List = <<>>
    /\ current' = -1 => List' = <<>>
    /\ file.current = -1 => SavedList = <<>>
    /\ file'.current = -1 => SavedList' = <<>>
<1>1. \A c \in {-1} : 1 .. c + 1 = {}
  OBVIOUS
<1>2. \A f : f = [i \in {} |-> f[i]] => f = <<>>
  BY SMT
<1> QED
  BY <1>1, <1>2 DEF List, SavedList

(* A step that does not open the list file saves nothing. *)
LEMMA SavedKept ==
    ASSUME file' = file, fileIntact' = fileIntact
    PROVE  SavedNow' = SavedNow
  BY DEF SavedNow, SavedList, PageOf, SlotOf

(* The end of the process is the end of the stack in memory: what it saved *)
(* is its list, or nothing, or a part that promises nothing, or what was   *)
(* saved before.                                                           *)
LEMMA DieStep ==
    ASSUME phase = "up", Forget, fault' = TRUE,
           SavedNow' \in {SavedNow, <<>>, StackNow, Unknown}
    PROVE  Stack!Next
<1>1. phase' = "down" /\ ret' = ret
  BY DEF Forget
<1>2. Stack!Die
  BY <1>1 DEF Stack!Die, StackNow, SavedNow
<1> QED
  BY <1>2 DEF Stack!Next

(* Adding an entry to a list that lost nothing pushes it. *)
LEMMA PushStep ==
    ASSUME Inv, Inv', NEW x \in Offset, phase = "up", phase' = "up",
           current' = current + 1, intact' = intact, fault' = FALSE, ret' = ret,
           SavedNow' = SavedNow,
           Entry(current)' = x, \A i \in 0 .. current : Entry(i)' = Entry(i)
    PROVE  Stack!Next
<1>1. CASE intact
  <2>1. ListIsSeq
    BY <1>1, ListFacts
  <2>2. ListIsSeq'
    <3>1. Inv' /\ intact' => ListIsSeq'
      BY ListFacts, PTL
    <3> QED
      BY <1>1, <3>1
  <2>3. current \in Int /\ current >= -1
    <3>1. PER_LIST_SIZE * FREE_CHUNK_MAX \in Int
      BY SizeAssumption
    <3> QED
      BY <3>1, TypeParts DEF Inv, ListType
  <2>4. /\ List \in Seq(Offset) /\ Len(List) = current + 1
        /\ \A i \in 0 .. current : List[i + 1] = Entry(i)
        /\ List' \in Seq(Offset) /\ Len(List') = current' + 1
        /\ \A i \in 0 .. current' : List'[i + 1] = Entry(i)'
        /\ List'[current' + 1] = Entry(current)'
    <3>1. \A i \in 0 .. current' : List'[i + 1] = Entry(i)'
      BY <2>2 DEF ListIsSeq
    <3>2. current' \in 0 .. current'
      BY <2>3
    <3>3. List'[current' + 1] = base'[PageOf(current')][SlotOf(current')]
      BY <3>1, <3>2 DEF Entry, PageOf, SlotOf
    <3> QED
      BY <2>1, <2>2, <3>1, <3>3 DEF ListIsSeq, Entry, PageOf, SlotOf
  <2>5. List' = Append(List, x)
    <3> DEFINE a == Append(List, x)
    <3>1. /\ a \in Seq(Offset) /\ Len(a) = Len(List) + 1
          /\ \A i \in 1 .. Len(List) : a[i] = List[i]
          /\ a[Len(List) + 1] = x
      BY <2>4, AppendProperties
    <3> HIDE DEF a
    <3>2. ASSUME NEW j \in 1 .. Len(List') PROVE List'[j] = a[j]
      <4>1. CASE j = current + 2
        BY <2>3, <2>4, <3>1, <4>1
      <4>2. CASE j # current + 2
        <5>1. j - 1 \in 0 .. current /\ j - 1 \in 0 .. current' /\ (j - 1) + 1 = j
          BY <2>3, <2>4, <4>2
        <5>2. List'[j] = Entry(j - 1) /\ List[j] = Entry(j - 1)
          <6>1. PICK i \in 0 .. current : i = j - 1
            BY <5>1
          <6>2. i \in 0 .. current' /\ i + 1 = j
            BY <5>1, <6>1
          <6>3. List'[i + 1] = Entry(i)' /\ List[i + 1] = Entry(i)
            BY <2>4, <6>1, <6>2
          <6> QED
            BY <6>1, <6>2, <6>3
        <5>3. j \in 1 .. Len(List)
          BY <2>3, <2>4, <5>1
        <5> QED
          BY <3>1, <5>2, <5>3
      <4> QED
        BY <4>1, <4>2
    <3>3. Len(List') = Len(a)
      BY <2>3, <2>4, <3>1
    <3>4. List' = a
      BY <2>4, <3>1, <3>2, <3>3, SeqEqual
    <3> QED
      BY <3>4 DEF a
  <2>6. List # Unknown
    BY <2>4, SentinelAssumption
  <2>7. StackNow = List /\ StackNow' = List'
    BY <1>1 DEF StackNow
  <2>8. Stack!Push(x)
    BY <1>1, <2>5, <2>6, <2>7 DEF Stack!Push, StackNow, SavedNow
  <2> QED
    BY <2>8 DEF Stack!Next
<1>2. CASE ~intact
  <2>1. StackNow = Unknown /\ StackNow' = Unknown
    BY <1>2 DEF StackNow
  <2>2. Stack!UseUnknown
    BY <1>2, <2>1 DEF Stack!UseUnknown, StackNow, SavedNow
  <2> QED
    BY <2>2 DEF Stack!Next
<1> QED
  BY <1>1, <1>2

(* get_first_free_chunk pops the top of a list that lost nothing. *)
LEMMA PopStep == Inv /\ Inv' /\ GetFirst => Stack!Next
<1> SUFFICES ASSUME Inv, Inv', GetFirst PROVE Stack!Next
  OBVIOUS
<1>1. /\ phase = "up" /\ phase' = "up" /\ current # -1 /\ base[PageOf(current)] # NULL
      /\ current' = current - 1 /\ base' = base /\ ret' = Entry(current)
      /\ fault' = FALSE /\ intact' = intact
      /\ file' = file /\ fileIntact' = fileIntact
  BY DEF GetFirst
<1>2. SavedNow' = SavedNow
  BY <1>1, SavedKept
<1>3. current \in Nat
  BY <1>1, TypeParts, TopEntry DEF Inv
<1>4. CASE intact
  <2>1. ListIsSeq
    BY <1>4, ListFacts
  <2>2. ListIsSeq'
    <3>1. Inv' /\ intact' => ListIsSeq'
      BY ListFacts, PTL
    <3> QED
      BY <1>1, <1>4, <3>1
  <2>3. /\ List \in Seq(Offset) /\ Len(List) = current + 1
        /\ List' \in Seq(Offset) /\ Len(List') = current
    BY <1>1, <1>3, <2>1, <2>2 DEF ListIsSeq
  <2>4. ASSUME NEW j \in 1 .. current PROVE List'[j] = List[j]
    BY <1>1, <1>3 DEF List, Entry, PageOf, SlotOf
  <2>5. List' = SubSeq(List, 1, Len(List) - 1)
    <3> DEFINE a == SubSeq(List, 1, current)
    <3>1. \A i \in 1 .. current : List[i] \in Offset
      BY <2>3, <1>3, ElementOfSeq
    <3>2. /\ a \in Seq(Offset)
          /\ Len(a) = IF 1 <= current THEN current - 1 + 1 ELSE 0
          /\ \A i \in 1 .. current - 1 + 1 : a[i] = List[1 + i - 1]
      <4>1. 1 \in Int /\ current \in Int
        BY <1>3
      <4> QED
        BY <3>1, <4>1, SubSeqProperties
    <3> HIDE DEF a
    <3>3. Len(a) = current /\ \A i \in 1 .. current : a[i] = List[i]
      BY <1>3, <3>2
    <3>4. List' = a
      BY <2>3, <2>4, <3>2, <3>3, SeqEqual
    <3>5. Len(List) - 1 = current
      BY <2>3, <1>3
    <3> QED
      BY <3>4, <3>5 DEF a
  <2>6. List # Unknown /\ List # <<>>
    BY <1>3, <2>3, SentinelAssumption, EmptySeq
  <2>7. ret' = List[Len(List)]
    <3>1. current \in 0 .. current
      BY <1>3
    <3>2. List[current + 1] = Entry(current)
      BY <2>1, <3>1 DEF ListIsSeq
    <3> QED
      BY <1>1, <2>3, <3>2
  <2>8. StackNow = List /\ StackNow' = List'
    BY <1>1, <1>4 DEF StackNow
  <2>9. Stack!Pop
    BY <1>1, <1>2, <2>5, <2>6, <2>7, <2>8 DEF Stack!Pop, StackNow, SavedNow
  <2> QED
    BY <2>9 DEF Stack!Next
<1>5. CASE ~intact
  <2>1. StackNow = Unknown /\ StackNow' = Unknown
    BY <1>1, <1>5 DEF StackNow
  <2>2. Stack!UseUnknown
    BY <1>1, <1>2, <2>1 DEF Stack!UseUnknown, StackNow, SavedNow
  <2> QED
    BY <2>2 DEF Stack!Next
<1> QED
  BY <1>4, <1>5

(* init_free_chunk brings back what was saved, unless memory ran out. *)
LEMMA LoadStep ==
    ASSUME Inv, NEW failed \in SUBSET PageNo, init_free_chunk(failed)
    PROVE  Stack!Next
<1>1. /\ phase = "down" /\ phase' = "up" /\ file' = file /\ ret' = ret
      /\ fileIntact' = fileIntact /\ current' = file.current
  BY DEF init_free_chunk
<1>2. /\ intact' = (fileIntact /\ failed = {})
      /\ fault' = (failed # {})
  BY DEF init_free_chunk
<1>3. SavedNow' = SavedNow
  BY <1>1, SavedKept
<1>4. CASE failed = {} /\ fileIntact
  <2>1. HeldIn(file) /\ FileType(file)
    BY <1>4, TypeParts DEF Inv, HeldInFile
  <2>2. init_free_chunk({})
    BY <1>4
  <2>3. \A i \in 0 .. current' : Entry(i)' = SavedEntry(file, i)
    BY <2>1, <2>2, LoadRestores
  <2>4. file.current \in Int
    <3>1. file.total \in Nat /\ file.current \in -1 .. file.total - 1
      BY <2>1, TotalIsPages DEF FileType
    <3> QED
      BY <3>1
  <2>5. List' = SavedList
    <3>1. \A i \in 1 .. current' + 1 : i - 1 \in 0 .. current'
      BY <1>1, <2>4
    <3>2. \A i \in 0 .. current' :
            base'[PageOf(i)][SlotOf(i)] = file.pages[PageOf(i) + 1][SlotOf(i)]
      BY <2>3 DEF Entry, SavedEntry, PageOf, SlotOf
    <3>3. \A i \in 1 .. current' + 1 :
            base'[PageOf(i - 1)][SlotOf(i - 1)]
              = file.pages[PageOf(i - 1) + 1][SlotOf(i - 1)]
      BY <3>1, <3>2
    <3>4. List' = [i \in 1 .. current' + 1 |-> base'[PageOf(i - 1)][SlotOf(i - 1)]]
      BY DEF List, Entry, PageOf, SlotOf
    <3> QED
      BY <1>1, <3>3, <3>4 DEF SavedList
  <2>6. intact' /\ fault' = FALSE
    BY <1>2, <1>4, Zenon
  <2>7. StackNow' = SavedNow
    BY <1>1, <1>4, <2>5, <2>6 DEF StackNow, SavedNow
  <2>8. Stack!Start
    BY <1>1, <1>3, <2>6, <2>7 DEF Stack!Start, StackNow, SavedNow
  <2> QED
    BY <2>8 DEF Stack!Next
<1>5. CASE failed = {} /\ ~fileIntact
  <2>1. ~intact' /\ fault' = FALSE
    BY <1>2, <1>5, Zenon
  <2>2. StackNow' = SavedNow
    BY <1>1, <1>5, <2>1 DEF StackNow, SavedNow
  <2>3. Stack!Start
    BY <1>1, <1>3, <2>1, <2>2 DEF Stack!Start, StackNow, SavedNow
  <2> QED
    BY <2>3 DEF Stack!Next
<1>6. CASE failed # {}
  <2>1. ~intact' /\ fault' = TRUE
    BY <1>2, <1>6, Zenon
  <2>2. StackNow' = Unknown
    BY <1>1, <2>1 DEF StackNow
  <2>3. Stack!StartFails
    BY <1>1, <1>3, <2>1, <2>2 DEF Stack!StartFails, StackNow, SavedNow
  <2> QED
    BY <2>3 DEF Stack!Next
<1> QED
  BY <1>4, <1>5, <1>6

(* flush_free_chunk saves the list of a stack that lost nothing. *)
LEMMA FlushSavesStack ==
    ASSUME Inv, phase = "up", file' = Flushed, fileIntact' = intact
    PROVE  SavedNow' = StackNow
<1>1. CASE intact
  <2>1. \A i \in 0 .. current : SavedEntry(Flushed, i) = Entry(i)
    BY <1>1, TypeParts, FlushSaves DEF Inv
  <2>2. current \in Int
    <3>1. PER_LIST_SIZE * FREE_CHUNK_MAX \in Int
      BY SizeAssumption
    <3> QED
      BY <3>1, TypeParts DEF Inv, ListType
  <2>3. file'.current = current
    BY DEF Flushed
  <2>4. \A i \in 1 .. current + 1 : i - 1 \in 0 .. current
    BY <2>2
  <2>5. \A i \in 1 .. current + 1 :
          file'.pages[PageOf(i - 1) + 1][SlotOf(i - 1)] = Entry(i - 1)
    BY <2>1, <2>4 DEF SavedEntry
  <2>6. SavedList' = [i \in 1 .. file'.current + 1 |->
                        file'.pages[PageOf(i - 1) + 1][SlotOf(i - 1)]]
    BY DEF SavedList, PageOf, SlotOf
  <2>7. SavedList' = List
    BY <2>3, <2>5, <2>6 DEF List
  <2> QED
    BY <1>1, <2>7 DEF SavedNow, StackNow
<1>2. CASE ~intact
  BY <1>2 DEF SavedNow, StackNow
<1> QED
  BY <1>1, <1>2

(* Every step of the list is a step of the stack, or none. *)
LEMMA StackSimulates == Inv /\ Inv' /\ [Next]_vars => [Stack!Next]_Stack!vars
<1> SUFFICES ASSUME Inv, Inv', [Next]_vars
             PROVE  Stack!Next \/ UNCHANGED Stack!vars
  OBVIOUS
<1>1. ASSUME NEW failed \in SUBSET PageNo, init_free_chunk(failed)
      PROVE  Stack!Next
  BY <1>1, LoadStep
<1>2. CASE InitOpenFails
  <2>1. /\ phase = "down" /\ phase' = "up" /\ current' = -1 /\ intact' = TRUE
        /\ fault' = TRUE /\ file' = file /\ ret' = ret /\ fileIntact' = fileIntact
    BY <1>2 DEF InitOpenFails
  <2>2. SavedNow' = SavedNow
    BY <2>1, SavedKept
  <2>3. StackNow' = <<>>
    BY <2>1, EmptyStack DEF StackNow
  <2>4. Stack!StartFails
    BY <2>1, <2>2, <2>3 DEF Stack!StartFails, StackNow, SavedNow
  <2> QED
    BY <2>4 DEF Stack!Next
<1>3. CASE GetEmpty
  <2>1. /\ phase = "up" /\ phase' = "up" /\ current = -1 /\ list' = list /\ ret' = -1
        /\ intact' = intact /\ fault' = FALSE
        /\ file' = file /\ fileIntact' = fileIntact
    BY <1>3 DEF GetEmpty
  <2>2. SavedNow' = SavedNow
    BY <2>1, SavedKept
  <2>3. CASE intact
    <3>1. StackNow = <<>> /\ StackNow' = <<>>
      <4>1. current' = -1
        BY <2>1 DEF list
      <4> QED
        BY <2>1, <2>3, <4>1, EmptyStack DEF StackNow
    <3>2. Stack!PopEmpty
      BY <2>1, <2>2, <3>1 DEF Stack!PopEmpty, StackNow, SavedNow
    <3> QED
      BY <3>2 DEF Stack!Next
  <2>4. CASE ~intact
    <3>1. StackNow = Unknown /\ StackNow' = Unknown
      BY <2>1, <2>4 DEF StackNow
    <3>2. Stack!UseUnknown
      BY <2>1, <2>2, <3>1 DEF Stack!UseUnknown, StackNow, SavedNow
    <3> QED
      BY <3>2 DEF Stack!Next
  <2> QED
    BY <2>3, <2>4
<1>4. CASE GetFirst
  BY <1>4, PopStep
<1>5. ASSUME NEW x \in Offset, AddInPage(x)
      PROVE  Stack!Next
  <2>1. /\ phase = "up" /\ phase' = "up" /\ current' = current + 1 /\ intact' = intact
        /\ fault' = FALSE /\ ret' = ret /\ file' = file /\ fileIntact' = fileIntact
    BY <1>5 DEF AddInPage
  <2>2. Entry(current)' = x /\ \A i \in 0 .. current : Entry(i)' = Entry(i)
    BY <1>5, TypeParts, AddInPageKeeps DEF Inv
  <2> QED
    BY <2>1, <2>2, SavedKept, PushStep
<1>6. ASSUME NEW x \in Offset, AddNewPage(x)
      PROVE  Stack!Next
  <2>1. /\ phase = "up" /\ phase' = "up" /\ current' = current + 1 /\ intact' = intact
        /\ fault' = FALSE /\ ret' = ret /\ file' = file /\ fileIntact' = fileIntact
    BY <1>6 DEF AddNewPage
  <2>2. Entry(current)' = x /\ \A i \in 0 .. current : Entry(i)' = Entry(i)
    BY <1>6, TypeParts, AddNewPageKeeps DEF Inv
  <2> QED
    BY <2>1, <2>2, SavedKept, PushStep
<1>7. CASE AddMallocFails
  <2>1. /\ phase = "up" /\ phase' = "up" /\ intact' = FALSE /\ fault' = TRUE
        /\ ret' = ret /\ file' = file /\ fileIntact' = fileIntact
    BY <1>7 DEF AddMallocFails
  <2>2. SavedNow' = SavedNow /\ StackNow' = Unknown
    BY <2>1, SavedKept DEF StackNow
  <2>3. Stack!Lose
    BY <2>1, <2>2 DEF Stack!Lose, StackNow, SavedNow
  <2> QED
    BY <2>3 DEF Stack!Next
<1>8. CASE AddOverrun \/ UNCHANGED vars
  <2>1. /\ phase' # "down" <=> phase # "down"
        /\ total_cnt' = total_cnt /\ current' = current /\ base' = base
        /\ ret' = ret /\ fault' = fault /\ intact' = intact
        /\ file' = file /\ fileIntact' = fileIntact
    BY <1>8 DEF AddOverrun, vars, list, ghosts
  <2>2. SavedNow' = SavedNow
    BY <2>1, SavedKept
  <2>3. StackNow' = StackNow
    <3>1. List' = List
      BY <2>1 DEF List, Entry, PageOf, SlotOf
    <3> QED
      BY <2>1, <3>1 DEF StackNow
  <2>4. (phase # "down")' = (phase # "down")
    BY <2>1
  <2> QED
    BY <2>1, <2>2, <2>3, <2>4 DEF Stack!vars, StackNow, SavedNow
<1>9. CASE NullPage \/ FlushOpenFails \/ Crash
  <2>1. /\ phase = "up" /\ Forget /\ fault' = TRUE
        /\ file' = file /\ fileIntact' = fileIntact
    BY <1>9 DEF NullPage, FlushOpenFails, Crash
  <2> QED
    BY <2>1, SavedKept, DieStep
<1>10. CASE flush_free_chunk
  <2>1. /\ phase = "up" /\ file' = Flushed /\ fileIntact' = intact
        /\ phase' = "down" /\ ret' = ret /\ fault' = FALSE
    BY <1>10 DEF flush_free_chunk, Forget
  <2>2. SavedNow' = StackNow /\ StackNow' = <<>>
    BY <2>1, FlushSavesStack DEF StackNow
  <2>3. Stack!Stop
    BY <2>1, <2>2 DEF Stack!Stop, StackNow, SavedNow
  <2> QED
    BY <2>3 DEF Stack!Next
<1>11. CASE CrashInFlush
  <2>0. phase = "up" /\ Forget /\ fault' = TRUE
    BY <1>11 DEF CrashInFlush
  <2>1. CASE file' = NoFile /\ fileIntact' = TRUE
    <3>1. file'.current = -1
      BY <2>1 DEF NoFile
    <3>2. SavedNow' = <<>>
      BY <2>1, <3>1, EmptyStack DEF SavedNow
    <3> QED
      BY <2>0, <3>2, DieStep
  <2>2. ASSUME NEW n \in 0 .. Len(Flushed.pages),
               file' = [Flushed EXCEPT !.pages = SubSeq(@, 1, n)],
               fileIntact' = (intact /\ n = Len(Flushed.pages))
        PROVE  Stack!Next
    <3>1. CASE intact /\ n = Len(Flushed.pages)
      <4>1. file' = Flushed
        BY <2>2, <3>1, TypeParts, CutIsFile DEF Inv
      <4>2. fileIntact' = intact
        <5>1. intact = TRUE
          BY <3>1, TypeParts DEF Inv, RestType
        <5>2. fileIntact' = TRUE
          BY <2>2, <3>1, Zenon
        <5> QED
          BY <5>1, <5>2
      <4>3. SavedNow' = StackNow
        BY <2>0, <4>1, <4>2, FlushSavesStack
      <4> QED
        BY <2>0, <4>3, DieStep
    <3>2. CASE ~(intact /\ n = Len(Flushed.pages))
      <4>1. ~fileIntact'
        BY <2>2, <3>2, Zenon
      <4>2. SavedNow' = Unknown
        BY <4>1 DEF SavedNow
      <4> QED
        BY <2>0, <4>2, DieStep
    <3> QED
      BY <3>1, <3>2
  <2> QED
    BY <1>11, <2>1, <2>2 DEF CrashInFlush
<1> QED
  BY <1>1, <1>2, <1>3, <1>4, <1>5, <1>6, <1>7, <1>8, <1>9, <1>10, <1>11 DEF Next

(* The pages, counters and files of chunks.c are a stack that a shutdown   *)
(* saves and a start brings back: what one run of the server freed and did *)
(* not reuse is what the next one pops, last first, and only failures and  *)
(* crashes change that.                                                    *)
THEOREM FreeListIsAStack == Spec => ImplementsStack
<1>1. Init => Stack!Init
  <2> SUFFICES ASSUME Init PROVE Stack!Init
    OBVIOUS
  <2>1. file.current = -1
    BY DEF Init, NoFile
  <2>2. SavedList = <<>>
    BY <2>1, EmptyStack
  <2> QED
    BY <2>2 DEF Init, Stack!Init
<1>2. Inv /\ Inv' /\ [Next]_vars => [Stack!Next]_Stack!vars
  BY StackSimulates
<1> QED
  BY <1>1, <1>2, FreeListInvariant, PTL DEF Spec, ImplementsStack, Stack!Spec
=============================================================================
