----------------------------- MODULE DigestStream -----------------------------
(***************************************************************************)
(* The fingerprints of the chunks: the streaming MD5 of                    *)
(* src/src/common/misc/md5.c and SHA-1 of sha1.c.  A context takes its     *)
(* message in pieces, keeps the bytes that do not fill a block yet and     *)
(* counts what it took in two words, the low one carrying into the high:   *)
(* MD5 counts bytes, SHA-1 bits.  The end pads the message and appends the *)
(* count in bits.                                                          *)
(*                                                                         *)
(* The compression of a block into the chaining state is not interpreted:  *)
(* the state is the sequence of the blocks it was given.  The code never   *)
(* looks at a byte of the message, so byte i of it is <<"message", i>>;    *)
(* a word of the length is one byte.  Blocks and words are small here;     *)
(* B = 64, LengthBytes = 8, Word = 2^32 and ByteBits = 8 in the code.      *)
(***************************************************************************)
EXTENDS Integers, Sequences, SequencesExt

CONSTANTS B,          \* bytes of a block
          Word,       \* values of a word, a multiple of B and of ByteBits
          ByteBits,   \* bits of a byte
          MaxLength,  \* bound: length of a message
          FileBuffer  \* bytes md5_file reads at a time

LengthBytes == 2

ASSUME DigestAssumption ==
    /\ B \in Nat /\ B > LengthBytes
    /\ ByteBits \in Nat \ {0, 1} /\ Word \in Nat \ {0}
    /\ Word % (B * ByteBits) = 0
    /\ FileBuffer < Word \div 2
    /\ MaxLength \in Nat /\ FileBuffer \in Nat \ {0}

Alg == {"md5", "sha1"}

Message(i) == <<"message", i>>
One        == <<"pad", 1>>      \* 0x80
Zero       == <<"pad", 0>>
Junk       == <<"junk", 0>>     \* an uninitialised byte of the buffer
Length(w)  == <<"length", w>>

VARIABLES alg,         \* which of the two
          ctx,         \* its context
          pc,          \* what runs: see Pc
          finalcount,  \* SHA1Final: the count before the padding
          file,        \* md5_file: the length of the file, a read that failed
          ret,         \* md5_file: what it returned, -1 before
          taken        \* ghost: bytes of the message taken

vars == <<alg, ctx, pc, finalcount, file, ret, taken>>

(* A caller gives pieces, or md5_file reads them; then the end.  A copy    *)
(* that ran past the buffer is the end of what can be said ("overrun").    *)
Pc == {"update", "file", "padding", "done", "failed", "overrun"}

TypeOK ==
    /\ alg \in Alg
    /\ DOMAIN ctx = {"state", "total", "buffer"}
    /\ \A k \in DOMAIN ctx.state : DOMAIN ctx.state[k] = 1 .. B
    /\ ctx.total[1] \in 0 .. Word - 1 /\ ctx.total[2] \in Nat
    /\ DOMAIN ctx.buffer = 1 .. B
    /\ pc \in Pc
    /\ Len(finalcount) \in {0, LengthBytes}
    /\ file \in [size : 0 .. MaxLength, failed : BOOLEAN]
    /\ ret \in {-1, 0, 1, 2}
    /\ taken \in 0 .. MaxLength

-----------------------------------------------------------------------------
(* md5_starts, SHA1Init: buffer is not touched. *)
Starts == [state |-> <<>>, total |-> <<0, 0>>, buffer |-> [j \in 1 .. B |-> Junk]]

(* The chaining state after more blocks, of either digest. *)
md5_process(state, blocks)   == state \o blocks
SHA1Transform(state, blocks) == state \o blocks

(* memcpy(buffer + left, input, n) *)
Fill(buffer, left, input) ==
    [j \in 1 .. B |-> IF left < j /\ j <= left + Len(input)
                      THEN input[j - left] ELSE buffer[j]]

(* The whole blocks of the input after its first n bytes, and what remains. *)
Whole(input, n) ==
    [k \in 1 .. (Len(input) - n) \div B |->
        SubSeq(input, n + (k - 1) * B + 1, n + k * B)]

Rest(input, n) == SubSeq(input, n + Len(Whole(input, n)) * B + 1, Len(input))

(* Mutant: the low word, wider than 32 bits in the code, is not masked. *)
Md5CountUnmasked(total, n) == <<total[1] + n, total[2]>>

(* The count of bytes in two words, carried when the low one wrapped; the  *)
(* high one has bits to spare.                                             *)
Md5Count(total, n) ==
    LET low == (total[1] + n) % Word
    IN <<low, IF low < n THEN total[2] + 1 ELSE total[2]>>

(* SHA1Update's count of bits: a piece of 2^29 bytes or more also adds to  *)
(* the high word.                                                          *)
Sha1Count(total, n) ==
    LET bits  == n * ByteBits
        low   == (total[1] + (bits % Word)) % Word
        carry == IF low < total[1] THEN 1 ELSE 0
    IN <<low, (total[2] + carry + bits \div Word) % Word>>

(* md5_update: a full buffer is processed, then whole blocks straight from *)
(* the input, and the rest is kept.                                        *)
Md5Update(c, input) ==
    LET left  == c.total[1] % B
        fills == left # 0 /\ Len(input) >= B - left
        n     == IF fills THEN B - left ELSE 0
        full  == Fill(c.buffer, left, SubSeq(input, 1, n))
        first == IF fills THEN <<full>> ELSE <<>>
    IN IF input = <<>> THEN c
       ELSE [state  |-> md5_process(c.state, first \o Whole(input, n)),
             total  |-> Md5Count(c.total, Len(input)),
             buffer |-> Fill(full, IF fills THEN 0 ELSE left, Rest(input, n))]

(* The first test of SHA1Update, j + len > 63, is on words and can wrap:   *)
(* the else-branch then copies all of the piece to the buffer, past its    *)
(* end.  The test of the loop, i + 63 < len, wraps only if this one did.   *)
At(c)              == (c.total[1] \div ByteBits) % B
FillsBlock(c, n)   == (At(c) + n) % Word >= B
RunsOver(c, n)     == At(c) + n >= Word

(* Mutant: a block that a piece fills exactly stays in the buffer. *)
Sha1UpdateLate(c, input) ==
    LET j    == At(c)
        full == Fill(c.buffer, j, SubSeq(input, 1, B - j))
    IN IF (j + Len(input)) % Word > B
       THEN [state  |-> SHA1Transform(c.state, <<full>> \o Whole(input, B - j)),
             total  |-> Sha1Count(c.total, Len(input)),
             buffer |-> Fill(full, 0, Rest(input, B - j))]
       ELSE [c EXCEPT !.total = Sha1Count(@, Len(input)),
                      !.buffer = Fill(@, j, input)]

(* SHA1Update: the first block always goes through the buffer. *)
Sha1Update(c, input) ==
    LET j    == At(c)
        full == Fill(c.buffer, j, SubSeq(input, 1, B - j))
    IN IF FillsBlock(c, Len(input))
       THEN [state  |-> SHA1Transform(c.state, <<full>> \o Whole(input, B - j)),
             total  |-> Sha1Count(c.total, Len(input)),
             buffer |-> Fill(full, 0, Rest(input, B - j))]
       ELSE [c EXCEPT !.total = Sha1Count(@, Len(input)),
                      !.buffer = Fill(@, j, input)]

(* md5_padding, as much of it as is asked for *)
md5_padding(n) == [j \in 1 .. n |-> IF j = 1 THEN One ELSE Zero]

(* Mutant: a message that ends where the length begins gets no padding. *)
PadnUpTo(last) == IF last <= B - LengthBytes THEN B - LengthBytes - last
                  ELSE 2 * B - LengthBytes - last

(* md5_finish: the count is turned into bits, and as many bytes are padded *)
(* as leave room for it at the end of a block.                             *)
Md5Padn(last) == IF last < B - LengthBytes THEN B - LengthBytes - last
                 ELSE 2 * B - LengthBytes - last

Md5Finish(c) ==
    LET low  == (c.total[1] * ByteBits) % Word
        high == ((c.total[1] * ByteBits) \div Word + c.total[2] * ByteBits) % Word
        padn == Md5Padn(c.total[1] % B)
    IN Md5Update(Md5Update(c, md5_padding(padn)), <<Length(low), Length(high)>>)

-----------------------------------------------------------------------------
Init ==
    /\ alg \in Alg
    /\ ctx = Starts
    /\ pc \in IF alg = "md5" THEN {"update", "file"} ELSE {"update"}
    /\ finalcount = <<>>
    /\ file \in [size : IF pc = "file" THEN 0 .. MaxLength ELSE {0}, failed : {FALSE}]
    /\ ret = -1
    /\ taken = 0

Piece(n) == [j \in 1 .. n |-> Message(taken + j)]

(* The caller gives the next n bytes: do_hash, md5 and produce all of them *)
(* at once, any other caller as it likes.  The length is an int for MD5    *)
(* and a word for SHA-1.                                                   *)
MaxPiece == IF alg = "md5" THEN Word \div 2 - 1 ELSE Word - 1

Feed(n) ==
    /\ pc = "update" /\ n <= MaxPiece /\ taken + n <= MaxLength
    /\ ctx' = IF alg = "md5" THEN Md5Update(ctx, Piece(n)) ELSE Sha1Update(ctx, Piece(n))
    /\ taken' = taken + n
    /\ pc' = IF alg = "sha1" /\ RunsOver(ctx, n) THEN "overrun" ELSE pc
    /\ UNCHANGED <<alg, finalcount, file, ret>>

md5_finish ==
    /\ alg = "md5" /\ pc = "update"
    /\ ctx' = Md5Finish(ctx)
    /\ pc' = "done"
    /\ UNCHANGED <<alg, finalcount, file, ret, taken>>

(* SHA1Final notes the count, the high word first, and pads a byte at a    *)
(* time until it fits.                                                     *)
SHA1FinalStarts ==
    /\ alg = "sha1" /\ pc = "update"
    /\ finalcount' = <<Length(ctx.total[2]), Length(ctx.total[1])>>
    /\ ctx' = Sha1Update(ctx, <<One>>)
    /\ pc' = "padding"
    /\ UNCHANGED <<alg, file, ret, taken>>

CountFits == ctx.total[1] % (B * ByteBits) = (B - LengthBytes) * ByteBits

(* Mutant: the padding is not counted. *)
PadsUncounted ==
    /\ pc = "padding" /\ ~CountFits
    /\ ctx' = [Sha1Update(ctx, <<Zero>>) EXCEPT !.total = ctx.total]
    /\ UNCHANGED <<alg, pc, finalcount, file, ret, taken>>

SHA1FinalPads ==
    /\ pc = "padding" /\ ~CountFits
    /\ ctx' = Sha1Update(ctx, <<Zero>>)
    /\ UNCHANGED <<alg, pc, finalcount, file, ret, taken>>

SHA1FinalEnds ==
    /\ pc = "padding" /\ CountFits
    /\ ctx' = Sha1Update(ctx, finalcount)
    /\ pc' = "done"
    /\ UNCHANGED <<alg, finalcount, file, ret, taken>>

-----------------------------------------------------------------------------
(* md5_file: what is left of the file, FileBuffer bytes at a time.  A read *)
(* that fails returns what it has and sets the error of the stream; the    *)
(* loop goes on as long as it returns anything, and the error is looked at *)
(* after the digest is made.                                               *)
OpenFails ==
    /\ pc = "file" /\ taken = 0 /\ ~file.failed
    /\ pc' = "failed" /\ ret' = 1
    /\ UNCHANGED <<alg, ctx, finalcount, file, taken>>

Left == IF file.size - taken < FileBuffer THEN file.size - taken ELSE FileBuffer

(* fread, and md5_update of what it read; the end when that is nothing. *)
Fread(n, failed) ==
    /\ pc = "file"
    /\ IF n > 0
       THEN ctx' = Md5Update(ctx, Piece(n)) /\ UNCHANGED <<pc, ret>>
       ELSE /\ ctx' = Md5Finish(ctx)
            /\ pc' = "done"
            /\ ret' = IF failed THEN 2 ELSE 0
    /\ taken' = taken + n
    /\ file' = [file EXCEPT !.failed = failed]
    /\ UNCHANGED <<alg, finalcount>>

(* Mutant: a short read ends the file, and its error is not looked at. *)
ReadShort == pc = "file" /\ \E n \in 0 .. Left : Fread(n, FALSE)

ReadFails == pc = "file" /\ \E n \in 0 .. Left : n < FileBuffer /\ Fread(n, TRUE)
ReadFile  == pc = "file" /\ Fread(Left, file.failed)

Next ==
    \/ \E n \in 0 .. MaxLength : Feed(n)
    \/ md5_finish
    \/ SHA1FinalStarts \/ SHA1FinalPads \/ SHA1FinalEnds
    \/ OpenFails \/ ReadFile \/ ReadFails

Spec == Init /\ [][Next]_vars /\ WF_vars(SHA1FinalPads \/ SHA1FinalEnds)

-----------------------------------------------------------------------------
(* What the digest of n bytes is, by RFC 1321 and FIPS 180: the message,   *)
(* one bit, the fewest zeros that leave room for the count at the end of a *)
(* block, and the count of bits modulo its width, MD5's low word first.    *)
Padded(a, n) ==
    LET zeros == CHOOSE z \in 0 .. B - 1 : (n + 1 + z + LengthBytes) % B = 0
        bits  == (n * ByteBits) % (Word * Word)
        count == <<Length(bits % Word), Length(bits \div Word)>>
    IN [j \in 1 .. n |-> Message(j)] \o <<One>> \o [j \in 1 .. zeros |-> Zero]
         \o (IF a = "md5" THEN count ELSE Reverse(count))

Blocks(s) == [k \in 1 .. Len(s) \div B |-> SubSeq(s, (k - 1) * B + 1, k * B)]

(* A digest is the digest of the bytes taken, however they were cut, and   *)
(* however often the words of the count wrapped (md5_update, md5_finish,   *)
(* SHA1Update, SHA1Final), unless a piece of nearly 2^32 bytes made        *)
(* SHA1Update copy past its buffer, after which there is no digest.        *)
DigestOfTheMessage == pc = "done" => ctx.state = Blocks(Padded(alg, taken))

(* Before the end nothing is lost, kept twice or taken from the buffer     *)
(* before it was put there: the blocks processed, then the bytes of the    *)
(* buffer that the count says are there, are the message so far (again as  *)
(* long as no copy ran past the buffer).                                   *)
NothingLostInTheBuffer ==
    pc \in {"update", "file"} =>
        FlattenSeq(ctx.state)
            \o SubSeq(ctx.buffer, 1, (IF alg = "md5" THEN ctx.total[1]
                                      ELSE ctx.total[1] \div ByteBits) % B)
        = [j \in 1 .. taken |-> Message(j)]

(* md5_file that returns 0 has digested the whole file: a read that failed *)
(* and a later one that did not are not taken for the file.                *)
FileDigestIsWhole == ret = 0 => taken = file.size

(* SHA1Final's loop finds the place for the count (its condition is on the *)
(* count of bits, which the padding itself moves).                         *)
PaddingEnds == pc = "padding" ~> pc = "done"
=============================================================================
