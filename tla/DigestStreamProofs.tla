-------------------------- MODULE DigestStreamProofs --------------------------
(***************************************************************************)
(* The digests take their message as a stream: for blocks, words, bytes    *)
(* and messages of any size, the blocks that went through the compression  *)
(* are those of the padded message, however the message was cut, and       *)
(* however often the words of the count wrapped; until a piece makes       *)
(* SHA1Update copy past its buffer (RunsOver), if one does.                *)
(*                                                                         *)
(* A context has taken a sequence s (Took) when its state is the whole     *)
(* blocks of s and its buffer begins with the rest.  An update with an     *)
(* input turns a context that took s into one that took s \o input         *)
(* (Md5Takes, Sha1Takes); all else is which sequence that is at each       *)
(* place of the code.                                                      *)
(***************************************************************************)
EXTENDS DigestStream, SequenceTheorems, NaturalsInduction, WellFoundedInduction,
        TLAPS

Cell == {"message", "pad", "junk", "length"} \X Int
Blk  == [1 .. B -> Cell]
Ctx  == [state : Seq(Blk), total : (0 .. Word - 1) \X Nat, buffer : Blk]

-----------------------------------------------------------------------------
(* Arithmetic.  Quotient and remainder by a positive number.               *)
LEMMA DivMod ==
    ASSUME NEW N \in Nat \ {0}, NEW n \in Nat
    PROVE  /\ n = N * (n \div N) + (n % N)
           /\ n \div N \in Nat
           /\ n % N \in 0 .. N - 1
BY SMT

(* They are the only ones. *)
LEMMA DivModUnique ==
    ASSUME NEW N \in Nat \ {0}, NEW x \in Nat, NEW q \in Int, NEW r \in 0 .. N - 1,
           x = N * q + r
    PROVE  x \div N = q /\ x % N = r
BY SMT

(* A product of numbers is a number, in any order. *)
LEMMA Product ==
    ASSUME NEW a \in Int, NEW b \in Int
    PROVE  /\ a * b \in Int /\ a * b = b * a
           /\ (a + 1) * b = a * b + b
           /\ (a - 1) * b = a * b - b
           /\ a >= 0 /\ b >= 0 => a * b >= 0
BY SMT

(* Brackets of a product. *)
LEMMA Distribute ==
    ASSUME NEW a \in Int, NEW b \in Int, NEW c \in Int
    PROVE  /\ (a + b) * c = a * c + b * c
           /\ (a - b) * c = a * c - b * c
           /\ (a * b) * c = a * (b * c)
BY SMT

(* Fewer blocks are shorter by a block. *)
LEMMA Monotone ==
    ASSUME NEW a \in Int, NEW b \in Int, NEW c \in Nat
    PROVE  /\ a <= b => a * c <= b * c
           /\ a < b => a * c + c <= b * c
<1>1. (b - a) * c = b * c - a * c /\ a * c \in Int /\ b * c \in Int
  BY Distribute, Product
<1>2. a <= b => (b - a) * c >= 0
  BY SMT
<1>3. a < b => (b - a - 1) * c >= 0
  BY SMT
<1>4. (b - a - 1) * c = (b - a) * c - c
  BY Product
<1>5. (b - a) * c \in Int
  BY Product
<1> QED
  BY <1>1, <1>2, <1>3, <1>4, <1>5

(* Remainders add up. *)
LEMMA AddMod ==
    ASSUME NEW N \in Nat \ {0}, NEW x \in Nat, NEW y \in Nat
    PROVE  /\ ((x % N) + y) % N = (x + y) % N
           /\ (x + y) \div N = (x \div N) + ((x % N) + y) \div N
<1> DEFINE q == x \div N
           r == x % N
           p == (r + y) \div N
           t == (r + y) % N
<1>1. x = N * q + r /\ q \in Nat /\ r \in 0 .. N - 1
  BY DivMod
<1>a. r + y \in Nat /\ x + y \in Nat
  BY <1>1
<1>2. r + y = N * p + t /\ p \in Nat /\ t \in 0 .. N - 1
  BY <1>a, DivMod
<1> HIDE DEF q, r, p, t
<1>3. N * (q + p) = N * q + N * p /\ N * q \in Int /\ N * p \in Int
  BY <1>1, <1>2
<1>4. x + y = N * (q + p) + t
  BY <1>1, <1>2, <1>3
<1>5. q + p \in Int
  BY <1>1, <1>2
<1>6. (x + y) \div N = q + p /\ (x + y) % N = t
  BY <1>a, <1>2, <1>4, <1>5, DivModUnique
<1> QED
  BY <1>6 DEF q, r, p, t

(* The operations named: the provers match the names and do not search     *)
(* for factors.                                                            *)
IsProduct(M, N, m) == M = N * m
Rem(x, N)          == x % N
Quo(x, N)          == x \div N

(* A product has a value. *)
LEMMA HasProduct ==
    \A N, m \in Nat \ {0} : \E M \in Nat \ {0} : IsProduct(M, N, m)
BY SMT DEF IsProduct

(* So have remainder and quotient. *)
LEMMA HasRem ==
    \A x \in Nat : \A N \in Nat \ {0} : Rem(x, N) \in Nat /\ Quo(x, N) \in Nat
BY DivMod DEF Rem, Quo

(* A factor goes in and out of a remainder. *)
LEMMA RemOfProduct ==
    \A N, c, M \in Nat \ {0} : \A x, y \in Nat :
        IsProduct(M, N, c) /\ IsProduct(y, x, c) => IsProduct(Rem(y, M), Rem(x, N), c)
<1> SUFFICES ASSUME NEW N \in Nat \ {0}, NEW c \in Nat \ {0}, NEW M \in Nat \ {0},
                    NEW x \in Nat, NEW y \in Nat, IsProduct(M, N, c), IsProduct(y, x, c)
             PROVE  IsProduct(Rem(y, M), Rem(x, N), c)
  OBVIOUS
<1>0. M = N * c /\ y = x * c
  BY DEF IsProduct
<1> DEFINE q == x \div N
           r == x % N
<1>1. x = N * q + r /\ q \in Nat /\ r \in 0 .. N - 1
  BY DivMod
<1>2. M \in Nat \ {0}
  OBVIOUS
<1> HIDE DEF q, r
<1>3. r * c \in 0 .. M - 1
  <2>1. r * c + c <= N * c /\ r * c >= 0 /\ r * c \in Int
    BY <1>1, Monotone, Product
  <2> QED
    BY <1>0, <1>2, <2>1
<1>4. y = M * q + r * c
  <2>1. x * c = (N * q) * c + r * c
    BY <1>1, Distribute, Product
  <2>2. (N * q) * c = N * (q * c) /\ (N * c) * q = N * (c * q) /\ q * c = c * q
    BY <1>1, Distribute, Product
  <2> QED
    BY <1>0, <2>1, <2>2
<1>5. y \in Nat
  OBVIOUS
<1>6. y % M = r * c
  <2> DEFINE t == r * c
  <2>1. q \in Int /\ t \in 0 .. M - 1 /\ y = M * q + t
    BY <1>1, <1>3, <1>4
  <2> HIDE DEF t
  <2>2. y % M = t
    BY <1>2, <1>5, <2>1, DivModUnique
  <2> QED
    BY <2>2 DEF t
<1> QED
  BY <1>6 DEF r, Rem, IsProduct

(* The remainder by a multiple has the remainder of the number. *)
LEMMA RemOfRem ==
    \A N, m, M \in Nat \ {0} : \A x \in Nat :
        IsProduct(M, N, m) => /\ Rem(Rem(x, M), N) = Rem(x, N)
                              /\ Quo(Rem(x, M), N) = Rem(Quo(x, N), m)
<1> SUFFICES ASSUME NEW N \in Nat \ {0}, NEW m \in Nat \ {0}, NEW M \in Nat \ {0},
                    NEW x \in Nat, M = N * m
             PROVE  (x % M) % N = x % N /\ (x % M) \div N = (x \div N) % m
  BY Zenon DEF IsProduct, Rem, Quo
<1> DEFINE q == x \div N
           r == x % N
           p == q \div m
           t == q % m
<1>1. x = N * q + r /\ q \in Nat /\ r \in 0 .. N - 1
  BY DivMod
<1>2. q = m * p + t /\ p \in Nat /\ t \in 0 .. m - 1
  BY <1>1, DivMod
<1>3. M \in Nat \ {0}
  OBVIOUS
<1> HIDE DEF q, r, p, t
<1>4. N * t + r \in 0 .. M - 1
  <2>1. t * N + N <= m * N /\ t * N >= 0 /\ t * N = N * t /\ m * N = N * m /\ t * N \in Int
    BY <1>2, Monotone, Product
  <2> QED
    BY <1>1, <1>3, <2>1
<1>5. x = M * p + (N * t + r)
  <2>1. N * q = N * (m * p) + N * t
    BY <1>2, Distribute, Product
  <2>2. (N * m) * p = N * (m * p)
    BY <1>2, Distribute
  <2>3. N * q \in Int /\ N * t \in Int /\ N * (m * p) \in Int
    BY <1>1, <1>2, Product
  <2> QED
    BY <1>1, <2>1, <2>2, <2>3
<1>6. x % M = N * t + r
  <2> DEFINE u == N * t + r
  <2>1. p \in Int /\ u \in 0 .. M - 1 /\ x = M * p + u
    BY <1>2, <1>3, <1>4, <1>5
  <2> HIDE DEF u
  <2>2. x % M = u
    BY <1>3, <2>1, DivModUnique
  <2> QED
    BY <2>2 DEF u
<1>7. (N * t + r) % N = r /\ (N * t + r) \div N = t
  BY <1>1, <1>2, <1>4, DivModUnique
<1> QED
  BY <1>6, <1>7 DEF r, q, t

(* Factors are in any brackets and in any order. *)
LEMMA ProductsAssociate ==
    \A N, c, k, U, W, n \in Nat \ {0} :
        IsProduct(U, N, c) /\ IsProduct(W, U, k) /\ IsProduct(n, c, k) => IsProduct(W, N, n)
<1> SUFFICES ASSUME NEW N \in Nat \ {0}, NEW c \in Nat \ {0}, NEW k \in Nat \ {0}
             PROVE  (N * c) * k = N * (c * k)
  BY DEF IsProduct
<1> QED
  BY Distribute

(* The same. *)
LEMMA ProductsCommute ==
    \A N, c, k, U, W, m \in Nat \ {0} :
        IsProduct(U, N, c) /\ IsProduct(W, U, k) /\ IsProduct(m, N, k) => IsProduct(W, m, c)
<1> SUFFICES ASSUME NEW N \in Nat \ {0}, NEW c \in Nat \ {0}, NEW k \in Nat \ {0}
             PROVE  (N * c) * k = (N * k) * c
  BY DEF IsProduct
<1>1. (N * c) * k = N * (c * k) /\ (N * k) * c = N * (k * c) /\ k * c = c * k
  BY Distribute, Product
<1> QED
  BY <1>1

(* A product divided by a factor. *)
LEMMA QuoOfProduct ==
    \A c \in Nat \ {0} : \A x, y \in Nat : IsProduct(y, x, c) => Quo(y, c) = x
<1> SUFFICES ASSUME NEW c \in Nat \ {0}, NEW x \in Nat PROVE (x * c) \div c = x
  BY DEF IsProduct, Quo
<1>1. x * c \in Nat /\ x * c = c * x + 0
  BY Product
<1> QED
  BY <1>1, DivModUnique

(* A count of x bytes of c bits modulo W, a multiple of N bytes, knows     *)
(* what remains of x by N.                                                 *)
LEMMA RestOfCount ==
    \A N, c, k, U, W \in Nat \ {0} : \A x, y \in Nat :
        IsProduct(U, N, c) /\ IsProduct(W, U, k) /\ IsProduct(y, x, c)
            => /\ Rem(Rem(x, W), N) = Rem(x, N)
               /\ Rem(Quo(Rem(y, W), c), N) = Rem(x, N)
               /\ IsProduct(Rem(Rem(y, W), U), Rem(x, N), c)
<1> SUFFICES ASSUME NEW N \in Nat \ {0}, NEW c \in Nat \ {0}, NEW k \in Nat \ {0},
                    NEW U \in Nat \ {0}, NEW W \in Nat \ {0},
                    NEW x \in Nat, NEW y \in Nat,
                    IsProduct(U, N, c), IsProduct(W, U, k), IsProduct(y, x, c)
             PROVE  /\ Rem(Rem(x, W), N) = Rem(x, N)
                    /\ Rem(Quo(Rem(y, W), c), N) = Rem(x, N)
                    /\ IsProduct(Rem(Rem(y, W), U), Rem(x, N), c)
  BY SMTT(30)
<1>1. PICK m \in Nat \ {0} : IsProduct(m, N, k)
  BY HasProduct, Zenon
<1>2. PICK n \in Nat \ {0} : IsProduct(n, c, k)
  BY HasProduct, Zenon
<1>3. IsProduct(W, m, c) /\ IsProduct(W, N, n)
  BY <1>1, <1>2, ProductsAssociate, ProductsCommute, SMTT(60)
<1>4. Rem(Rem(x, W), N) = Rem(x, N) /\ Rem(Rem(x, m), N) = Rem(x, N)
  BY <1>1, <1>3, RemOfRem
<1>5. IsProduct(Rem(y, W), Rem(x, m), c) /\ Rem(y, W) \in Nat /\ Rem(x, m) \in Nat
  BY <1>3, RemOfProduct, HasRem
<1>6. Quo(Rem(y, W), c) = Rem(x, m)
  BY <1>5, QuoOfProduct
<1>7. Rem(Rem(y, W), U) = Rem(y, U)
  BY RemOfRem
<1>8. IsProduct(Rem(y, U), Rem(x, N), c)
  BY RemOfProduct
<1> QED
  BY <1>4, <1>6, <1>7, <1>8

-----------------------------------------------------------------------------
(* Blocks, words and counts.  A word counts whole blocks.                  *)
LEMMA Sizes ==
    /\ B \in Nat \ {0} /\ B > LengthBytes /\ LengthBytes = 2
    /\ ByteBits \in Nat \ {0} /\ Word \in Nat \ {0} /\ B + B <= Word /\ B <= Word
    /\ B * ByteBits \in Nat \ {0}
    /\ \E k \in Nat \ {0} : Word = (B * ByteBits) * k
<1>1. /\ B \in Nat \ {0} /\ B > LengthBytes /\ LengthBytes = 2
      /\ ByteBits \in Nat \ {0} /\ 2 <= ByteBits /\ Word \in Nat
  BY DigestAssumption DEF LengthBytes
<1>2. Word # 0
  BY <1>1, DigestAssumption
<1> DEFINE U == B * ByteBits
           k == Word \div U
<1>3. U \in Nat \ {0} /\ U >= B + B
  <2>1. 2 * B <= ByteBits * B /\ ByteBits * B = B * ByteBits /\ B * ByteBits \in Int
    BY <1>1, Monotone, Product
  <2> QED
    BY <1>1, <2>1
<1>4. Word % U = 0
  BY DigestAssumption
<1> HIDE DEF U
<1>5. Word = U * k + 0 /\ k \in Nat
  BY <1>1, <1>3, <1>4, DivMod
<1> HIDE DEF k
<1>6. k # 0
  BY <1>2, <1>3, <1>5
<1>7. 1 * U <= k * U /\ k * U = U * k
  BY <1>3, <1>5, <1>6, Monotone, Product
<1> QED
  BY <1>1, <1>2, <1>3, <1>5, <1>6, <1>7 DEF U

(* The count of n bytes, MD5's in bytes and SHA-1's in bits. *)
CountOf(a, n) ==
    IF a = "md5" THEN <<n % Word, n \div Word>>
    ELSE <<(n * ByteBits) % Word, ((n * ByteBits) \div Word) % Word>>

(* What the count says is in the buffer. *)
LeftOf(a, total) == (IF a = "md5" THEN total[1] ELSE total[1] \div ByteBits) % B

(* It is what remains of the bytes counted, however often a word wrapped,  *)
(* and SHA1Final's condition finds the place for the count.                *)
LEMMA CountKnowsRest ==
    ASSUME NEW n \in Nat
    PROVE  /\ \A a \in Alg : LeftOf(a, CountOf(a, n)) = n % B
           /\ CountOf("sha1", n)[1] % (B * ByteBits) = (B - LengthBytes) * ByteBits
                <=> n % B = B - LengthBytes
<1> DEFINE U == B * ByteBits
           y == n * ByteBits
<1>1. /\ B \in Nat \ {0} /\ ByteBits \in Nat \ {0} /\ Word \in Nat \ {0}
      /\ U \in Nat \ {0} /\ y \in Nat
  BY Sizes, Product
<1>2. PICK k \in Nat \ {0} : IsProduct(Word, U, k)
  BY Sizes DEF IsProduct
<1>3. IsProduct(U, B, ByteBits) /\ IsProduct(y, n, ByteBits)
  BY Zenon DEF IsProduct
<1> HIDE DEF U, y
<1>4. /\ Rem(Rem(n, Word), B) = Rem(n, B)
      /\ Rem(Quo(Rem(y, Word), ByteBits), B) = Rem(n, B)
      /\ IsProduct(Rem(Rem(y, Word), U), Rem(n, B), ByteBits)
  BY <1>1, <1>2, <1>3, RestOfCount
<1>5. (n % Word) % B = n % B /\ ((y % Word) \div ByteBits) % B = n % B
  BY <1>4, Zenon DEF Rem, Quo
<1>6. \A a \in Alg : LeftOf(a, CountOf(a, n)) = n % B
  BY <1>5, Zenon DEF LeftOf, CountOf, Alg, y
<1>7. (y % Word) % U = (n % B) * ByteBits
  BY <1>4, Zenon DEF Rem, IsProduct
<1>8. n % B \in Nat /\ B - LengthBytes \in Nat
  BY Sizes, DivMod
<1>9. \A r, t \in Nat : r * ByteBits = t * ByteBits => r = t
  <2> SUFFICES ASSUME NEW r \in Nat, NEW t \in Nat, r < t PROVE r * ByteBits # t * ByteBits
    BY SMT
  <2>1. r * ByteBits + ByteBits <= t * ByteBits /\ r * ByteBits \in Int
    BY <1>1, Monotone, Product
  <2> QED
    BY <1>1, <2>1
<1>10. CountOf("sha1", n)[1] = y % Word
  BY DEF CountOf, y
<1> QED
  BY <1>6, <1>7, <1>8, <1>9, <1>10, Zenon DEF U

(* The two updates of the count count. *)
LEMMA Md5Counts ==
    ASSUME NEW n \in Nat, NEW m \in Nat, m <= Word
    PROVE  Md5Count(CountOf("md5", n), m) = CountOf("md5", n + m)
<1> DEFINE q == n \div Word
           r == n % Word
           low == (r + m) % Word
           p == (r + m) \div Word
<1>1. Word \in Nat \ {0} /\ q \in Nat /\ r \in 0 .. Word - 1
  BY Sizes, DivMod
<1>2. (n + m) % Word = low /\ (n + m) \div Word = q + p
  BY <1>1, AddMod
<1>a. r + m \in Nat
  BY <1>1
<1>3. r + m = Word * p + low /\ p \in Nat /\ low \in 0 .. Word - 1
  BY <1>1, <1>a, DivMod
<1>4. CountOf("md5", n)[1] = r /\ CountOf("md5", n)[2] = q
  BY DEF CountOf
<1>5. Md5Count(CountOf("md5", n), m) = <<low, IF low < m THEN q + 1 ELSE q>>
  BY <1>4 DEF Md5Count
<1>6. CountOf("md5", n + m) = <<low, q + p>>
  BY <1>2 DEF CountOf
<1> HIDE DEF q, r, low, p
<1>7. p = IF low < m THEN 1 ELSE 0
  <2>1. CASE p = 0
    BY <1>1, <1>3, <2>1
  <2>2. CASE p = 1
    BY <1>1, <1>3, <2>2
  <2>3. CASE p >= 2
    <3>1. 2 * Word <= p * Word /\ p * Word = Word * p
      BY <1>1, <1>3, <2>3, Monotone, Product
    <3> QED
      BY <1>1, <1>3, <3>1
  <2> QED
    BY <1>3, <2>1, <2>2, <2>3
<1> QED
  BY <1>1, <1>5, <1>6, <1>7

(* The same for SHA-1: the low word wrapped when it became less. *)
LEMMA Sha1Counts ==
    ASSUME NEW n \in Nat, NEW m \in Nat
    PROVE  Sha1Count(CountOf("sha1", n), m) = CountOf("sha1", n + m)
<1> DEFINE x  == n * ByteBits
           b  == m * ByteBits
           q  == x \div Word
           r  == x % Word
           bq == b \div Word
           br == b % Word
           low == (r + br) % Word
           p   == (r + br) \div Word
           carry == IF low < r THEN 1 ELSE 0
<1>1. Word \in Nat \ {0} /\ ByteBits \in Nat \ {0} /\ x \in Nat /\ b \in Nat
  BY Sizes, Product
<1>2. (n + m) * ByteBits = x + b
  BY <1>1, Distribute
<1> HIDE DEF x, b
<1>3. /\ x = Word * q + r /\ q \in Nat /\ r \in 0 .. Word - 1
      /\ b = Word * bq + br /\ bq \in Nat /\ br \in 0 .. Word - 1
  BY <1>1, DivMod
<1>4. r + br \in Nat /\ r \in Nat /\ br \in Nat
  BY <1>1, <1>3
<1>5. r + br = Word * p + low /\ p \in Nat /\ low \in 0 .. Word - 1
  BY <1>1, <1>4, DivMod
<1>6. /\ (r + b) % Word = (b + r) % Word /\ (r + b) \div Word = (b + r) \div Word
      /\ (br + r) % Word = low /\ (br + r) \div Word = p
  <2>1. r + b = b + r /\ br + r = r + br
    BY <1>1, <1>4
  <2> QED
    BY <2>1
<1>7. (x + b) % Word = low /\ (x + b) \div Word = q + (bq + p)
  <2>1. (r + b) % Word = (x + b) % Word /\ (x + b) \div Word = q + (r + b) \div Word
    BY <1>1, AddMod
  <2>2. (br + r) % Word = (b + r) % Word /\ (b + r) \div Word = bq + (br + r) \div Word
    BY <1>1, <1>4, AddMod
  <2> QED
    BY <1>6, <2>1, <2>2
<1>8. CountOf("sha1", n)[1] = r /\ CountOf("sha1", n)[2] = q % Word
  BY DEF CountOf, q, r, x
<1>9. Sha1Count(CountOf("sha1", n), m) = <<low, ((q % Word) + carry + bq) % Word>>
  BY <1>8 DEF Sha1Count, b
<1>10. CountOf("sha1", n + m) = <<low, (q + (bq + p)) % Word>>
  BY <1>2, <1>7 DEF CountOf
<1> HIDE DEF q, r, bq, br, low, p, carry
<1>11. p = carry
  <2>1. CASE p = 0
    BY <1>1, <1>3, <1>5, <2>1 DEF carry
  <2>2. CASE p = 1
    BY <1>1, <1>3, <1>5, <2>2 DEF carry
  <2>3. CASE p >= 2
    <3>1. 2 * Word <= p * Word /\ p * Word = Word * p
      BY <1>1, <1>5, <2>3, Monotone, Product
    <3> QED
      BY <1>1, <1>3, <1>5, <3>1
  <2> QED
    BY <1>5, <2>1, <2>2, <2>3
<1>12. ((q % Word) + (bq + p)) % Word = (q + (bq + p)) % Word
  <2>1. bq + p \in Nat
    BY <1>3, <1>5
  <2> QED
    BY <1>1, <1>3, <2>1, AddMod, ZenonT(60)
<1>13. (q % Word) + p + bq = (q % Word) + (bq + p)
  <2>1. q % Word \in Nat
    BY <1>1, <1>3, DivMod
  <2> QED
    BY <1>3, <1>5, <2>1
<1> QED
  BY <1>9, <1>10, <1>11, <1>12, <1>13

-----------------------------------------------------------------------------
(* Where a block begins. *)
Off(k) == k * B

(* Blocks follow each other. *)
LEMMA Offs ==
    /\ \A k \in Int : Off(k) \in Int /\ Off(k - 1) = Off(k) - B
    /\ \A k, l \in Int : Off(k + l) = Off(k) + Off(l)
    /\ \A k, l \in Int : k <= l => Off(k) <= Off(l)
    /\ \A k \in Nat : Off(k) \in Nat
    /\ Off(0) = 0 /\ Off(1) = B
<1>1. B \in Nat \ {0}
  BY Sizes
<1> QED
  BY <1>1, Product, Distribute, Monotone DEF Off

(* The bytes are whole blocks and less than another. *)
LEMMA Cut ==
    /\ \A n \in Nat : /\ n \div B \in Nat /\ n % B \in Nat /\ n % B < B
                      /\ n = Off(n \div B) + (n % B)
    /\ \A q, r \in Nat : r < B => (Off(q) + r) \div B = q /\ (Off(q) + r) % B = r
<1>1. B \in Nat \ {0}
  BY Sizes
<1>2. ASSUME NEW n \in Nat
      PROVE  /\ n \div B \in Nat /\ n % B \in Nat /\ n % B < B
             /\ n = Off(n \div B) + (n % B)
  <2>1. n = B * (n \div B) + (n % B) /\ n \div B \in Nat /\ n % B \in 0 .. B - 1
    BY <1>1, DivMod
  <2>2. B * (n \div B) = (n \div B) * B
    BY <1>1, <2>1, Product
  <2> QED
    BY <1>1, <2>1, <2>2 DEF Off
<1>3. ASSUME NEW q \in Nat, NEW r \in Nat, r < B
      PROVE  (Off(q) + r) \div B = q /\ (Off(q) + r) % B = r
  <2>1. Off(q) = B * q /\ Off(q) \in Nat
    BY <1>1, Product DEF Off
  <2>2. r \in 0 .. B - 1 /\ Off(q) + r \in Nat /\ q \in Int
    BY <1>1, <1>3, <2>1
  <2>3. Off(q) + r = B * q + r
    BY <2>1
  <2> QED
    BY <1>1, <2>2, <2>3, DivModUnique
<1> QED
  BY <1>2, <1>3

(* A cut of a sequence, by its length. *)
LEMMA SubSeqIs ==
    ASSUME NEW s \in Seq(Cell), NEW a \in Nat, NEW l \in Nat, a + l <= Len(s)
    PROVE  /\ SubSeq(s, a + 1, a + l) \in Seq(Cell)
           /\ Len(SubSeq(s, a + 1, a + l)) = l
           /\ SubSeq(s, a + 1, a + l) = [j \in 1 .. l |-> s[a + j]]
           /\ [j \in 1 .. l |-> s[a + j]] \in [1 .. l -> Cell]
<1>1. SubSeq(s, a + 1, a + l) = [j \in 1 .. l |-> s[a + j]]
  BY DEF SubSeq
<1>2. \A j \in 1 .. l : s[a + j] \in Cell
  BY ElementOfSeq
<1> QED
  BY <1>1, <1>2

(* The whole blocks of the input after its first n bytes, and their bytes. *)
LEMMA WholeIs ==
    ASSUME NEW t \in Seq(Cell), NEW n \in 0 .. Len(t)
    PROVE  /\ Whole(t, n) \in Seq(Blk)
           /\ Len(Whole(t, n)) = (Len(t) - n) \div B
           /\ \A k \in 1 .. (Len(t) - n) \div B : \A j \in 1 .. B :
                Whole(t, n)[k][j] = t[n + Off(k - 1) + j]
<1> DEFINE q == (Len(t) - n) \div B
<1>1. Len(t) \in Nat /\ n \in Nat /\ Len(t) - n \in Nat
  BY LenProperties
<1>2. q \in Nat /\ Off(q) <= Len(t) - n
  <2>1. ASSUME NEW l \in Nat PROVE l \div B \in Nat /\ Off(l \div B) <= l
    <3>1. l \div B \in Nat /\ l % B \in Nat /\ l = Off(l \div B) + (l % B)
      BY Cut
    <3>2. Off(l \div B) \in Nat
      BY <3>1, Offs
    <3> QED
      BY <3>1, <3>2
  <2> QED
    BY <1>1, <2>1
<1>3. Whole(t, n) = [k \in 1 .. q |-> SubSeq(t, n + Off(k - 1) + 1, n + Off(k))]
  BY Zenon DEF Whole, Off
<1> HIDE DEF q
<1>4. ASSUME NEW k \in 1 .. q
      PROVE  /\ SubSeq(t, n + Off(k - 1) + 1, n + Off(k)) \in Blk
             /\ \A j \in 1 .. B :
                  SubSeq(t, n + Off(k - 1) + 1, n + Off(k))[j] = t[n + Off(k - 1) + j]
  <2> DEFINE a == n + Off(k - 1)
  <2>1. a \in Nat /\ n + Off(k) = a + B /\ a + B <= Len(t) /\ B \in Nat
    <3>1. k \in Int /\ k - 1 \in Nat /\ k <= q /\ q \in Int /\ B \in Nat
      BY <1>2, Sizes
    <3>2. Off(k) <= Off(q) /\ Off(k - 1) = Off(k) - B /\ Off(k - 1) \in Nat /\ Off(k) \in Int
          /\ Off(q) \in Int
      BY <3>1, Offs
    <3>3. PICK o \in Nat, oq \in Int, lt \in Int :
              o = Off(k - 1) /\ oq = Off(q) /\ lt = Len(t)
      BY <1>1, <3>2
    <3>4. Off(k) = o + B /\ o + B <= oq /\ n \in Nat /\ n + oq <= lt
      BY <1>1, <1>2, <3>1, <3>2, <3>3, SMTT(60)
    <3>5. n + (o + B) = (n + o) + B /\ (n + o) + B <= lt /\ n + o \in Nat
      BY <3>1, <3>4
    <3> QED
      BY <3>1, <3>3, <3>4, <3>5
  <2> HIDE DEF a
  <2>2. SubSeq(t, a + 1, a + B) = [j \in 1 .. B |-> t[a + j]]
        /\ [j \in 1 .. B |-> t[a + j]] \in [1 .. B -> Cell]
    BY <2>1, SubSeqIs
  <2> QED
    BY <2>1, <2>2 DEF a, Blk
<1>5. Whole(t, n) \in [1 .. q -> Blk]
  BY <1>3, <1>4
<1>6. Whole(t, n) \in Seq(Blk) /\ Len(Whole(t, n)) = q
  BY <1>2, <1>5
<1> QED
  BY <1>3, <1>4, <1>6 DEF q

(* What remains of the input. *)
LEMMA RestIs ==
    ASSUME NEW t \in Seq(Cell), NEW n \in 0 .. Len(t)
    PROVE  /\ Rest(t, n) \in Seq(Cell)
           /\ Len(Rest(t, n)) = (Len(t) - n) % B
           /\ \A j \in 1 .. (Len(t) - n) % B :
                Rest(t, n)[j] = t[n + Off((Len(t) - n) \div B) + j]
<1> DEFINE q == (Len(t) - n) \div B
           r == (Len(t) - n) % B
           a == n + Off(q)
<1>1. Len(t) \in Nat /\ n \in Nat /\ Len(t) - n \in Nat
  BY LenProperties
<1>2. q \in Nat /\ r \in Nat /\ Len(t) - n = Off(q) + r /\ Off(q) \in Nat
  BY <1>1, Cut, Offs
<1>3. Rest(t, n) = SubSeq(t, a + 1, Len(t))
  BY WholeIs DEF Rest, Off
<1> HIDE DEF q, r
<1>4. a \in Nat /\ a + r = Len(t)
  BY <1>1, <1>2
<1> HIDE DEF a
<1>5. /\ SubSeq(t, a + 1, a + r) \in Seq(Cell)
      /\ Len(SubSeq(t, a + 1, a + r)) = r
      /\ SubSeq(t, a + 1, a + r) = [j \in 1 .. r |-> t[a + j]]
  BY <1>2, <1>4, SubSeqIs
<1> QED
  BY <1>3, <1>4, <1>5 DEF a, q, r

(* The blocks of a sequence are its whole blocks. *)
LEMMA BlocksAreWhole ==
    ASSUME NEW s \in Seq(Cell)
    PROVE  Blocks(s) = Whole(s, 0)
<1>1. Len(s) \in Nat
  BY LenProperties
<1>2. Len(s) - 0 = Len(s)
  BY <1>1
<1>3. ASSUME NEW k \in 1 .. Len(s) \div B
      PROVE  SubSeq(s, 0 + Off(k - 1) + 1, 0 + Off(k)) = SubSeq(s, Off(k - 1) + 1, Off(k))
  <2>1. k \in Int /\ k - 1 \in Int
    OBVIOUS
  <2>2. Off(k) \in Int /\ Off(k - 1) \in Int
    BY <2>1, Offs
  <2>3. 0 + Off(k - 1) = Off(k - 1) /\ 0 + Off(k) = Off(k)
    BY <2>2
  <2> QED
    BY <2>3
<1>5. /\ Blocks(s) = [k \in 1 .. Len(s) \div B |-> SubSeq(s, Off(k - 1) + 1, Off(k))]
      /\ Whole(s, 0) = [k \in 1 .. (Len(s) - 0) \div B |->
                          SubSeq(s, 0 + Off(k - 1) + 1, 0 + Off(k))]
  BY Zenon DEF Blocks, Whole, Off
<1> QED
  BY <1>2, <1>3, <1>5

(* Block k of a sequence holds its bytes. *)
LEMMA BlocksAre ==
    ASSUME NEW s \in Seq(Cell)
    PROVE  /\ Blocks(s) \in Seq(Blk)
           /\ Len(Blocks(s)) = Len(s) \div B
           /\ \A k \in 1 .. Len(s) \div B : \A j \in 1 .. B :
                Blocks(s)[k][j] = s[Off(k - 1) + j]
<1>1. Len(s) \in Nat /\ 0 \in 0 .. Len(s) /\ Len(s) - 0 = Len(s)
  BY LenProperties
<1>2. /\ Whole(s, 0) \in Seq(Blk)
      /\ Len(Whole(s, 0)) = Len(s) \div B
      /\ \A k \in 1 .. Len(s) \div B : \A j \in 1 .. B :
           Whole(s, 0)[k][j] = s[0 + Off(k - 1) + j]
  BY <1>1, WholeIs
<1>3. ASSUME NEW k \in 1 .. Len(s) \div B PROVE 0 + Off(k - 1) = Off(k - 1)
  <2>1. k - 1 \in Int
    OBVIOUS
  <2>2. Off(k - 1) \in Int
    BY <2>1, Offs
  <2> QED
    BY <2>2
<1> QED
  BY <1>2, <1>3, BlocksAreWhole

(* The bytes of a filled buffer. *)
LEMMA FillIs ==
    ASSUME NEW b \in Blk, NEW left \in Nat, NEW t \in Seq(Cell)
    PROVE  /\ Fill(b, left, t) \in Blk
           /\ \A j \in 1 .. B : left < j /\ j <= left + Len(t) => Fill(b, left, t)[j] = t[j - left]
           /\ \A j \in 1 .. B : j <= left => Fill(b, left, t)[j] = b[j]
<1>1. Len(t) \in Nat /\ B \in Nat
  BY LenProperties, Sizes
<1>2. \A j \in 1 .. B : left < j /\ j <= left + Len(t) => j - left \in 1 .. Len(t)
  BY <1>1
<1>3. \A j \in 1 .. B : left < j /\ j <= left + Len(t) => t[j - left] \in Cell
  BY <1>2, ElementOfSeq
<1>4. \A j \in 1 .. B : b[j] \in Cell
  BY DEF Blk
<1> QED
  BY <1>1, <1>3, <1>4 DEF Fill, Blk

(* A context has taken the bytes s. *)
Took(c, s) ==
    /\ c.state = Blocks(s)
    /\ \A j \in 1 .. Len(s) % B : c.buffer[j] = s[Off(Len(s) \div B) + j]

(* v has the elements of a, then those of b. *)
IsConcat(v, a, b) ==
    /\ Len(v) = Len(a) + Len(b) /\ Len(a) \in Nat /\ Len(b) \in Nat
    /\ \A i \in 1 .. Len(a) : v[i] = a[i]
    /\ \A i \in 1 .. Len(b) : v[Len(a) + i] = b[i]

(* Where the elements of a concatenation are. *)
LEMMA ConcatIs ==
    \A S : \A a, b \in Seq(S) : a \o b \in Seq(S) /\ IsConcat(a \o b, a, b)
<1> SUFFICES ASSUME NEW S, NEW a \in Seq(S), NEW b \in Seq(S)
             PROVE  a \o b \in Seq(S) /\ IsConcat(a \o b, a, b)
  OBVIOUS
<1>0. Len(a) \in Nat /\ Len(b) \in Nat
  BY LenProperties
<1>1. /\ a \o b \in Seq(S) /\ Len(a \o b) = Len(a) + Len(b)
      /\ \A i \in 1 .. Len(a) + Len(b) : (a \o b)[i] = IF i <= Len(a) THEN a[i] ELSE b[i - Len(a)]
  BY ConcatProperties
<1>2. \A i \in 1 .. Len(a) : i \in 1 .. Len(a) + Len(b) /\ i <= Len(a)
  BY <1>0
<1>3. \A i \in 1 .. Len(b) : /\ Len(a) + i \in 1 .. Len(a) + Len(b) /\ ~(Len(a) + i <= Len(a))
                             /\ (Len(a) + i) - Len(a) = i
  BY <1>0
<1> QED
  BY <1>0, <1>1, <1>2, <1>3 DEF IsConcat

(* Blocks are equal when their bytes are. *)
LEMMA BlocksEqual ==
    ASSUME NEW c \in Seq(Blk), NEW d \in Seq(Blk), Len(c) = Len(d),
           \A k \in 1 .. Len(c) : \A j \in 1 .. B : c[k][j] = d[k][j]
    PROVE  c = d
<1>1. ASSUME NEW k \in 1 .. Len(c) PROVE c[k] = d[k]
  <2>1. c[k] \in Blk /\ d[k] \in Blk
    BY ElementOfSeq
  <2>2. \A j \in 1 .. B : c[k][j] = d[k][j]
    OBVIOUS
  <2>3. c[k] \in [1 .. B -> Cell] /\ d[k] \in [1 .. B -> Cell]
    BY <2>1, Zenon DEF Blk
  <2>4. PICK f \in [1 .. B -> Cell], g \in [1 .. B -> Cell] : f = c[k] /\ g = d[k]
    BY <2>3, Zenon
  <2>5. \A j \in 1 .. B : f[j] = g[j]
    BY <2>2, <2>4, Zenon
  <2>6. f = [j \in 1 .. B |-> f[j]] /\ g = [j \in 1 .. B |-> g[j]]
    BY Zenon
  <2>7. [j \in 1 .. B |-> f[j]] = [j \in 1 .. B |-> g[j]]
    BY <2>5, Zenon
  <2> QED
    BY <2>4, <2>6, <2>7, Zenon
<1> QED
  BY <1>1, SeqEqual

(* A buffer that was filled, whole blocks from the input, and the rest of  *)
(* it: the blocks of all of it. n bytes of the input went through the      *)
(* buffer, as the block first if they filled it.                           *)
LEMMA Absorb ==
    ASSUME NEW s \in Seq(Cell), NEW t \in Seq(Cell), NEW n \in 0 .. Len(t),
           NEW first \in Seq(Blk), NEW b \in Blk, Len(first) \in {0, 1},
           Len(s) + n = Off(Len(s) \div B + Len(first)),
           Len(first) = 1 => \A j \in 1 .. B : first[1][j] = (s \o t)[Off(Len(s) \div B) + j]
    PROVE  /\ Blocks(s) \o (first \o Whole(t, n)) = Blocks(s \o t)
           /\ \A j \in 1 .. Len(s \o t) % B :
                Fill(b, 0, Rest(t, n))[j] = (s \o t)[Off(Len(s \o t) \div B) + j]
<1> DEFINE u == s \o t
           f == Len(first)
           p == Len(s) \div B
           l == Len(t) - n
           q == l \div B
           r == l % B
<1>0. f \in {0, 1} /\ f = Len(first)
  OBVIOUS
<1>1. /\ Len(s) \in Nat /\ Len(t) \in Nat /\ n \in Nat /\ l \in Nat /\ l = Len(t) - n
      /\ n <= Len(t) /\ B \in Nat
  BY LenProperties, Sizes
<1>2. /\ u \in Seq(Cell) /\ Len(u) = Len(s) + Len(t)
      /\ \A i \in 1 .. Len(s) : u[i] = s[i]
      /\ \A i \in 1 .. Len(t) : u[Len(s) + i] = t[i]
  <2>1. u \in Seq(Cell) /\ IsConcat(u, s, t)
    BY ConcatIs, Zenon
  <2> QED
    BY <2>1 DEF IsConcat
<1>3. p \in Nat /\ Off(p) <= Len(s) /\ Off(p) \in Nat
  <2>1. p \in Nat /\ Len(s) % B \in Nat /\ Len(s) = Off(p) + (Len(s) % B)
    BY <1>1, Cut
  <2>2. Off(p) \in Nat
    BY <2>1, Offs
  <2> QED
    BY <2>1, <2>2
<1>4. q \in Nat /\ r \in Nat /\ r < B /\ l = Off(q) + r /\ Off(q) \in Nat
  <2>1. q \in Nat /\ r \in Nat /\ r < B /\ l = Off(q) + r
    BY <1>1, Cut
  <2> QED
    BY <2>1, Offs
<1>5. /\ Whole(t, n) \in Seq(Blk) /\ Len(Whole(t, n)) = q
      /\ \A k \in 1 .. q : \A j \in 1 .. B : Whole(t, n)[k][j] = t[n + Off(k - 1) + j]
  BY WholeIs
<1>6. /\ Rest(t, n) \in Seq(Cell) /\ Len(Rest(t, n)) = r
      /\ \A j \in 1 .. r : Rest(t, n)[j] = t[n + Off(q) + j]
  BY RestIs
<1>7. /\ Blocks(s) \in Seq(Blk) /\ Len(Blocks(s)) = p
      /\ \A k \in 1 .. p : \A j \in 1 .. B : Blocks(s)[k][j] = s[Off(k - 1) + j]
  BY BlocksAre
<1>8. Len(s) + n = Off(p + f)
  OBVIOUS
<1>f. f = 1 => \A j \in 1 .. B : first[1][j] = u[Off(p) + j]
  OBVIOUS
<1> DEFINE z == (p + f) + q
<1> HIDE DEF p, l, q, r, u, f
<1> USE <1>0
<1>9. p + f \in Nat /\ z \in Nat /\ Off(p + f) \in Nat /\ Off(z) = Off(p + f) + Off(q)
  <2>1. p + f \in Nat /\ z \in Nat /\ p + f \in Int /\ q \in Int
    BY <1>3, <1>4, SMTT(60)
  <2> QED
    BY <2>1, Offs
<1> HIDE DEF z
<1>10. Len(u) = Off(z) + r
  <2>1. PICK ls \in Nat, lt \in Nat : ls = Len(s) /\ lt = Len(t)
    BY <1>1
  <2>2. PICK oq \in Nat, op \in Nat : oq = Off(q) /\ op = Off(p + f)
    BY <1>4, <1>9
  <2>3. lt - n = oq + r /\ ls + n = op /\ Off(z) = op + oq /\ Len(u) = ls + lt
    BY <1>1, <1>2, <1>4, <1>8, <1>9, <2>1, <2>2
  <2>4. n \in Nat /\ r \in Nat
    BY <1>1, <1>4
  <2>5. ls + lt = (op + oq) + r
    BY <2>3, <2>4
  <2> QED
    BY <2>3, <2>5
<1>11. Len(u) \div B = z /\ Len(u) % B = r
  <2>1. (Off(z) + r) \div B = z /\ (Off(z) + r) % B = r
    BY <1>4, <1>9, Cut
  <2> QED
    BY <1>10, <2>1
<1>12. /\ Blocks(u) \in Seq(Blk) /\ Len(Blocks(u)) = z
       /\ \A k \in 1 .. z : \A j \in 1 .. B : Blocks(u)[k][j] = u[Off(k - 1) + j]
  <2>1. u \in Seq(Cell)
    BY <1>2
  <2>2. /\ Blocks(u) \in Seq(Blk) /\ Len(Blocks(u)) = Len(u) \div B
        /\ \A k \in 1 .. Len(u) \div B : \A j \in 1 .. B : Blocks(u)[k][j] = u[Off(k - 1) + j]
    BY <2>1, BlocksAre
  <2> QED
    BY <1>11, <2>2
<1> DEFINE v == Blocks(s) \o (first \o Whole(t, n))
<1>13. /\ v \in Seq(Blk) /\ Len(v) = z
       /\ \A k \in 1 .. p : v[k] = Blocks(s)[k]
       /\ f = 1 => v[p + 1] = first[1]
       /\ \A k \in 1 .. q : v[(p + f) + k] = Whole(t, n)[k]
  <2> DEFINE w == first \o Whole(t, n)
  <2>1. w \in Seq(Blk) /\ IsConcat(w, first, Whole(t, n))
    BY <1>5, ConcatIs, Zenon
  <2> HIDE DEF w
  <2>2. v \in Seq(Blk) /\ IsConcat(v, Blocks(s), w)
    BY <1>7, <2>1, ConcatIs, Zenon DEF w
  <2> HIDE DEF v
  <2>3. /\ Len(w) = f + q
        /\ \A k \in 1 .. f : w[k] = first[k]
        /\ \A k \in 1 .. q : w[f + k] = Whole(t, n)[k]
    BY <1>5, <2>1 DEF IsConcat
  <2>4. /\ Len(v) = p + Len(w)
        /\ \A k \in 1 .. p : v[k] = Blocks(s)[k]
        /\ \A k \in 1 .. Len(w) : v[p + k] = w[k]
    BY <1>7, <2>2 DEF IsConcat
  <2>5. p + (f + q) = z
    BY <1>3, <1>4 DEF z
  <2>6. f = 1 => v[p + 1] = first[1]
    BY <1>4, <2>3, <2>4
  <2>7. ASSUME NEW k \in 1 .. q PROVE v[(p + f) + k] = Whole(t, n)[k]
    <3>1. f + k \in 1 .. f + q /\ p + (f + k) = (p + f) + k
      BY <1>3, <1>4
    <3> QED
      BY <2>3, <2>4, <3>1
  <2> QED
    BY <2>2, <2>3, <2>4, <2>5, <2>6, <2>7
<1> HIDE DEF v
<1>14. ASSUME NEW k \in 1 .. z, NEW j \in 1 .. B
       PROVE  v[k][j] = u[Off(k - 1) + j]
  <2>1. CASE k <= p
    <3>1. k \in 1 .. p
      BY <2>1
    <3>2. v[k][j] = s[Off(k - 1) + j]
      BY <1>7, <1>13, <3>1, SMTT(60)
    <3>3. Off(k - 1) + j \in 1 .. Len(s)
      <4>1. k \in Int /\ k - 1 \in Nat /\ p \in Int
        BY <1>3
      <4>2. Off(k) <= Off(p) /\ Off(k - 1) = Off(k) - B /\ Off(k - 1) \in Nat /\ Off(k) \in Int
        BY <2>1, <4>1, Offs
      <4>3. PICK o \in Nat, op \in Nat, ls \in Nat : o = Off(k - 1) /\ op = Off(p) /\ ls = Len(s)
        BY <1>1, <1>3, <4>2
      <4>4. o + B <= op /\ op <= ls
        BY <1>1, <1>3, <4>2, <4>3, SMTT(60)
      <4>5. o + j \in 1 .. ls
        BY <1>1, <4>4
      <4> QED
        BY <4>3, <4>5
    <3> QED
      BY <1>2, <3>2, <3>3
  <2>2. CASE f = 1 /\ k = p + 1
    <3>1. k - 1 = p
      BY <1>3, <2>2
    <3> QED
      BY <1>13, <1>f, <2>2, <3>1
  <2>3. CASE k > p + f
    <3> DEFINE i == k - (p + f)
    <3>1. i \in 1 .. q /\ (p + f) + i = k /\ i - 1 \in Nat /\ i \in Int /\ k - 1 = (p + f) + (i - 1)
      BY <1>3, <1>4, <2>3 DEF z
    <3> HIDE DEF i
    <3>2. v[k][j] = t[n + Off(i - 1) + j]
      BY <1>5, <1>13, <3>1, ZenonT(60)
    <3>3. Off(k - 1) = Off(p + f) + Off(i - 1)
      BY <1>9, <3>1, Offs, SMTT(60)
    <3>4. Off(i) <= Off(q) /\ Off(i - 1) = Off(i) - B /\ Off(i - 1) \in Nat /\ Off(i) \in Int
      BY <1>4, <3>1, Offs
    <3>a. PICK oi \in Nat : oi = Off(i - 1)
      BY <3>4
    <3>b. PICK oq \in Nat, lt \in Nat : oq = Off(q) /\ lt = Len(t)
      BY <1>1, <1>4
    <3>c. oi + B <= oq /\ lt - n = oq + r
      <4>1. PICK o \in Int : o = Off(i)
        BY <3>4
      <4>2. o <= oq /\ oi = o - B
        BY <3>4, <3>a, <3>b, <4>1
      <4>3. lt - n = oq + r
        BY <1>1, <1>4, <3>b
      <4>4. oi + B <= oq
        BY <1>1, <4>2
      <4> QED
        BY <4>3, <4>4
    <3>5. n + oi + j \in 1 .. Len(t)
      BY <1>1, <1>4, <3>b, <3>c, SMTT(60)
    <3>6. Len(s) + (n + oi + j) = Off(k - 1) + j
      <4>1. PICK ls \in Nat, op \in Nat : ls = Len(s) /\ op = Off(p + f)
        BY <1>1, <1>9
      <4>2. ls + n = op /\ Off(k - 1) = op + oi /\ n \in Nat /\ j \in Nat
        BY <1>1, <1>8, <3>3, <3>a, <4>1
      <4>3. ls + (n + oi + j) = (op + oi) + j
        BY <4>2
      <4> QED
        BY <4>1, <4>2, <4>3
    <3> QED
      BY <1>2, <3>2, <3>a, <3>5, <3>6
  <2>4. k \in Int
    BY <1>9
  <2>5. k <= p \/ (f = 1 /\ k = p + 1) \/ k > p + f
    <3>1. p \in Nat
      BY <1>3
    <3>2. CASE f = 0
      BY <2>4, <3>1, <3>2
    <3>3. CASE f = 1
      BY <2>4, <3>1, <3>3
    <3> QED
      BY <3>2, <3>3
  <2> QED
    BY <2>1, <2>2, <2>3, <2>5
<1>15. v = Blocks(u)
  <2>1. \A k \in 1 .. Len(v) : \A j \in 1 .. B : v[k][j] = Blocks(u)[k][j]
    BY <1>12, <1>13, <1>14
  <2> QED
    BY <1>12, <1>13, <2>1, BlocksEqual, ZenonT(60)
<1>16. ASSUME NEW j \in 1 .. r
       PROVE  Fill(b, 0, Rest(t, n))[j] = u[Off(z) + j]
  <2>1. j \in Int /\ 1 <= j /\ j <= r
    BY <1>4
  <2>2. j \in 1 .. B /\ 0 < j /\ j <= 0 + r /\ j - 0 = j
    BY <1>1, <1>4, <2>1
  <2>3. Fill(b, 0, Rest(t, n))[j] = Rest(t, n)[j]
    <3>1. \A i \in 1 .. B : 0 < i /\ i <= 0 + Len(Rest(t, n))
                                => Fill(b, 0, Rest(t, n))[i] = Rest(t, n)[i - 0]
      BY <1>6, FillIs, ZenonT(60)
    <3> QED
      BY <1>6, <2>2, <3>1
  <2>4. PICK oq \in Nat : oq = Off(q)
    BY <1>4
  <2>b. PICK lt \in Nat : lt = Len(t)
    BY <1>1
  <2>c. lt - n = oq + r
    BY <1>1, <1>4, <2>4, <2>b
  <2>5. n + oq + j \in 1 .. Len(t)
    BY <1>1, <1>4, <2>1, <2>b, <2>c, SMTT(60)
  <2>6. Len(s) + (n + oq + j) = Off(z) + j
    <3>1. PICK ls \in Nat, op \in Nat : ls = Len(s) /\ op = Off(p + f)
      BY <1>1, <1>9
    <3>2. ls + n = op /\ Off(z) = op + oq /\ n \in Nat
      BY <1>1, <1>8, <1>9, <2>4, <3>1
    <3>3. ls + (n + oq + j) = (op + oq) + j
      BY <2>1, <3>2
    <3> QED
      BY <3>1, <3>2, <3>3
  <2> QED
    BY <1>2, <1>6, <2>3, <2>4, <2>5, <2>6
<1> QED
  BY <1>11, <1>15, <1>16 DEF u, v

(* The bytes of a whole block are bytes of the sequence. *)
LEMMA InBlock ==
    ASSUME NEW m \in Nat, NEW k \in 1 .. m \div B, NEW j \in 1 .. B
    PROVE  Off(k - 1) + j \in 1 .. m
<1>1. B \in Nat
  BY Sizes
<1>2. PICK p \in Nat, r \in Nat : p = m \div B /\ r = m % B /\ m = Off(p) + r
  BY Cut
<1>3. k \in Int /\ k - 1 \in Nat /\ k <= p
  BY <1>2
<1>4. Off(k) <= Off(p) /\ Off(k - 1) = Off(k) - B /\ Off(k - 1) \in Nat /\ Off(k) \in Int
      /\ Off(p) \in Nat
  BY <1>2, <1>3, Offs
<1>5. PICK o \in Nat, x \in Int, op \in Nat : o = Off(k - 1) /\ x = Off(k) /\ op = Off(p)
  BY <1>4
<1>6. x <= op /\ o = x - B /\ m = op + r
  BY <1>2, <1>4, <1>5
<1>7. o + j \in 1 .. m
  BY <1>1, <1>6
<1> QED
  BY <1>5, <1>7

(* An input that does not fill the buffer is kept in it. *)
LEMMA Keep ==
    ASSUME NEW s \in Seq(Cell), NEW t \in Seq(Cell), NEW b \in Blk,
           (Len(s) % B) + Len(t) < B,
           \A j \in 1 .. Len(s) % B : b[j] = s[Off(Len(s) \div B) + j]
    PROVE  /\ Blocks(s) = Blocks(s \o t)
           /\ \A j \in 1 .. Len(s \o t) % B :
                Fill(b, Len(s) % B, t)[j] = (s \o t)[Off(Len(s \o t) \div B) + j]
<1> DEFINE u == s \o t
           p == Len(s) \div B
           r == Len(s) % B
<1>1. u \in Seq(Cell) /\ IsConcat(u, s, t)
  BY ConcatIs, Zenon
<1>a. \A j \in 1 .. r : b[j] = s[Off(p) + j]
  OBVIOUS
<1>b. r + Len(t) < B
  OBVIOUS
<1> HIDE DEF u
<1>2. PICK ls \in Nat, lt \in Nat : ls = Len(s) /\ lt = Len(t)
  BY LenProperties
<1>3. p \in Nat /\ r \in Nat /\ r < B /\ ls = Off(p) + r /\ Off(p) \in Nat /\ B \in Nat
  <2>1. p \in Nat /\ r \in Nat /\ r < B /\ ls = Off(p) + r
    BY <1>2, Cut
  <2> QED
    BY <2>1, Offs, Sizes
<1>4. \A k \in 1 .. p : \A j \in 1 .. B : Off(k - 1) + j \in 1 .. Len(s)
  BY <1>2, InBlock
<1> HIDE DEF p, r
<1>5. PICK op \in Nat : op = Off(p)
  BY <1>3
<1>6. r + lt \in Nat /\ r + lt < B /\ Len(u) = op + (r + lt)
  <2>1. Len(u) = ls + lt /\ ls = op + r
    BY <1>1, <1>2, <1>3, <1>5 DEF IsConcat
  <2>2. ls + lt = op + (r + lt)
    <3>1. r \in Nat /\ ls = op + r
      BY <1>3, <2>1
    <3> QED
      BY <3>1
  <2> QED
    BY <1>2, <1>3, <1>b, <2>1, <2>2
<1>7. Len(u) \div B = p /\ Len(u) % B = r + lt
  <2>1. (Off(p) + (r + lt)) \div B = p /\ (Off(p) + (r + lt)) % B = r + lt
    BY <1>3, <1>6, Cut
  <2> QED
    BY <1>5, <1>6, <2>1
<1>8. Blocks(s) = Blocks(u)
  <2>1. /\ Blocks(s) \in Seq(Blk) /\ Len(Blocks(s)) = p
        /\ \A k \in 1 .. p : \A j \in 1 .. B : Blocks(s)[k][j] = s[Off(k - 1) + j]
    BY BlocksAre DEF p
  <2>2. /\ Blocks(u) \in Seq(Blk) /\ Len(Blocks(u)) = p
        /\ \A k \in 1 .. p : \A j \in 1 .. B : Blocks(u)[k][j] = u[Off(k - 1) + j]
    <3>1. u \in Seq(Cell)
      BY <1>1
    <3>2. /\ Blocks(u) \in Seq(Blk) /\ Len(Blocks(u)) = Len(u) \div B
          /\ \A k \in 1 .. Len(u) \div B : \A j \in 1 .. B : Blocks(u)[k][j] = u[Off(k - 1) + j]
      BY <3>1, BlocksAre
    <3> QED
      BY <1>7, <3>2
  <2>3. \A k \in 1 .. p : \A j \in 1 .. B : u[Off(k - 1) + j] = s[Off(k - 1) + j]
    BY <1>1, <1>4 DEF IsConcat
  <2> QED
    BY <2>1, <2>2, <2>3, BlocksEqual, SMTT(60)
<1>9. ASSUME NEW j \in 1 .. r + lt
      PROVE  Fill(b, r, t)[j] = u[Off(p) + j]
  <2>1. j \in Int /\ 1 <= j /\ j <= r + lt /\ j \in 1 .. B
    BY <1>3, <1>6
  <2>2. CASE j <= r
    <3>1. Fill(b, r, t)[j] = b[j] /\ j \in 1 .. r
      BY <1>3, <2>1, <2>2, FillIs
    <3>2. op + j \in 1 .. ls
      BY <1>3, <1>5, <2>1, <2>2, SMTT(60)
    <3> QED
      BY <1>1, <1>2, <1>5, <1>a, <3>1, <3>2 DEF IsConcat, p, r
  <2>3. CASE r < j
    <3>1. Fill(b, r, t)[j] = t[j - r]
      BY <1>2, <1>3, <2>1, <2>3, FillIs, SMTT(60)
    <3>2. j - r \in 1 .. lt /\ ls + (j - r) = op + j
      BY <1>3, <1>5, <2>1, <2>3
    <3> QED
      BY <1>1, <1>2, <1>5, <3>1, <3>2 DEF IsConcat
  <2> QED
    BY <1>3, <2>1, <2>2, <2>3
<1> QED
  BY <1>7, <1>8, <1>9 DEF u, r

(* The first bytes of an input. *)
LEMMA FirstIs ==
    ASSUME NEW t \in Seq(Cell), NEW n \in 0 .. Len(t)
    PROVE  /\ SubSeq(t, 1, n) \in Seq(Cell) /\ Len(SubSeq(t, 1, n)) = n
           /\ \A j \in 1 .. n : SubSeq(t, 1, n)[j] = t[j]
<1>1. n \in Nat /\ 0 + n = n /\ 0 + 1 = 1 /\ n <= Len(t) /\ 0 \in Nat
  BY LenProperties
<1>2. /\ SubSeq(t, 0 + 1, 0 + n) \in Seq(Cell)
      /\ Len(SubSeq(t, 0 + 1, 0 + n)) = n
      /\ SubSeq(t, 0 + 1, 0 + n) = [j \in 1 .. n |-> t[0 + j]]
  BY <1>1, SubSeqIs
<1>3. \A j \in 1 .. n : 0 + j = j
  OBVIOUS
<1> QED
  BY <1>1, <1>2, <1>3

(* The buffer that an input fills is the next block. *)
LEMMA FullIs ==
    ASSUME NEW s \in Seq(Cell), NEW t \in Seq(Cell), NEW b \in Blk,
           B <= (Len(s) % B) + Len(t),
           \A j \in 1 .. Len(s) % B : b[j] = s[Off(Len(s) \div B) + j]
    PROVE  LET n    == B - (Len(s) % B)
               full == Fill(b, Len(s) % B, SubSeq(t, 1, n))
           IN /\ n \in 0 .. Len(t)
              /\ full \in Blk
              /\ Len(s) + n = Off(Len(s) \div B + 1)
              /\ \A j \in 1 .. B : full[j] = (s \o t)[Off(Len(s) \div B) + j]
<1> DEFINE u == s \o t
           p == Len(s) \div B
           r == Len(s) % B
           n == B - r
           first == SubSeq(t, 1, n)
           full == Fill(b, r, first)
<1>1. u \in Seq(Cell) /\ IsConcat(u, s, t)
  BY ConcatIs, Zenon
<1>a. \A j \in 1 .. r : b[j] = s[Off(p) + j]
  OBVIOUS
<1>b. B <= r + Len(t)
  OBVIOUS
<1> HIDE DEF u
<1>2. PICK ls \in Nat, lt \in Nat : ls = Len(s) /\ lt = Len(t)
  BY LenProperties
<1>3. /\ p \in Nat /\ r \in Nat /\ r < B /\ ls = Off(p) + r /\ Off(p) \in Nat /\ B \in Nat
      /\ Off(p + 1) = Off(p) + B
  <2>1. p \in Nat /\ r \in Nat /\ r < B /\ ls = Off(p) + r
    BY <1>2, Cut
  <2>2. p \in Int /\ 1 \in Int
    BY <2>1
  <2> QED
    BY <2>1, <2>2, Offs, Sizes
<1> HIDE DEF p, r
<1>5. PICK op \in Nat : op = Off(p)
  BY <1>3
<1>6. n \in 0 .. Len(t) /\ n \in Nat /\ n \in 0 .. lt /\ ls + n = op + B
  BY <1>2, <1>3, <1>5, <1>b
<1>7. first \in Seq(Cell) /\ Len(first) = n /\ \A j \in 1 .. n : first[j] = t[j]
  <2> HIDE DEF n
  <2> QED
    BY <1>6, FirstIs
<1> HIDE DEF first
<1>8. full \in Blk
  BY <1>3, <1>7, FillIs
<1>9. ASSUME NEW j \in 1 .. B
      PROVE  full[j] = u[Off(p) + j]
  <2>1. j \in Int /\ 1 <= j /\ j <= B
    BY <1>3
  <2>2. CASE j <= r
    <3>1. full[j] = b[j] /\ j \in 1 .. r
      BY <1>3, <1>7, <2>1, <2>2, FillIs, SMTT(60)
    <3>2. op + j \in 1 .. ls
      BY <1>3, <1>5, <2>1, <2>2, SMTT(60)
    <3>3. u[op + j] = s[op + j] /\ b[j] = s[op + j]
      BY <1>1, <1>2, <1>5, <1>a, <3>1, <3>2 DEF IsConcat
    <3> QED
      BY <1>5, <3>1, <3>3
  <2>3. CASE r < j
    <3>1. j - r \in 1 .. n /\ j - r \in 1 .. lt /\ ls + (j - r) = op + j /\ j <= r + n
      BY <1>3, <1>5, <1>6, <2>1, <2>3
    <3>2. full[j] = first[j - r]
      <4>1. j <= r + Len(first)
        BY <1>7, <3>1
      <4>2. \A i \in 1 .. B : r < i /\ i <= r + Len(first) => full[i] = first[i - r]
        BY <1>3, <1>7, FillIs, SMTT(60)
      <4> HIDE DEF n, full
      <4> QED
        BY <2>3, <4>1, <4>2, Zenon
    <3> QED
      BY <1>1, <1>2, <1>5, <1>7, <3>1, <3>2 DEF IsConcat
  <2> QED
    BY <1>3, <2>1, <2>2, <2>3
<1> QED
  BY <1>2, <1>3, <1>5, <1>6, <1>8, <1>9 DEF u, p, r, first

(* Such an input is taken. *)
LEMMA FillsUp ==
    ASSUME NEW s \in Seq(Cell), NEW t \in Seq(Cell), NEW b \in Blk,
           B <= (Len(s) % B) + Len(t),
           \A j \in 1 .. Len(s) % B : b[j] = s[Off(Len(s) \div B) + j]
    PROVE  LET n    == B - (Len(s) % B)
               full == Fill(b, Len(s) % B, SubSeq(t, 1, n))
           IN /\ Blocks(s) \o (<<full>> \o Whole(t, n)) = Blocks(s \o t)
              /\ Fill(full, 0, Rest(t, n)) \in Blk
              /\ \A j \in 1 .. Len(s \o t) % B :
                   Fill(full, 0, Rest(t, n))[j] = (s \o t)[Off(Len(s \o t) \div B) + j]
<1> DEFINE u == s \o t
           p == Len(s) \div B
           m == B - (Len(s) % B)
           g == Fill(b, Len(s) % B, SubSeq(t, 1, m))
           e == <<g>>
<1>4. /\ m \in 0 .. Len(t) /\ g \in Blk /\ Len(s) + m = Off(p + 1)
      /\ \A j \in 1 .. B : g[j] = u[Off(p) + j]
  BY FullIs
<1> HIDE DEF m, g
<1>5. e \in Seq(Blk) /\ Len(e) = 1 /\ e[1] = g
  BY <1>4
<1> HIDE DEF e
<1>6. /\ Blocks(s) \o (e \o Whole(t, m)) = Blocks(u)
      /\ \A j \in 1 .. Len(u) % B : Fill(g, 0, Rest(t, m))[j] = u[Off(Len(u) \div B) + j]
  <2>1. Len(s) + m = Off(p + Len(e)) /\ Len(e) \in {0, 1}
    BY <1>4, <1>5
  <2>2. \A j \in 1 .. B : e[1][j] = u[Off(p) + j]
    BY <1>4, <1>5
  <2> QED
    BY <1>4, <1>5, <2>1, <2>2, Absorb, ZenonT(60)
<1>7. Fill(g, 0, Rest(t, m)) \in Blk
  BY <1>4, RestIs, FillIs
<1> QED
  BY <1>6, <1>7 DEF e, g, m

-----------------------------------------------------------------------------
(* A context that took s and counted it. *)
Has(a, c, s) ==
    /\ c \in Ctx
    /\ c.state = Blocks(s)
    /\ \A j \in 1 .. Len(s) % B : c.buffer[j] = s[Off(Len(s) \div B) + j]
    /\ c.total = CountOf(a, Len(s))

(* A count has the type of the context's. *)
LEMMA CountTyped ==
    ASSUME NEW a \in Alg, NEW n \in Nat
    PROVE  CountOf(a, n) \in (0 .. Word - 1) \X Nat
<1>1. Word \in Nat \ {0} /\ n * ByteBits \in Nat
  BY Sizes, Product
<1>2. \A x \in Nat : x % Word \in 0 .. Word - 1 /\ x \div Word \in Nat
  BY <1>1, DivMod
<1>3. 0 .. Word - 1 \subseteq Nat
  BY <1>1
<1> QED
  BY <1>1, <1>2, <1>3, Zenon DEF CountOf

(* What an update must give: the blocks, the buffer and the count. *)
LEMMA HasIs ==
    ASSUME NEW a \in Alg, NEW u \in Seq(Cell), NEW st, NEW b \in Blk, NEW total,
           st = Blocks(u), total = CountOf(a, Len(u)),
           \A j \in 1 .. Len(u) % B : b[j] = u[Off(Len(u) \div B) + j]
    PROVE  Has(a, [state |-> st, total |-> total, buffer |-> b], u)
<1>1. Len(u) \in Nat
  BY LenProperties
<1>2. st \in Seq(Blk) /\ total \in (0 .. Word - 1) \X Nat
  BY <1>1, BlocksAre, CountTyped
<1> DEFINE c == [state |-> st, total |-> total, buffer |-> b]
<1>3. c \in Ctx /\ c.state = st /\ c.total = total /\ c.buffer = b
  BY <1>2 DEF Ctx
<1> HIDE DEF c
<1>4. Has(a, c, u)
  BY <1>3 DEF Has
<1> QED
  BY <1>4 DEF c

(* An update of MD5 takes its input. *)
LEMMA Md5Takes ==
    ASSUME NEW c, NEW s \in Seq(Cell), NEW t \in Seq(Cell), Len(t) <= Word,
           Has("md5", c, s)
    PROVE  Has("md5", Md5Update(c, t), s \o t)
<1> DEFINE u     == s \o t
           p     == Len(s) \div B
           left  == c.total[1] % B
           fills == left # 0 /\ Len(t) >= B - left
           n     == IF fills THEN B - left ELSE 0
           full  == Fill(c.buffer, left, SubSeq(t, 1, n))
           first == IF fills THEN <<full>> ELSE <<>>
           count == Md5Count(c.total, Len(t))
           st    == c.state \o (first \o Whole(t, n))
           buf   == Fill(full, IF fills THEN 0 ELSE left, Rest(t, n))
<1>1. /\ c.state = Blocks(s) /\ c.total = CountOf("md5", Len(s)) /\ c.buffer \in Blk
      /\ \A j \in 1 .. Len(s) % B : c.buffer[j] = s[Off(p) + j]
  BY DEF Has, Ctx
<1>2. Len(s) \in Nat /\ Len(t) \in Nat /\ u \in Seq(Cell) /\ Len(u) = Len(s) + Len(t)
  BY LenProperties, ConcatProperties
<1>3. left = Len(s) % B
  BY <1>1, <1>2, CountKnowsRest DEF LeftOf, Alg
<1>4. count = CountOf("md5", Len(u))
  BY <1>1, <1>2, Md5Counts
<1>5. p \in Nat /\ left \in Nat /\ left < B /\ Len(s) = Off(p) + left /\ B \in Nat
  BY <1>2, <1>3, Cut, Sizes
<1>6. CASE t = <<>>
  <2>1. Md5Update(c, t) = c
    BY <1>6 DEF Md5Update
  <2>2. s \o t = s
    BY <1>6, ConcatEmptySeq
  <2> QED
    BY <2>1, <2>2
<1>7. CASE t # <<>>
  <2>1. Md5Update(c, t) = [state |-> st, total |-> count, buffer |-> buf]
    BY <1>7 DEF Md5Update, md5_process
  <2> SUFFICES /\ buf \in Blk /\ st = Blocks(u)
               /\ \A j \in 1 .. Len(u) % B : buf[j] = u[Off(Len(u) \div B) + j]
    <3> HIDE DEF u, buf, st, count
    <3>1. Has("md5", [state |-> st, total |-> count, buffer |-> buf], u)
      BY <1>2, <1>4, HasIs DEF Alg
    <3> QED
      BY <2>1, <3>1 DEF u
  <2>2. CASE fills
    <3> DEFINE m == B - (Len(s) % B)
               g == Fill(c.buffer, Len(s) % B, SubSeq(t, 1, m))
    <3>1. n = m /\ full = g /\ first = <<g>>
      BY <1>3, <2>2
    <3>2. st = Blocks(s) \o (<<g>> \o Whole(t, m)) /\ buf = Fill(g, 0, Rest(t, m))
      BY <1>1, <2>2, <3>1
    <3>3. B <= (Len(s) % B) + Len(t)
      BY <1>2, <1>3, <1>5, <2>2
    <3>4. /\ Blocks(s) \o (<<g>> \o Whole(t, m)) = Blocks(u)
          /\ Fill(g, 0, Rest(t, m)) \in Blk
          /\ \A j \in 1 .. Len(u) % B : Fill(g, 0, Rest(t, m))[j] = u[Off(Len(u) \div B) + j]
      BY <1>1, <3>3, FillsUp
    <3> HIDE DEF m, g, st, buf, n, full, first
    <3> QED
      BY <3>2, <3>4
  <2>3. CASE left = 0
    <3>1. n = 0 /\ first = <<>> /\ ~fills
      BY <2>3
    <3>2. st = Blocks(s) \o (<<>> \o Whole(t, 0)) /\ buf = Fill(full, 0, Rest(t, 0))
      BY <1>1, <2>3, <3>1
    <3>3. full \in Blk
      <4>1. SubSeq(t, 1, 0) \in Seq(Cell)
        BY <1>2, FirstIs
      <4> QED
        BY <1>1, <1>5, <3>1, <4>1, FillIs
    <3>4. PICK z \in 0 .. Len(t) : z = 0
      BY <1>2
    <3> DEFINE e == <<>>
    <3>5. Len(s) + z = Off(p + Len(e))
      <4>1. Off(p) = Len(s)
        <5>1. PICK op \in Nat : op = Off(p)
          BY <1>5, Offs
        <5> QED
          BY <1>2, <1>5, <2>3, <5>1
      <4>2. Len(s) + z = Len(s) /\ p + 0 = p /\ Len(e) = 0
        BY <1>2, <1>5, <3>4
      <4> QED
        BY <4>1, <4>2
    <3>6. e \in Seq(Blk) /\ Len(e) \in {0, 1} /\ Len(e) # 1
      OBVIOUS
    <3> HIDE DEF st, buf, n, full, first, e
    <3>8. /\ Blocks(s) \o (e \o Whole(t, z)) = Blocks(u)
          /\ \A j \in 1 .. Len(u) % B : Fill(full, 0, Rest(t, z))[j] = u[Off(Len(u) \div B) + j]
      BY <3>3, <3>5, <3>6, Absorb
    <3>9. Fill(full, 0, Rest(t, z)) \in Blk
      BY <3>3, RestIs, FillIs
    <3> QED
      BY <3>2, <3>4, <3>8, <3>9 DEF e
  <2>4. CASE left # 0 /\ ~fills
    <3>1. n = 0 /\ first = <<>> /\ left + Len(t) < B
      BY <1>2, <1>5, <2>4
    <3>2. 0 \in 0 .. Len(t) /\ Len(t) - 0 = 0 * B + Len(t) /\ Len(t) < B
      BY <1>2, <1>5, <3>1
    <3>3. (Len(t) - 0) \div B = 0 /\ (Len(t) - 0) % B = Len(t)
      BY <1>2, <3>2, Cut DEF Off
    <3>4. Whole(t, 0) = <<>>
      BY <3>2, <3>3, WholeIs
    <3>5. Rest(t, 0) = t
      <4>1. /\ Rest(t, 0) \in Seq(Cell) /\ Len(Rest(t, 0)) = Len(t)
            /\ \A j \in 1 .. Len(t) : Rest(t, 0)[j] = t[0 + Off(0) + j]
        <5>1. PICK z \in 0 .. Len(t) : z = 0
          BY <3>2
        <5>2. /\ Rest(t, z) \in Seq(Cell)
              /\ Len(Rest(t, z)) = (Len(t) - z) % B
              /\ \A j \in 1 .. (Len(t) - z) % B :
                    Rest(t, z)[j] = t[z + Off((Len(t) - z) \div B) + j]
          BY RestIs
        <5> QED
          BY <3>3, <5>1, <5>2
      <4>2. \A j \in 1 .. Len(t) : 0 + Off(0) + j = j
        BY Offs
      <4> QED
        BY <4>1, <4>2, SeqEqual
    <3>6. full = c.buffer
      <4>1. SubSeq(t, 1, 0) = <<>>
        BY <1>2, FirstIs
      <4>2. full = [j \in 1 .. B |-> c.buffer[j]]
        BY <1>5, <3>1, <4>1 DEF Fill
      <4> QED
        BY <1>1, <4>2 DEF Blk
    <3>7. st = Blocks(s) /\ buf = Fill(c.buffer, Len(s) % B, t)
      <4>1. first \o Whole(t, n) = <<>>
        BY <3>1, <3>4
      <4>2. Blocks(s) \in Seq(Blk)
        BY BlocksAre
      <4> QED
        BY <1>1, <1>3, <2>4, <3>1, <3>5, <3>6, <4>1, <4>2, ConcatEmptySeq
    <3>8. /\ Blocks(s) = Blocks(u)
          /\ \A j \in 1 .. Len(u) % B : Fill(c.buffer, Len(s) % B, t)[j] = u[Off(Len(u) \div B) + j]
      <4>1. (Len(s) % B) + Len(t) < B
        BY <1>3, <3>1
      <4> QED
        BY <1>1, <4>1, Keep
    <3>9. Fill(c.buffer, Len(s) % B, t) \in Blk
      BY <1>1, <1>3, <1>5, FillIs
    <3> HIDE DEF st, buf, u
    <3> QED
      BY <3>7, <3>8, <3>9
  <2> QED
    BY <2>2, <2>3, <2>4
<1> QED
  BY <1>6, <1>7

(* Where a context of SHA-1 is in its buffer, and the test of its update.  *)
LEMMA PlaceIs ==
    ASSUME NEW c \in Ctx, NEW n \in Nat
    PROVE  /\ At(c) \in 0 .. B - 1
           /\ ~RunsOver(c, n) => (FillsBlock(c, n) <=> At(c) + n >= B)
           /\ RunsOver(c, n) /\ n < Word => ~FillsBlock(c, n)
           /\ n <= B => ~RunsOver(c, n)
<1>1. B \in Nat \ {0} /\ Word \in Nat \ {0} /\ ByteBits \in Nat \ {0} /\ B + B <= Word
  BY Sizes
<1>2. c.total[1] \in Nat
  BY <1>1 DEF Ctx
<1>3. At(c) \in 0 .. B - 1
  BY <1>1, <1>2, DivMod DEF At
<1>4. At(c) + n < Word => (At(c) + n) % Word = At(c) + n
  <2> SUFFICES ASSUME At(c) + n < Word PROVE (At(c) + n) % Word = At(c) + n
    OBVIOUS
  <2>1. At(c) + n \in 0 .. Word - 1 /\ At(c) + n = Word * 0 + (At(c) + n) /\ 0 \in Int
    BY <1>1, <1>3
  <2> QED
    BY <1>1, <1>3, <2>1, DivModUnique
<1>5. At(c) + n >= Word /\ n < Word => (At(c) + n) % Word = At(c) + n - Word
  <2> SUFFICES ASSUME At(c) + n >= Word, n < Word
               PROVE  (At(c) + n) % Word = At(c) + n - Word
    OBVIOUS
  <2>1. /\ At(c) + n - Word \in 0 .. Word - 1 /\ At(c) + n \in Nat /\ 1 \in Int
        /\ At(c) + n = Word * 1 + (At(c) + n - Word)
    BY <1>1, <1>3
  <2> QED
    BY <1>1, <2>1, DivModUnique
<1> QED
  BY <1>1, <1>3, <1>4, <1>5 DEF FillsBlock, RunsOver

(* An update of SHA-1 takes its input, unless it runs over. *)
LEMMA Sha1Takes ==
    ASSUME NEW c, NEW s \in Seq(Cell), NEW t \in Seq(Cell), Has("sha1", c, s),
           ~RunsOver(c, Len(t))
    PROVE  Has("sha1", Sha1Update(c, t), s \o t)
<1> DEFINE u     == s \o t
           left  == At(c)
           n     == B - left
           full  == Fill(c.buffer, left, SubSeq(t, 1, n))
           count == Sha1Count(c.total, Len(t))
<1>1. /\ c.state = Blocks(s) /\ c.total = CountOf("sha1", Len(s)) /\ c.buffer \in Blk
      /\ \A j \in 1 .. Len(s) % B : c.buffer[j] = s[Off(Len(s) \div B) + j]
  BY DEF Has, Ctx
<1>2. Len(s) \in Nat /\ Len(t) \in Nat /\ u \in Seq(Cell) /\ Len(u) = Len(s) + Len(t)
  BY LenProperties, ConcatProperties
<1>3. left = Len(s) % B
  BY <1>1, <1>2, CountKnowsRest DEF LeftOf, Alg, At
<1>4. count = CountOf("sha1", Len(u))
  BY <1>1, <1>2, Sha1Counts
<1>5. left \in Nat /\ left < B /\ B \in Nat
  BY <1>2, <1>3, Cut, Sizes, ZenonT(60)
<1>a. FillsBlock(c, Len(t)) <=> left + Len(t) >= B
  <2>1. c \in Ctx
    BY DEF Has
  <2> QED
    BY <1>2, <2>1, PlaceIs
<1>6. CASE left + Len(t) >= B
  <2> DEFINE m   == B - (Len(s) % B)
             g   == Fill(c.buffer, Len(s) % B, SubSeq(t, 1, m))
             st  == Blocks(s) \o (<<g>> \o Whole(t, m))
             buf == Fill(g, 0, Rest(t, m))
  <2>1. n = m /\ full = g
    BY <1>3
  <2>2. Sha1Update(c, t) = [state |-> st, total |-> count, buffer |-> buf]
    BY <1>1, <1>6, <1>a, <2>1 DEF Sha1Update, SHA1Transform
  <2>3. B <= (Len(s) % B) + Len(t)
    BY <1>2, <1>3, <1>5, <1>6
  <2>4. /\ st = Blocks(u) /\ buf \in Blk
        /\ \A j \in 1 .. Len(u) % B : buf[j] = u[Off(Len(u) \div B) + j]
    BY <1>1, <2>3, FillsUp
  <2> HIDE DEF u, buf, st, count
  <2>5. Has("sha1", [state |-> st, total |-> count, buffer |-> buf], u)
    BY <1>2, <1>4, <2>4, HasIs DEF Alg
  <2> QED
    BY <2>2, <2>5 DEF u
<1>7. CASE ~(left + Len(t) >= B)
  <2> DEFINE st  == Blocks(s)
             buf == Fill(c.buffer, Len(s) % B, t)
  <2>1. c = [state |-> c.state, total |-> c.total, buffer |-> c.buffer]
    BY DEF Has, Ctx
  <2>2. Sha1Update(c, t) = [c EXCEPT !.total = count, !.buffer = Fill(c.buffer, left, t)]
    BY <1>7, <1>a DEF Sha1Update
  <2>3. Sha1Update(c, t) = [state |-> st, total |-> count, buffer |-> buf]
    BY <1>1, <1>3, <2>1, <2>2
  <2>4. (Len(s) % B) + Len(t) < B
    BY <1>2, <1>3, <1>5, <1>7
  <2>5. /\ st = Blocks(u)
        /\ \A j \in 1 .. Len(u) % B : buf[j] = u[Off(Len(u) \div B) + j]
    BY <1>1, <2>4, Keep
  <2>6. buf \in Blk
    BY <1>1, <1>3, <1>5, FillIs
  <2> HIDE DEF u, buf, st, count
  <2>7. Has("sha1", [state |-> st, total |-> count, buffer |-> buf], u)
    BY <1>2, <1>4, <2>5, <2>6, HasIs DEF Alg
  <2> QED
    BY <2>3, <2>7 DEF u
<1> QED
  BY <1>6, <1>7

-----------------------------------------------------------------------------
(* The sequences the digests take.                                         *)
Msg(n)   == [j \in 1 .. n |-> Message(j)]
Zs(k)    == [j \in 1 .. k |-> Zero]
Pad(k)   == <<One>> \o Zs(k)
Fewest(n) == CHOOSE z \in 0 .. B - 1 : (n + 1 + z + LengthBytes) % B = 0
Count(a, n) ==
    LET bits  == (n * ByteBits) % (Word * Word)
        count == <<Length(bits % Word), Length(bits \div Word)>>
    IN IF a = "md5" THEN count ELSE Reverse(count)

(* They are bytes. *)
LEMMA SequencesTyped ==
    /\ \A n \in Nat : Msg(n) \in Seq(Cell) /\ Len(Msg(n)) = n
    /\ \A k \in Nat : Zs(k) \in Seq(Cell) /\ Len(Zs(k)) = k
    /\ \A k \in Nat : Pad(k) \in Seq(Cell) /\ Len(Pad(k)) = k + 1
<1>1. \A j \in Int : Message(j) \in Cell
  BY DEF Message, Cell
<1>2. One \in Cell /\ Zero \in Cell
  BY DEF One, Zero, Cell
<1>3. ASSUME NEW n \in Nat PROVE Msg(n) \in Seq(Cell) /\ Len(Msg(n)) = n
  <2>1. Msg(n) \in [1 .. n -> Cell]
    BY <1>1 DEF Msg
  <2> QED
    BY <2>1 DEF Msg
<1>4. ASSUME NEW k \in Nat PROVE Zs(k) \in Seq(Cell) /\ Len(Zs(k)) = k
  <2>1. Zs(k) \in [1 .. k -> Cell]
    BY <1>2 DEF Zs
  <2> QED
    BY <2>1 DEF Zs
<1>5. <<One>> \in Seq(Cell) /\ Len(<<One>>) = 1
  BY <1>2
<1>6. ASSUME NEW k \in Nat PROVE Pad(k) \in Seq(Cell) /\ Len(Pad(k)) = k + 1
  BY <1>4, <1>5, ConcatProperties DEF Pad
<1> QED
  BY <1>3, <1>4, <1>6

(* The padding before the count, by its bytes. *)
IsPad(v, k) ==
    /\ v \in Seq(Cell) /\ Len(v) = k + 1 /\ v[1] = One
    /\ \A i \in 2 .. k + 1 : v[i] = Zero

(* There is one such sequence. *)
LEMMA PadIs ==
    /\ \A k \in Nat : IsPad(Pad(k), k)
    /\ \A k \in Nat : \A v, w \in Seq(Cell) : IsPad(v, k) /\ IsPad(w, k) => v = w
<1>1. One \in Cell /\ Zero \in Cell
  BY DEF One, Zero, Cell
<1>2. ASSUME NEW k \in Nat PROVE IsPad(Pad(k), k)
  <2>1. <<One>> \in Seq(Cell) /\ Len(<<One>>) = 1 /\ <<One>>[1] = One
    BY <1>1
  <2>2. Zs(k) \in Seq(Cell) /\ Len(Zs(k)) = k /\ \A i \in 1 .. k : Zs(k)[i] = Zero
    BY SequencesTyped DEF Zs
  <2>3. Pad(k) \in Seq(Cell) /\ IsConcat(Pad(k), <<One>>, Zs(k))
    BY <2>1, <2>2, ConcatIs, Zenon DEF Pad
  <2>4. Len(Pad(k)) = 1 + k /\ Pad(k)[1] = One /\ \A i \in 1 .. k : Pad(k)[1 + i] = Zero
    <3>1. PICK o \in Seq(Cell) : o = <<One>> /\ Len(o) = 1 /\ o[1] = One
      BY <2>1
    <3>2. PICK z \in Seq(Cell) : z = Zs(k) /\ Len(z) = k /\ \A i \in 1 .. k : z[i] = Zero
      BY <2>2
    <3>3. PICK v \in Seq(Cell) : v = Pad(k) /\ IsConcat(v, o, z)
      BY <2>3, <3>1, <3>2
    <3>4. Len(v) = 1 + k /\ v[1] = One /\ \A i \in 1 .. k : v[1 + i] = Zero
      <4>1. /\ Len(v) = Len(o) + Len(z) /\ \A i \in 1 .. Len(o) : v[i] = o[i]
            /\ \A i \in 1 .. Len(z) : v[Len(o) + i] = z[i]
        BY <3>3, Zenon DEF IsConcat
      <4>2. /\ Len(v) = 1 + k /\ \A i \in 1 .. 1 : v[i] = o[i]
            /\ \A i \in 1 .. k : v[1 + i] = z[i]
        BY <3>1, <3>2, <4>1
      <4>3. v[1] = One
        BY <3>1, <4>2
      <4> QED
        BY <3>2, <4>2, <4>3
    <3> QED
      BY <3>3, <3>4
  <2>5. \A i \in 2 .. k + 1 : i - 1 \in 1 .. k /\ 1 + (i - 1) = i
    OBVIOUS
  <2>6. \A i \in 2 .. k + 1 : Pad(k)[i] = Zero
    BY <2>4, <2>5
  <2> QED
    BY <2>3, <2>4, <2>6 DEF IsPad
<1>3. ASSUME NEW k \in Nat, NEW v \in Seq(Cell), NEW w \in Seq(Cell), IsPad(v, k), IsPad(w, k)
      PROVE  v = w
  <2>1. \A i \in 1 .. k + 1 : i = 1 \/ i \in 2 .. k + 1
    OBVIOUS
  <2>2. \A i \in 1 .. k + 1 : v[i] = w[i]
    BY <1>3, <2>1 DEF IsPad
  <2> QED
    BY <1>3, <2>2, SeqEqual DEF IsPad
<1> QED
  BY <1>2, <1>3

(* What is given next: a piece of the message, another zero. *)
LEMMA Longer ==
    /\ \A n, m \in Nat : /\ Msg(n) \o [j \in 1 .. m |-> Message(n + j)] = Msg(n + m)
                         /\ [j \in 1 .. m |-> Message(n + j)] \in Seq(Cell)
                         /\ Len([j \in 1 .. m |-> Message(n + j)]) = m
    /\ \A k \in Nat : Pad(k) \o <<Zero>> = Pad(k + 1)
    /\ Pad(0) = <<One>>
    /\ \A k \in Nat : md5_padding(k + 1) = Pad(k)
<1>1. One \in Cell /\ Zero \in Cell /\ \A j \in Int : Message(j) \in Cell
  BY DEF Message, One, Zero, Cell
<1>2. ASSUME NEW n \in Nat, NEW m \in Nat
      PROVE  /\ Msg(n) \o [j \in 1 .. m |-> Message(n + j)] = Msg(n + m)
             /\ [j \in 1 .. m |-> Message(n + j)] \in Seq(Cell)
             /\ Len([j \in 1 .. m |-> Message(n + j)]) = m
  <2> DEFINE t == [j \in 1 .. m |-> Message(n + j)]
             v == Msg(n) \o t
  <2>1. t \in [1 .. m -> Cell]
    BY <1>1
  <2>2. t \in Seq(Cell) /\ Len(t) = m /\ \A j \in 1 .. m : t[j] = Message(n + j)
    BY <2>1
  <2> HIDE DEF t
  <2>3. v \in Seq(Cell) /\ IsConcat(v, Msg(n), t)
    BY <2>2, SequencesTyped, ConcatIs
  <2> HIDE DEF v
  <2>4. Len(v) = n + m /\ (\A i \in 1 .. n : v[i] = Message(i))
        /\ \A i \in 1 .. m : v[n + i] = Message(n + i)
    BY <2>2, <2>3, SequencesTyped DEF IsConcat, Msg
  <2>5. \A i \in 1 .. n + m : i \in 1 .. n \/ (i - n \in 1 .. m /\ n + (i - n) = i)
    OBVIOUS
  <2>6. \A i \in 1 .. n + m : v[i] = Message(i)
    BY <2>4, <2>5
  <2>7. Msg(n + m) \in Seq(Cell) /\ Len(Msg(n + m)) = n + m
        /\ \A i \in 1 .. n + m : Msg(n + m)[i] = Message(i)
    <3>1. PICK l \in Nat : l = n + m
      OBVIOUS
    <3>2. Msg(l) \in Seq(Cell) /\ Len(Msg(l)) = l /\ \A i \in 1 .. l : Msg(l)[i] = Message(i)
      BY SequencesTyped DEF Msg
    <3> QED
      BY <3>1, <3>2
  <2>8. v = Msg(n + m)
    BY <2>3, <2>4, <2>6, <2>7, SeqEqual
  <2> QED
    BY <2>2, <2>8 DEF t, v
<1>4. ASSUME NEW k \in Nat PROVE Pad(k) \o <<Zero>> = Pad(k + 1)
  <2> DEFINE v == Pad(k) \o <<Zero>>
  <2>1. <<Zero>> \in Seq(Cell) /\ Len(<<Zero>>) = 1 /\ <<Zero>>[1] = Zero
    BY <1>1
  <2>2. IsPad(Pad(k), k)
    BY PadIs
  <2>3. v \in Seq(Cell) /\ IsConcat(v, Pad(k), <<Zero>>)
    BY <2>1, <2>2, ConcatIs, Zenon DEF IsPad
  <2> HIDE DEF v
  <2>4. /\ Len(v) = (k + 1) + 1 /\ v[1] = One /\ v[(k + 1) + 1] = Zero
        /\ \A i \in 2 .. k + 1 : v[i] = Zero
    BY <2>1, <2>2, <2>3 DEF IsConcat, IsPad
  <2>5. \A i \in 2 .. (k + 1) + 1 : i \in 2 .. k + 1 \/ i = (k + 1) + 1
    OBVIOUS
  <2>6. IsPad(v, k + 1)
    BY <2>3, <2>4, <2>5 DEF IsPad
  <2>7. IsPad(Pad(k + 1), k + 1) /\ k + 1 \in Nat
    BY PadIs
  <2>8. Pad(k + 1) \in Seq(Cell)
    BY <2>7 DEF IsPad
  <2>9. v = Pad(k + 1)
    BY <2>3, <2>6, <2>7, <2>8, PadIs, Zenon
  <2> QED
    BY <2>9 DEF v
<1>5. Pad(0) = <<One>>
  <2>1. <<One>> \in Seq(Cell) /\ IsPad(<<One>>, 0)
    BY <1>1 DEF IsPad
  <2>2. IsPad(Pad(0), 0) /\ 0 \in Nat
    BY PadIs
  <2>3. Pad(0) \in Seq(Cell)
    BY <2>2 DEF IsPad
  <2> QED
    BY <2>1, <2>2, <2>3, PadIs, Zenon
<1>6. ASSUME NEW k \in Nat PROVE md5_padding(k + 1) = Pad(k)
  <2>1. md5_padding(k + 1) \in [1 .. k + 1 -> Cell]
    BY <1>1 DEF md5_padding
  <2>2. md5_padding(k + 1) \in Seq(Cell) /\ IsPad(md5_padding(k + 1), k)
    BY <2>1 DEF md5_padding, IsPad
  <2>3. IsPad(Pad(k), k)
    BY PadIs
  <2>4. Pad(k) \in Seq(Cell)
    BY <2>3 DEF IsPad
  <2> QED
    BY <2>2, <2>3, <2>4, PadIs, Zenon
<1> QED
  BY <1>2, <1>4, <1>5, <1>6

(* The zeros are the padding of MD5, and SHA1Final's loop stops at them    *)
(* and nowhere before.                                                     *)
LEMMA FewestIs ==
    ASSUME NEW n \in Nat
    PROVE  /\ Fewest(n) \in 0 .. B - 1
           /\ Md5Padn(n % B) = Fewest(n) + 1
           /\ \A z \in 0 .. B - 1 : (n + 1 + z) % B = B - LengthBytes <=> z = Fewest(n)
<1> DEFINE r == n % B
           w == IF r + 3 <= B THEN B - 3 - r ELSE 2 * B - 3 - r
<1>1. B \in Nat \ {0} /\ B > 2 /\ LengthBytes = 2 /\ B \in Nat
  BY Sizes
<1>2. r \in Nat /\ r < B
  BY Cut
<1> HIDE DEF r
<1>3. w \in 0 .. B - 1
  BY <1>1, <1>2
<1>4. ASSUME NEW x \in 0 .. 3 * B - 1
      PROVE  x % B = IF x < B THEN x ELSE IF x < 2 * B THEN x - B ELSE x - 2 * B
  <2>1. CASE x < B
    <3>1. x = B * 0 + x /\ x \in 0 .. B - 1 /\ x \in Nat
      BY <1>1, <2>1
    <3> QED
      BY <1>1, <2>1, <3>1, DivModUnique
  <2>2. CASE B <= x /\ x < 2 * B
    <3>1. x = B * 1 + (x - B) /\ x - B \in 0 .. B - 1 /\ x \in Nat
      BY <1>1, <2>2
    <3> QED
      BY <1>1, <2>2, <3>1, DivModUnique
  <2>3. CASE 2 * B <= x
    <3>1. x = B * 2 + (x - 2 * B) /\ x - 2 * B \in 0 .. B - 1 /\ x \in Nat
      BY <1>1, <2>3
    <3> QED
      BY <1>1, <2>3, <3>1, DivModUnique
  <2> QED
    BY <1>1, <2>1, <2>2, <2>3
<1>5. ASSUME NEW z \in 0 .. B - 1
      PROVE  /\ (n + 1 + z + LengthBytes) % B = 0 <=> z = w
             /\ (n + 1 + z) % B = B - LengthBytes <=> z = w
  <2>1. /\ n + 1 + z + LengthBytes = n + (1 + z + 2) /\ n + 1 + z = n + (1 + z)
        /\ 1 + z + 2 \in Nat /\ 1 + z \in Nat
    BY <1>1
  <2>2. /\ (r + (1 + z + 2)) % B = (n + (1 + z + 2)) % B
        /\ (r + (1 + z)) % B = (n + (1 + z)) % B
    BY <1>1, <2>1, AddMod DEF r
  <2>3. r + (1 + z + 2) \in 0 .. 3 * B - 1 /\ r + (1 + z) \in 0 .. 3 * B - 1
    BY <1>1, <1>2
  <2>4. (r + (1 + z + 2)) % B = 0 <=> z = w
    <3> DEFINE x == r + (1 + z + 2)
    <3>1. x % B = IF x < B THEN x ELSE IF x < 2 * B THEN x - B ELSE x - 2 * B
      BY <1>4, <2>3
    <3>2. (IF x < B THEN x ELSE IF x < 2 * B THEN x - B ELSE x - 2 * B) = 0 <=> z = w
      BY <1>1, <1>2
    <3> QED
      BY <3>1, <3>2
  <2>5. (r + (1 + z)) % B = B - 2 <=> z = w
    <3> DEFINE x == r + (1 + z)
    <3>1. x % B = IF x < B THEN x ELSE IF x < 2 * B THEN x - B ELSE x - 2 * B
      BY <1>4, <2>3
    <3>2. (IF x < B THEN x ELSE IF x < 2 * B THEN x - B ELSE x - 2 * B) = B - 2 <=> z = w
      BY <1>1, <1>2
    <3> QED
      BY <3>1, <3>2
  <2> QED
    BY <1>1, <2>1, <2>2, <2>4, <2>5
<1>6. Fewest(n) = w
  <2> HIDE DEF w
  <2> QED
    BY <1>3, <1>5 DEF Fewest
<1>7. Md5Padn(r) = w + 1
  BY <1>1, <1>2 DEF Md5Padn
<1> HIDE DEF w
<1> QED
  BY <1>3, <1>5, <1>6, <1>7 DEF r

(* The count in bits is what the two ends make of the context's. *)
LEMMA CountIs ==
    ASSUME NEW n \in Nat
    PROVE  /\ LET total == CountOf("md5", n)
                  low   == (total[1] * ByteBits) % Word
                  high  == ((total[1] * ByteBits) \div Word + total[2] * ByteBits) % Word
              IN Count("md5", n) = <<Length(low), Length(high)>>
           /\ LET total == CountOf("sha1", n)
              IN Count("sha1", n) = <<Length(total[2]), Length(total[1])>>
           /\ \A a \in Alg : Count(a, n) \in Seq(Cell) /\ Len(Count(a, n)) = LengthBytes
<1> DEFINE x == n * ByteBits
           q == n \div Word
           r == n % Word
           y == r * ByteBits
           z == q * ByteBits
           W2 == Word * Word
           low  == x % Word
           high == (x \div Word) % Word
<1>1. /\ Word \in Nat \ {0} /\ ByteBits \in Nat \ {0} /\ x \in Nat
      /\ W2 \in Nat \ {0}
  <2>1. Word \in Nat \ {0} /\ ByteBits \in Nat \ {0}
    BY Sizes
  <2> QED
    BY <2>1, HasProduct, Product DEF IsProduct
<1>2. (x % W2) % Word = low /\ (x % W2) \div Word = high
  <2> HIDE DEF x
  <2>1. IsProduct(W2, Word, Word)
    BY Zenon DEF IsProduct
  <2> HIDE DEF W2
  <2>2. Rem(Rem(x, W2), Word) = Rem(x, Word) /\ Quo(Rem(x, W2), Word) = Rem(Quo(x, Word), Word)
    BY <1>1, <2>1, RemOfRem
  <2> QED
    BY <2>2, Zenon DEF Rem, Quo
<1>3. n = Word * q + r /\ q \in Nat /\ r \in Nat
  BY <1>1, DivMod
<1> HIDE DEF q, r
<1>4. x = Word * z + y /\ z \in Nat /\ y \in Nat
  <2>1. (Word * q + r) * ByteBits = (Word * q) * ByteBits + y
    BY <1>1, <1>3, Distribute, Product
  <2>2. (Word * q) * ByteBits = Word * z
    BY <1>1, <1>3, Distribute
  <2> QED
    BY <1>1, <1>3, <2>1, <2>2, Product
<1> HIDE DEF x, y, z
<1>5. x % Word = y % Word /\ x \div Word = y \div Word + z
  <2>1. y = Word * (y \div Word) + (y % Word) /\ y \div Word \in Nat /\ y % Word \in 0 .. Word - 1
    BY <1>1, <1>4, DivMod
  <2>2. PICK p \in Nat, t \in 0 .. Word - 1 : p = y \div Word /\ t = y % Word
    BY <2>1
  <2>3. x = Word * (p + z) + t
    <3>1. Word * (p + z) = Word * p + Word * z /\ Word * p \in Int /\ Word * z \in Int
      <4>1. (p + z) * Word = p * Word + z * Word /\ p * Word = Word * p /\ z * Word = Word * z
            /\ (p + z) * Word = Word * (p + z) /\ Word * p \in Int /\ Word * z \in Int
        BY <1>1, <1>4, Distribute, Product
      <4> QED
        BY <4>1
    <3>2. x = Word * z + (Word * p + t)
      BY <1>4, <2>1, <2>2
    <3> QED
      BY <1>1, <3>1, <3>2
  <2>4. x \div Word = p + z /\ x % Word = t
    <3>1. p + z \in Int
      BY <1>4
    <3> QED
      BY <1>1, <2>3, <3>1, DivModUnique
  <2> QED
    BY <2>2, <2>4
<1>6. low \in Int /\ high \in Int
  <2>1. x % Word \in Int /\ x \div Word \in Nat
    BY <1>1, DivMod
  <2> QED
    BY <1>1, <2>1, DivMod
<1>7. /\ Count("md5", n) = <<Length(low), Length(high)>>
      /\ Count("sha1", n) = Reverse(<<Length(low), Length(high)>>)
  BY <1>2, Zenon DEF Count, x, W2
<1>8. Reverse(<<Length(low), Length(high)>>) = <<Length(high), Length(low)>>
  <2> HIDE DEF low, high
  <2> QED
    BY DEF Reverse
<1>9. CountOf("md5", n) = <<r, q>> /\ CountOf("sha1", n) = <<low, high>>
  BY DEF CountOf, r, q, x
<1>10. (r * ByteBits) % Word = low /\ ((r * ByteBits) \div Word + q * ByteBits) % Word = high
  BY <1>5 DEF y, z
<1>11. Length(low) \in Cell /\ Length(high) \in Cell
  BY <1>6 DEF Length, Cell
<1>12. \A a \in Alg : Count(a, n) \in Seq(Cell) /\ Len(Count(a, n)) = LengthBytes
  <2> HIDE DEF low, high
  <2>1. \A v, w \in Cell : <<v, w>> \in Seq(Cell) /\ Len(<<v, w>>) = 2
    OBVIOUS
  <2>2. Count("md5", n) \in Seq(Cell) /\ Len(Count("md5", n)) = 2
    BY <1>7, <1>11, <2>1
  <2>3. Count("sha1", n) \in Seq(Cell) /\ Len(Count("sha1", n)) = 2
    BY <1>7, <1>8, <1>11, <2>1
  <2> QED
    BY <2>2, <2>3 DEF Alg, LengthBytes
<1> HIDE DEF low, high
<1> QED
  BY <1>7, <1>8, <1>9, <1>10, <1>12

(* The padded message is the message, the padding and the count. *)
LEMMA PaddedIs ==
    ASSUME NEW a \in Alg, NEW n \in Nat
    PROVE  /\ Padded(a, n) = (Msg(n) \o Pad(Fewest(n))) \o Count(a, n)
           /\ Padded(a, n) \in Seq(Cell)
           /\ Msg(n) \o Pad(Fewest(n)) \in Seq(Cell)
           /\ Len(Msg(n) \o Pad(Fewest(n))) = n + 1 + Fewest(n)
<1>1. Fewest(n) \in Nat
  BY FewestIs
<1>2. Msg(n) \in Seq(Cell) /\ <<One>> \in Seq(Cell) /\ Zs(Fewest(n)) \in Seq(Cell)
      /\ Pad(Fewest(n)) \in Seq(Cell) /\ Len(Msg(n)) = n /\ Len(Pad(Fewest(n))) = Fewest(n) + 1
  <2>1. One \in Cell
    BY DEF One, Cell
  <2>2. PICK z \in Nat : z = Fewest(n)
    BY <1>1
  <2>3. Zs(z) \in Seq(Cell) /\ Pad(z) \in Seq(Cell) /\ Len(Pad(z)) = z + 1
    BY SequencesTyped
  <2>4. Msg(n) \in Seq(Cell) /\ Len(Msg(n)) = n
    BY SequencesTyped
  <2>5. <<One>> \in Seq(Cell)
    BY <2>1
  <2> QED
    BY <2>2, <2>3, <2>4, <2>5
<1>3. (Msg(n) \o <<One>>) \o Zs(Fewest(n)) = Msg(n) \o Pad(Fewest(n))
  BY <1>2, ConcatAssociative DEF Pad
<1>4. Padded(a, n) = ((Msg(n) \o <<One>>) \o Zs(Fewest(n))) \o Count(a, n)
  BY Zenon DEF Padded, Msg, Zs, Fewest, Count
<1>5. Count(a, n) \in Seq(Cell)
  BY CountIs
<1>6. Msg(n) \o Pad(Fewest(n)) \in Seq(Cell)
      /\ Len(Msg(n) \o Pad(Fewest(n))) = n + (Fewest(n) + 1)
  <2>1. /\ Msg(n) \o Pad(Fewest(n)) \in Seq(Cell)
        /\ IsConcat(Msg(n) \o Pad(Fewest(n)), Msg(n), Pad(Fewest(n)))
    BY <1>2, ConcatIs, Zenon
  <2> QED
    BY <1>2, <2>1, Zenon DEF IsConcat
<1>7. (Msg(n) \o Pad(Fewest(n))) \o Count(a, n) \in Seq(Cell)
  BY <1>5, <1>6, ConcatProperties
<1>8. n + (Fewest(n) + 1) = n + 1 + Fewest(n)
  BY <1>1
<1> QED
  BY <1>3, <1>4, <1>6, <1>7, <1>8

(* md5_finish gives the digest the padded message. *)
LEMMA Md5Finishes ==
    ASSUME NEW c, NEW n \in Nat, Has("md5", c, Msg(n))
    PROVE  Has("md5", Md5Finish(c), Padded("md5", n))
<1> DEFINE padn == Md5Padn(c.total[1] % B)
           low  == (c.total[1] * ByteBits) % Word
           high == ((c.total[1] * ByteBits) \div Word + c.total[2] * ByteBits) % Word
           pad  == md5_padding(padn)
           count == <<Length(low), Length(high)>>
<1>1. Msg(n) \in Seq(Cell) /\ Len(Msg(n)) = n
  BY SequencesTyped
<1>2. c.total = CountOf("md5", n)
  BY <1>1 DEF Has
<1>3. c.total[1] % B = n % B
  BY <1>2, CountKnowsRest DEF LeftOf, Alg
<1>4. Fewest(n) \in 0 .. B - 1 /\ padn = Fewest(n) + 1
  BY <1>3, FewestIs
<1>5. pad = Pad(Fewest(n))
  <2>1. Fewest(n) \in Nat
    BY <1>4
  <2> QED
    BY <1>4, <2>1, Longer
<1>6. count = Count("md5", n)
  BY <1>2, CountIs
<1> HIDE DEF pad, count
<1>7. Has("md5", Md5Update(c, pad), Msg(n) \o pad)
  <2>1. pad \in Seq(Cell) /\ Len(pad) <= Word
    <3>1. Fewest(n) \in Nat /\ B \in Nat /\ B <= Word /\ Word \in Nat
      BY <1>4, Sizes
    <3>2. pad \in Seq(Cell) /\ Len(pad) = Fewest(n) + 1
      BY <1>5, <3>1, SequencesTyped
    <3> QED
      BY <1>4, <3>1, <3>2
  <2> QED
    BY <1>1, <2>1, Md5Takes
<1>8. Has("md5", Md5Update(Md5Update(c, pad), count), (Msg(n) \o pad) \o count)
  <2>1. count \in Seq(Cell) /\ Len(count) = LengthBytes
    BY <1>6, CountIs DEF Alg
  <2>2. Len(count) <= Word
    BY <2>1, Sizes
  <2>3. Msg(n) \o pad \in Seq(Cell)
    BY <1>5, PaddedIs DEF Alg
  <2> QED
    BY <1>7, <2>1, <2>2, <2>3, Md5Takes
<1>9. Md5Finish(c) = Md5Update(Md5Update(c, pad), count)
  BY DEF Md5Finish, pad, count
<1>10. Padded("md5", n) = (Msg(n) \o pad) \o count
  BY <1>5, <1>6, PaddedIs DEF Alg
<1> QED
  BY <1>8, <1>9, <1>10

-----------------------------------------------------------------------------
(* What a context took at each place of the code. *)
Inv ==
    /\ alg \in Alg /\ pc \in Pc /\ taken \in 0 .. MaxLength
    /\ file \in [size : 0 .. MaxLength, failed : BOOLEAN]
    /\ ctx \in Ctx
    /\ Len(finalcount) \in {0, LengthBytes}
    /\ pc \in {"update", "file"} => Has(alg, ctx, Msg(taken))
    /\ pc = "file" => alg = "md5" /\ taken <= file.size
    /\ pc = "padding" =>
         /\ alg = "sha1" /\ finalcount = Count("sha1", taken)
         /\ \E z \in 0 .. Fewest(taken) : Has("sha1", ctx, Msg(taken) \o Pad(z))
    /\ pc = "done" => Has(alg, ctx, Padded(alg, taken))
    /\ ret \in {-1, 0, 1, 2}
    /\ ret = 0 => pc = "done" /\ taken = file.size

(* A context starts with nothing. *)
LEMMA StartsEmpty ==
    \A a \in Alg : Has(a, Starts, Msg(0))
<1> SUFFICES ASSUME NEW a \in Alg PROVE Has(a, Starts, Msg(0))
  OBVIOUS
<1> DEFINE b == [j \in 1 .. B |-> Junk]
<1>1. B \in Nat /\ B > 0 /\ Word \in Nat \ {0} /\ ByteBits \in Nat
  BY Sizes
<1>2. b \in Blk
  BY DEF Blk, Junk, Cell
<1>3. Msg(0) \in Seq(Cell) /\ Len(Msg(0)) = 0
  BY SequencesTyped
<1>4. 0 \div B = 0 /\ 0 % B = 0
  <2>1. Off(0) + 0 = 0
    BY Offs
  <2>2. (Off(0) + 0) \div B = 0 /\ (Off(0) + 0) % B = 0
    BY <1>1, Cut
  <2> QED
    BY <2>1, <2>2
<1>5. Blocks(Msg(0)) = <<>>
  BY <1>3, <1>4, BlocksAre
<1>6. CountOf(a, 0) = <<0, 0>>
  <2>1. 0 \div Word = 0 /\ 0 % Word = 0
    BY <1>1
  <2>2. 0 * ByteBits = 0
    BY <1>1
  <2> QED
    BY <2>1, <2>2 DEF CountOf
<1>7. \A j \in 1 .. Len(Msg(0)) % B : b[j] = Msg(0)[Off(Len(Msg(0)) \div B) + j]
  BY <1>3, <1>4
<1> HIDE DEF b
<1>8. Has(a, [state |-> <<>>, total |-> <<0, 0>>, buffer |-> b], Msg(0))
  BY <1>2, <1>3, <1>5, <1>6, <1>7, HasIs
<1> QED
  BY <1>8 DEF Starts, b

(* The invariant holds of a context that was just made. *)
LEMMA InitInv == Init => Inv
<1> SUFFICES ASSUME Init PROVE Inv
  OBVIOUS
<1>1. MaxLength \in Nat
  BY DigestAssumption
<1>2. alg \in Alg /\ ctx = Starts /\ taken = 0 /\ ret = -1 /\ finalcount = <<>>
  BY DEF Init
<1>3. pc \in {"update", "file"} /\ (pc = "file" => alg = "md5")
  BY DEF Init, Alg
<1>4. file \in [size : 0 .. MaxLength, failed : BOOLEAN]
  <2>1. \E S \in {0 .. MaxLength, {0}} : file \in [size : S, failed : {FALSE}]
    BY DEF Init
  <2>2. 0 \in 0 .. MaxLength
    BY <1>1
  <2> QED
    BY <2>1, <2>2
<1>5. Has(alg, ctx, Msg(taken))
  BY <1>2, StartsEmpty
<1>6. ctx \in Ctx
  BY <1>5 DEF Has
<1>7. pc = "file" => taken <= file.size
  BY <1>1, <1>2, <1>4
<1>8. Len(finalcount) = 0
  BY <1>2
<1> QED
  BY <1>1, <1>2, <1>3, <1>4, <1>5, <1>6, <1>7, <1>8 DEF Inv, Pc

(* A piece of the message is taken. *)
LEMMA PieceTaken ==
    ASSUME Inv, pc \in {"update", "file"}, NEW n \in Nat, alg = "md5" => n <= Word,
           ~(alg = "sha1" /\ RunsOver(ctx, n))
    PROVE  Has(alg, IF alg = "md5" THEN Md5Update(ctx, Piece(n)) ELSE Sha1Update(ctx, Piece(n)),
               Msg(taken + n))
<1>1. taken \in Nat /\ alg \in Alg /\ Has(alg, ctx, Msg(taken))
  BY DigestAssumption DEF Inv
<1> DEFINE t == Piece(n)
<1>2. Msg(taken) \o t = Msg(taken + n) /\ t \in Seq(Cell) /\ Len(t) = n
  BY <1>1, Longer DEF Piece
<1>3. Msg(taken) \in Seq(Cell)
  BY <1>1, SequencesTyped
<1> HIDE DEF t
<1>4. CASE alg = "md5"
  <2>1. Has("md5", Md5Update(ctx, t), Msg(taken) \o t)
    BY <1>1, <1>2, <1>3, <1>4, Md5Takes
  <2> QED
    BY <1>2, <1>4, <2>1, Zenon DEF t
<1>5. CASE alg = "sha1"
  <2>1. Has("sha1", Sha1Update(ctx, t), Msg(taken) \o t)
    BY <1>1, <1>2, <1>3, <1>5, Sha1Takes
  <2>2. alg # "md5"
    BY <1>5
  <2> QED
    BY <1>2, <1>5, <2>1, <2>2, Zenon DEF t
<1> QED
  BY <1>1, <1>4, <1>5 DEF Alg

(* A piece that runs over leaves a context that nothing more is known of.  *)
LEMMA RunOverTyped ==
    ASSUME Inv, pc = "update", alg = "sha1", NEW n \in Nat, n < Word, RunsOver(ctx, n)
    PROVE  Sha1Update(ctx, Piece(n)) \in Ctx
<1>1. taken \in Nat /\ ctx \in Ctx /\ Has("sha1", ctx, Msg(taken))
  BY DigestAssumption DEF Inv
<1> DEFINE t     == Piece(n)
           count == Sha1Count(ctx.total, n)
           buf   == Fill(ctx.buffer, At(ctx), t)
<1>2. t \in Seq(Cell) /\ Len(t) = n
  BY <1>1, Longer DEF Piece
<1>3. ~FillsBlock(ctx, n) /\ At(ctx) \in Nat /\ At(ctx) < B /\ B \in Nat
  BY <1>1, Sizes, PlaceIs
<1>4. count \in (0 .. Word - 1) \X Nat
  <2>1. Msg(taken) \in Seq(Cell) /\ Len(Msg(taken)) = taken
    BY <1>1, SequencesTyped
  <2>2. ctx.total = CountOf("sha1", taken)
    BY <1>1, <2>1 DEF Has
  <2>3. count = CountOf("sha1", taken + n) /\ taken + n \in Nat
    BY <1>1, <2>2, Sha1Counts
  <2> HIDE DEF count
  <2> QED
    BY <2>3, CountTyped DEF Alg
<1>5. buf \in Blk
  BY <1>1, <1>2, <1>3, FillIs DEF Ctx
<1> HIDE DEF t, count, buf
<1>6. Sha1Update(ctx, t) = [ctx EXCEPT !.total = count, !.buffer = buf]
  BY <1>2, <1>3, Zenon DEF Sha1Update, count, buf
<1> QED
  BY <1>1, <1>4, <1>5, <1>6 DEF Ctx, t

(* A piece of the caller. *)
LEMMA FeedInv == ASSUME Inv, NEW n \in 0 .. MaxLength, Feed(n) PROVE Inv'
<1>1. /\ pc = "update" /\ n <= MaxPiece /\ taken + n <= MaxLength /\ taken' = taken + n
      /\ UNCHANGED <<alg, finalcount, file, ret>>
      /\ pc' = IF alg = "sha1" /\ RunsOver(ctx, n) THEN "overrun" ELSE pc
      /\ ctx' = IF alg = "md5" THEN Md5Update(ctx, Piece(n)) ELSE Sha1Update(ctx, Piece(n))
  BY DEF Feed
<1>2. n \in Nat /\ taken \in Nat /\ MaxLength \in Nat
  BY DigestAssumption DEF Inv
<1>3. alg = "md5" => n <= Word
  <2>1. ASSUME alg = "md5" PROVE n <= Word \div 2 - 1
    BY <1>1, <2>1 DEF MaxPiece
  <2>2. Word \div 2 - 1 <= Word
    BY Sizes
  <2>3. Word \div 2 - 1 \in Int /\ Word \in Int
    BY Sizes
  <2> QED
    BY <1>2, <2>1, <2>2, <2>3
<1>4. taken' \in 0 .. MaxLength
  BY <1>1, <1>2
<1>5. /\ alg' \in Alg /\ pc' \in Pc /\ file' \in [size : 0 .. MaxLength, failed : BOOLEAN]
      /\ Len(finalcount)' \in {0, LengthBytes} /\ ret' \in {-1, 0, 1, 2} /\ ret' # 0
  BY <1>1 DEF Inv, Pc
<1>6. CASE ~(alg = "sha1" /\ RunsOver(ctx, n))
  <2>1. Has(alg, IF alg = "md5" THEN Md5Update(ctx, Piece(n)) ELSE Sha1Update(ctx, Piece(n)),
            Msg(taken + n))
    BY <1>1, <1>2, <1>3, <1>6, PieceTaken
  <2>2. Has(alg, ctx', Msg(taken + n))
    BY <1>1, <2>1, Zenon
  <2>3. Has(alg', ctx', Msg(taken')) /\ ctx' \in Ctx
    BY <1>1, <2>2, Zenon DEF Has
  <2>4. pc' = "update"
    BY <1>1, <1>6
  <2> QED
    BY <1>4, <1>5, <2>3, <2>4 DEF Inv
<1>7. CASE alg = "sha1" /\ RunsOver(ctx, n)
  <2>1. pc' = "overrun" /\ n < Word /\ ctx' = Sha1Update(ctx, Piece(n))
    <3>1. n <= Word - 1 /\ Word \in Nat
      BY <1>1, <1>7, Sizes DEF MaxPiece
    <3> QED
      BY <1>1, <1>2, <1>7, <3>1
  <2>2. ctx' \in Ctx
    BY <1>1, <1>2, <1>7, <2>1, RunOverTyped
  <2> QED
    BY <1>4, <1>5, <2>1, <2>2 DEF Inv
<1> QED
  BY <1>6, <1>7

(* The end of an MD5, with or without a file. *)
LEMMA FinishTaken ==
    ASSUME Inv, pc \in {"update", "file"}, alg = "md5"
    PROVE  Has("md5", Md5Finish(ctx), Padded("md5", taken))
<1>1. taken \in Nat /\ Has("md5", ctx, Msg(taken))
  BY DigestAssumption DEF Inv
<1> QED
  BY <1>1, Md5Finishes

(* md5_finish of a caller. *)
LEMMA FinishInv == ASSUME Inv, md5_finish PROVE Inv'
<1>1. /\ alg = "md5" /\ pc = "update" /\ ctx' = Md5Finish(ctx) /\ pc' = "done"
      /\ UNCHANGED <<alg, finalcount, file, ret, taken>>
  BY DEF md5_finish
<1>2. Has("md5", Md5Finish(ctx), Padded("md5", taken))
  BY <1>1, FinishTaken
<1>3. Has(alg', ctx', Padded(alg', taken')) /\ ctx' \in Ctx
  BY <1>1, <1>2, Zenon DEF Has
<1>4. /\ alg' \in Alg /\ pc' \in Pc /\ file' \in [size : 0 .. MaxLength, failed : BOOLEAN]
      /\ Len(finalcount)' \in {0, LengthBytes} /\ ret' \in {-1, 0, 1, 2} /\ ret' # 0
      /\ taken' \in 0 .. MaxLength
  BY <1>1 DEF Inv, Pc
<1> QED
  BY <1>1, <1>3, <1>4 DEF Inv

(* SHA1Final begins the padding. *)
LEMMA FinalStartsInv == ASSUME Inv, SHA1FinalStarts PROVE Inv'
<1>1. /\ alg = "sha1" /\ pc = "update" /\ pc' = "padding"
      /\ finalcount' = <<Length(ctx.total[2]), Length(ctx.total[1])>>
      /\ ctx' = Sha1Update(ctx, <<One>>)
      /\ UNCHANGED <<alg, file, ret, taken>>
  BY DEF SHA1FinalStarts
<1>2. taken \in Nat /\ Has("sha1", ctx, Msg(taken))
  BY <1>1, DigestAssumption DEF Inv
<1>3. Msg(taken) \in Seq(Cell) /\ Len(Msg(taken)) = taken
  BY <1>2, SequencesTyped
<1>4. ctx.total = CountOf("sha1", taken)
  BY <1>2, <1>3 DEF Has
<1>5. finalcount' = Count("sha1", taken)
  BY <1>1, <1>2, <1>4, CountIs
<1>6. Has("sha1", ctx', Msg(taken) \o Pad(0))
  <2>1. Pad(0) = <<One>> /\ Pad(0) \in Seq(Cell)
    <3>1. 0 \in Nat
      OBVIOUS
    <3> QED
      BY <3>1, Longer, SequencesTyped
  <2>2. Has("sha1", Sha1Update(ctx, Pad(0)), Msg(taken) \o Pad(0))
    <3>1. Len(Pad(0)) = 1 /\ 1 \in Nat /\ 1 <= B /\ ctx \in Ctx
      BY <1>2, <2>1, Sizes DEF Has
    <3>2. ~RunsOver(ctx, Len(Pad(0)))
      BY <3>1, PlaceIs
    <3> QED
      BY <1>2, <1>3, <2>1, <3>2, Sha1Takes
  <2> QED
    BY <1>1, <2>1, <2>2, Zenon
<1>7. 0 \in 0 .. Fewest(taken)
  BY <1>2, FewestIs, Sizes
<1>8. /\ alg' = "sha1" /\ finalcount' = Count("sha1", taken')
      /\ \E z \in 0 .. Fewest(taken') : Has("sha1", ctx', Msg(taken') \o Pad(z))
  BY <1>1, <1>5, <1>6, <1>7, Zenon
<1>9. ctx' \in Ctx
  BY <1>6 DEF Has
<1>10. Len(finalcount)' \in {0, LengthBytes}
  BY <1>2, <1>5, CountIs DEF Alg
<1>11. /\ alg' \in Alg /\ pc' \in Pc /\ file' \in [size : 0 .. MaxLength, failed : BOOLEAN]
       /\ ret' \in {-1, 0, 1, 2} /\ ret' # 0 /\ taken' \in 0 .. MaxLength
  BY <1>1 DEF Inv, Pc
<1> QED
  BY <1>1, <1>8, <1>9, <1>10, <1>11 DEF Inv

(* What the padding is in. *)
LEMMA PaddingPlace ==
    ASSUME Inv, pc = "padding"
    PROVE  /\ taken \in Nat /\ alg = "sha1" /\ finalcount = Count("sha1", taken)
           /\ Fewest(taken) \in 0 .. B - 1 /\ B \in Nat
           /\ \E z \in 0 .. Fewest(taken) :
                /\ z \in Nat
                /\ Has("sha1", ctx, Msg(taken) \o Pad(z))
                /\ Msg(taken) \o Pad(z) \in Seq(Cell)
                /\ CountFits <=> z = Fewest(taken)
<1>1. taken \in Nat /\ alg = "sha1" /\ finalcount = Count("sha1", taken)
  BY DigestAssumption DEF Inv
<1>2. PICK z \in 0 .. Fewest(taken) : Has("sha1", ctx, Msg(taken) \o Pad(z))
  BY DEF Inv
<1>3. Fewest(taken) \in 0 .. B - 1 /\ B \in Nat
  BY <1>1, FewestIs, Sizes
<1>4. z \in 0 .. B - 1 /\ z \in Nat
  BY <1>3
<1> DEFINE u == Msg(taken) \o Pad(z)
<1>5. u \in Seq(Cell) /\ Len(u) = taken + 1 + z
  <2>1. /\ Msg(taken) \in Seq(Cell) /\ Pad(z) \in Seq(Cell)
        /\ Len(Msg(taken)) = taken /\ Len(Pad(z)) = z + 1
    BY <1>1, <1>4, SequencesTyped
  <2>2. u \in Seq(Cell) /\ IsConcat(u, Msg(taken), Pad(z))
    BY <2>1, ConcatIs, Zenon
  <2> HIDE DEF u
  <2>3. Len(u) = taken + (z + 1)
    BY <2>1, <2>2 DEF IsConcat
  <2> QED
    BY <1>1, <1>4, <2>2, <2>3
<1> HIDE DEF u
<1>6. ctx.total = CountOf("sha1", taken + 1 + z)
  BY <1>2, <1>5 DEF Has, u
<1>7. CountFits <=> (taken + 1 + z) % B = B - LengthBytes
  <2>1. taken + 1 + z \in Nat
    BY <1>1, <1>4
  <2> QED
    BY <1>6, <2>1, CountKnowsRest DEF CountFits
<1>8. (taken + 1 + z) % B = B - LengthBytes <=> z = Fewest(taken)
  BY <1>1, <1>4, FewestIs
<1> QED
  BY <1>1, <1>2, <1>3, <1>4, <1>5, <1>7, <1>8 DEF u

(* SHA1Final pads another byte. *)
LEMMA FinalPadsInv == ASSUME Inv, SHA1FinalPads PROVE Inv'
<1>1. /\ pc = "padding" /\ ~CountFits /\ ctx' = Sha1Update(ctx, <<Zero>>)
      /\ UNCHANGED <<alg, pc, finalcount, file, ret, taken>>
  BY DEF SHA1FinalPads
<1>2. /\ taken \in Nat /\ alg = "sha1" /\ finalcount = Count("sha1", taken)
      /\ Fewest(taken) \in 0 .. B - 1 /\ B \in Nat
  BY <1>1, PaddingPlace
<1>3. PICK z \in 0 .. Fewest(taken) :
        /\ z \in Nat /\ Has("sha1", ctx, Msg(taken) \o Pad(z))
        /\ Msg(taken) \o Pad(z) \in Seq(Cell)
        /\ CountFits <=> z = Fewest(taken)
  BY <1>1, PaddingPlace, Zenon
<1>4. z + 1 \in 0 .. Fewest(taken) /\ z + 1 \in Nat
  BY <1>1, <1>2, <1>3
<1>5. <<Zero>> \in Seq(Cell)
  BY DEF Zero, Cell
<1>6. Has("sha1", Sha1Update(ctx, <<Zero>>), (Msg(taken) \o Pad(z)) \o <<Zero>>)
  <2>1. Len(<<Zero>>) = 1 /\ 1 \in Nat /\ 1 <= B /\ ctx \in Ctx
    BY <1>3, Sizes DEF Has
  <2>2. ~RunsOver(ctx, Len(<<Zero>>))
    BY <2>1, PlaceIs
  <2> QED
    BY <1>3, <1>5, <2>2, Sha1Takes
<1>7. (Msg(taken) \o Pad(z)) \o <<Zero>> = Msg(taken) \o Pad(z + 1)
  <2>1. Msg(taken) \in Seq(Cell) /\ Pad(z) \in Seq(Cell)
    BY <1>2, <1>3, SequencesTyped
  <2>2. (Msg(taken) \o Pad(z)) \o <<Zero>> = Msg(taken) \o (Pad(z) \o <<Zero>>)
    BY <1>5, <2>1, ConcatAssociative
  <2>3. Pad(z) \o <<Zero>> = Pad(z + 1)
    BY <1>3, Longer
  <2> QED
    BY <2>2, <2>3
<1>8. /\ alg' = "sha1" /\ finalcount' = Count("sha1", taken')
      /\ \E y \in 0 .. Fewest(taken') : Has("sha1", ctx', Msg(taken') \o Pad(y))
  BY <1>1, <1>2, <1>4, <1>6, <1>7, Zenon
<1>9. ctx' \in Ctx
  BY <1>1, <1>6, Zenon DEF Has
<1>10. /\ alg' \in Alg /\ pc' \in Pc /\ file' \in [size : 0 .. MaxLength, failed : BOOLEAN]
       /\ ret' \in {-1, 0, 1, 2} /\ ret' # 0 /\ taken' \in 0 .. MaxLength
       /\ Len(finalcount)' \in {0, LengthBytes}
  BY <1>1 DEF Inv, Pc
<1> QED
  BY <1>1, <1>8, <1>9, <1>10 DEF Inv

(* SHA1Final ends with the count. *)
LEMMA FinalEndsInv == ASSUME Inv, SHA1FinalEnds PROVE Inv'
<1>1. /\ pc = "padding" /\ CountFits /\ ctx' = Sha1Update(ctx, finalcount) /\ pc' = "done"
      /\ UNCHANGED <<alg, finalcount, file, ret, taken>>
  BY DEF SHA1FinalEnds
<1>2. /\ taken \in Nat /\ alg = "sha1" /\ finalcount = Count("sha1", taken)
  BY <1>1, PaddingPlace
<1>3. /\ Has("sha1", ctx, Msg(taken) \o Pad(Fewest(taken)))
      /\ Msg(taken) \o Pad(Fewest(taken)) \in Seq(Cell)
  BY <1>1, PaddingPlace, Zenon
<1>4. Count("sha1", taken) \in Seq(Cell)
  BY <1>2, CountIs DEF Alg
<1>5. Has("sha1", Sha1Update(ctx, Count("sha1", taken)),
          (Msg(taken) \o Pad(Fewest(taken))) \o Count("sha1", taken))
  <2>1. Len(Count("sha1", taken)) = LengthBytes
    BY <1>2, CountIs DEF Alg
  <2>2. LengthBytes \in Nat /\ LengthBytes <= B /\ ctx \in Ctx
    BY <1>3, Sizes DEF Has
  <2>3. ~RunsOver(ctx, Len(Count("sha1", taken)))
    BY <2>1, <2>2, PlaceIs
  <2> QED
    BY <1>3, <1>4, <2>3, Sha1Takes
<1>6. Padded("sha1", taken) = (Msg(taken) \o Pad(Fewest(taken))) \o Count("sha1", taken)
  BY <1>2, PaddedIs DEF Alg
<1>7. Has(alg', ctx', Padded(alg', taken')) /\ ctx' \in Ctx
  BY <1>1, <1>2, <1>5, <1>6, Zenon DEF Has
<1>8. /\ alg' \in Alg /\ pc' \in Pc /\ file' \in [size : 0 .. MaxLength, failed : BOOLEAN]
      /\ ret' \in {-1, 0, 1, 2} /\ ret' # 0 /\ taken' \in 0 .. MaxLength
      /\ Len(finalcount)' \in {0, LengthBytes}
  BY <1>1 DEF Inv, Pc
<1> QED
  BY <1>1, <1>7, <1>8 DEF Inv

(* md5_file that cannot open. *)
LEMMA OpenFailsInv == ASSUME Inv, OpenFails PROVE Inv'
<1>1. /\ pc' = "failed" /\ ret' = 1 /\ UNCHANGED <<alg, ctx, finalcount, file, taken>>
  BY DEF OpenFails
<1>2. /\ alg' \in Alg /\ pc' \in Pc /\ file' \in [size : 0 .. MaxLength, failed : BOOLEAN]
      /\ taken' \in 0 .. MaxLength /\ ctx' \in Ctx
      /\ Len(finalcount)' \in {0, LengthBytes}
  BY <1>1 DEF Inv, Pc
<1> QED
  BY <1>1, <1>2 DEF Inv

(* A read of md5_file, whole or failed. *)
LEMMA FreadInv ==
    ASSUME Inv, pc = "file", NEW n \in 0 .. Left, NEW failed \in BOOLEAN, Fread(n, failed),
           n = 0 => failed \/ Left = 0
    PROVE  Inv'
<1>1. /\ taken \in Nat /\ MaxLength \in Nat /\ FileBuffer \in Nat \ {0} /\ alg = "md5"
      /\ file \in [size : 0 .. MaxLength, failed : BOOLEAN] /\ taken <= file.size
  BY DigestAssumption DEF Inv
<1>2. /\ Left \in Nat /\ Left <= FileBuffer /\ taken + Left <= file.size
      /\ Left = 0 => taken = file.size
  <2>1. file.size \in Nat
    BY <1>1
  <2> QED
    BY <1>1, <2>1 DEF Left
<1>3. n \in Nat /\ n <= FileBuffer /\ taken + n <= file.size
  BY <1>1, <1>2
<1>4. /\ taken' = taken + n /\ UNCHANGED <<alg, finalcount>>
      /\ file' = [file EXCEPT !.failed = failed]
  BY DEF Fread
<1>5. /\ file' \in [size : 0 .. MaxLength, failed : BOOLEAN] /\ file'.size = file.size
      /\ taken' \in 0 .. MaxLength
  BY <1>1, <1>3, <1>4
<1>6. alg' \in Alg /\ Len(finalcount)' \in {0, LengthBytes} /\ ret # 0 /\ ret \in {-1, 0, 1, 2}
  BY <1>4 DEF Inv
<1>7. CASE n > 0
  <2>1. ctx' = Md5Update(ctx, Piece(n)) /\ UNCHANGED <<pc, ret>>
    BY <1>7 DEF Fread
  <2>2. n <= Word
    <3>1. FileBuffer < Word \div 2
      BY DigestAssumption
    <3>2. Word \in Nat /\ Word \div 2 \in Nat /\ Word \div 2 <= Word
      BY Sizes
    <3> QED
      BY <1>1, <1>3, <3>1, <3>2
  <2>3. Has(alg, IF alg = "md5" THEN Md5Update(ctx, Piece(n)) ELSE Sha1Update(ctx, Piece(n)),
            Msg(taken + n))
    BY <1>1, <1>3, <2>2, PieceTaken
  <2>4. Has(alg', ctx', Msg(taken')) /\ ctx' \in Ctx
    BY <1>1, <1>4, <2>1, <2>3, Zenon DEF Has
  <2>5. taken' <= file'.size
    BY <1>3, <1>4, <1>5
  <2> QED
    BY <1>1, <1>4, <1>5, <1>6, <2>1, <2>4, <2>5 DEF Inv, Pc
<1>8. CASE n = 0
  <2>1. /\ ctx' = Md5Finish(ctx) /\ pc' = "done" /\ ret' = IF failed THEN 2 ELSE 0
    BY <1>8 DEF Fread
  <2>2. taken' = taken
    BY <1>1, <1>4, <1>8
  <2>3. Has("md5", Md5Finish(ctx), Padded("md5", taken))
    BY <1>1, FinishTaken
  <2>4. Has(alg', ctx', Padded(alg', taken')) /\ ctx' \in Ctx
    BY <1>1, <1>4, <2>1, <2>2, <2>3, Zenon DEF Has
  <2>5. ret' \in {-1, 0, 1, 2} /\ (ret' = 0 => ~failed)
    BY <2>1
  <2>6. ret' = 0 => taken' = file'.size
    BY <1>2, <1>5, <1>8, <2>2, <2>5
  <2> QED
    BY <1>5, <1>6, <2>1, <2>4, <2>5, <2>6 DEF Inv, Pc
<1> QED
  BY <1>3, <1>7, <1>8

(* Each step keeps the invariant. *)
LEMMA StepInv == Inv /\ [Next]_vars => Inv'
<1> SUFFICES ASSUME Inv, [Next]_vars PROVE Inv'
  OBVIOUS
<1>1. CASE \E n \in 0 .. MaxLength : Feed(n)
  BY <1>1, FeedInv
<1>2. CASE md5_finish
  BY <1>2, FinishInv
<1>3. CASE SHA1FinalStarts
  BY <1>3, FinalStartsInv
<1>4. CASE SHA1FinalPads
  BY <1>4, FinalPadsInv
<1>5. CASE SHA1FinalEnds
  BY <1>5, FinalEndsInv
<1>6. CASE OpenFails
  BY <1>6, OpenFailsInv
<1>7. CASE ReadFile
  <2>1. pc = "file" /\ Fread(Left, file.failed) /\ file.failed \in BOOLEAN
    BY <1>7 DEF ReadFile, Inv
  <2>2. Left \in 0 .. Left
    <3>1. file.size \in Nat /\ taken \in Nat /\ taken <= file.size
      BY <2>1, DigestAssumption DEF Inv
    <3> QED
      BY <3>1, DigestAssumption DEF Left
  <2> QED
    BY <2>1, <2>2, FreadInv
<1>8. CASE ReadFails
  <2>1. pc = "file" /\ \E n \in 0 .. Left : Fread(n, TRUE)
    BY <1>8 DEF ReadFails
  <2> QED
    BY <2>1, FreadInv
<1>9. CASE UNCHANGED vars
  BY <1>9 DEF Inv, vars
<1> QED
  BY <1>1, <1>2, <1>3, <1>4, <1>5, <1>6, <1>7, <1>8, <1>9 DEF Next

(* The contexts are as they should be at each place. *)
THEOREM DigestInvariant == Spec => []Inv
<1>1. Init => Inv
  BY InitInv
<1>2. Inv /\ [Next]_vars => Inv'
  BY StepInv
<1> QED
  BY <1>1, <1>2, PTL DEF Spec

(* The types of the contexts: md5_update, SHA1Update and the rest keep     *)
(* blocks of B bytes and a count that fits its words.                      *)
THEOREM DigestTypes == Spec => []TypeOK
<1>1. Inv => TypeOK
  <2> SUFFICES ASSUME Inv PROVE TypeOK
    OBVIOUS
  <2>1. DOMAIN ctx = {"state", "total", "buffer"} /\ ctx.state \in Seq(Blk)
        /\ ctx.total \in (0 .. Word - 1) \X Nat /\ ctx.buffer \in Blk
    BY DEF Inv, Ctx
  <2>2. \A k \in DOMAIN ctx.state : DOMAIN ctx.state[k] = 1 .. B
    BY <2>1 DEF Blk
  <2>3. DOMAIN ctx.buffer = 1 .. B
    BY <2>1 DEF Blk
  <2>4. ctx.total[1] \in 0 .. Word - 1 /\ ctx.total[2] \in Nat
    BY <2>1
  <2> QED
    BY <2>1, <2>2, <2>3, <2>4 DEF Inv, TypeOK
<1> QED
  BY <1>1, DigestInvariant, PTL

(* What the compression was given is the padded message: whatever the      *)
(* pieces that md5_update and SHA1Update got, and however often the count  *)
(* wrapped, md5_finish and SHA1Final end with the digest of RFC 1321 and   *)
(* FIPS 180.                                                               *)
THEOREM DigestIsOfTheMessage == Spec => []DigestOfTheMessage
<1>1. Inv => DigestOfTheMessage
  BY DEF Inv, DigestOfTheMessage, Has
<1> QED
  BY <1>1, DigestInvariant, PTL

(* md5_file that returns 0 read the whole file: the last read came short   *)
(* at its end and not of an error.                                         *)
THEOREM FileDigestWhole == Spec => []FileDigestIsWhole
<1>1. Inv => FileDigestIsWhole
  BY DEF Inv, FileDigestIsWhole
<1> QED
  BY <1>1, DigestInvariant, PTL

-----------------------------------------------------------------------------
(* A set of numbers has a least: how a recursive definition is followed.   *)
LEMMA Least ==
    ASSUME NEW T \in SUBSET Nat, T # {}
    PROVE  \E x \in T : \A y \in T : x <= y
<1>1. IsWellFoundedOn(OpToRel(<, Nat), Nat)
  BY NatLessThanWellFounded
<1>2. PICK x \in T : \A y \in T : ~(<<y, x>> \in OpToRel(<, Nat))
  BY <1>1, WFMin
<1>3. \A y \in T : <<y, x>> \in OpToRel(<, Nat) <=> y < x
  BY DEF OpToRel
<1>4. \A y \in T : ~(y < x)
  BY <1>2, <1>3, Zenon
<1>5. \A y \in T : x <= y
  <2> TAKE y \in T
  <2>1. x \in Nat /\ y \in Nat /\ ~(y < x)
    BY <1>4, SMTT(60)
  <2> QED
    BY <2>1
<1> QED
  BY <1>5

(* FlattenSeq is the last value of what satisfies its recursion. *)
LEMMA Flattens ==
    ASSUME NEW st \in Seq(Blk), Len(st) # 0, NEW F,
           F = [i \in 1 .. Len(st) |-> IF i = 1 THEN st[i] ELSE F[i - 1] \o st[i]]
    PROVE  FlattenSeq(st) = F[Len(st)]
<1> DEFINE P(g) == g = [i \in 1 .. Len(st) |-> IF i = 1 THEN st[i] ELSE g[i - 1] \o st[i]]
<1>1. \E g : FlattenSeq(st) = g[Len(st)] /\ g = CHOOSE h : P(h)
  BY DEF FlattenSeq
<1>2. PICK g : FlattenSeq(st) = g[Len(st)] /\ g = CHOOSE h : P(h)
  BY <1>1
<1>3. P(F)
  OBVIOUS
<1>4. P(g)
  <2> HIDE DEF P
  <2> QED
    BY <1>2, <1>3, Zenon
<1>5. Len(st) \in 1 .. Len(st)
  BY LenProperties
<1>6. \A i \in 1 .. Len(st) : /\ g[i] = IF i = 1 THEN st[i] ELSE g[i - 1] \o st[i]
                              /\ F[i] = IF i = 1 THEN st[i] ELSE F[i - 1] \o st[i]
  BY <1>3, <1>4
<1> DEFINE T == {i \in 1 .. Len(st) : g[i] # F[i]}
<1>7. T = {}
  <2> SUFFICES ASSUME T # {} PROVE FALSE
    OBVIOUS
  <2>1. T \in SUBSET Nat
    OBVIOUS
  <2>2. PICK x \in T : \A y \in T : x <= y
    <3> HIDE DEF T
    <3> QED
      BY <2>1, Least
  <2>3. x \in 1 .. Len(st) /\ g[x] # F[x]
    OBVIOUS
  <2>4. x # 1
    BY <1>6, <2>3
  <2>5. x - 1 \in 1 .. Len(st) /\ ~(x <= x - 1)
    BY <2>3, <2>4
  <2>6. g[x - 1] = F[x - 1]
    BY <2>2, <2>5
  <2> HIDE DEF T, P
  <2>7. g[x] = g[x - 1] \o st[x] /\ F[x] = F[x - 1] \o st[x]
    BY <1>6, <2>3, <2>4, Zenon
  <2> QED
    BY <2>3, <2>6, <2>7, Zenon
<1>8. g[Len(st)] = F[Len(st)]
  BY <1>5, <1>7
<1> QED
  BY <1>2, <1>8

(* Two cuts of a sequence that meet. *)
LEMMA CutsMeet ==
    ASSUME NEW s \in Seq(Cell), NEW a \in Nat, NEW l \in Nat, a + l <= Len(s)
    PROVE  SubSeq(s, 1, a) \o SubSeq(s, a + 1, a + l) = SubSeq(s, 1, a + l)
<1>1. Len(s) \in Nat /\ a \in 0 .. Len(s) /\ a + l \in 0 .. Len(s)
  BY LenProperties
<1>2. /\ SubSeq(s, 1, a) \in Seq(Cell) /\ Len(SubSeq(s, 1, a)) = a
      /\ \A j \in 1 .. a : SubSeq(s, 1, a)[j] = s[j]
  BY <1>1, FirstIs
<1>3. PICK c \in Nat : c = a + l
  OBVIOUS
<1>4. /\ SubSeq(s, 1, c) \in Seq(Cell) /\ Len(SubSeq(s, 1, c)) = c
      /\ \A j \in 1 .. c : SubSeq(s, 1, c)[j] = s[j]
  BY <1>1, <1>3, FirstIs
<1>5. /\ SubSeq(s, a + 1, a + l) \in Seq(Cell)
      /\ Len(SubSeq(s, a + 1, a + l)) = l
      /\ SubSeq(s, a + 1, a + l) = [j \in 1 .. l |-> s[a + j]]
  BY SubSeqIs
<1> DEFINE u == SubSeq(s, 1, a)
           w == SubSeq(s, a + 1, a + l)
           v == u \o w
<1>6. w \in Seq(Cell) /\ Len(w) = l /\ \A j \in 1 .. l : w[j] = s[a + j]
  BY <1>5
<1> HIDE DEF w
<1>7. u \in Seq(Cell) /\ Len(u) = a /\ \A j \in 1 .. a : u[j] = s[j]
  BY <1>2
<1> HIDE DEF u
<1>8. v \in Seq(Cell) /\ IsConcat(v, u, w)
  BY <1>6, <1>7, ConcatIs, Zenon
<1> HIDE DEF v
<1>9. /\ Len(v) = Len(u) + Len(w)
      /\ \A i \in 1 .. Len(u) : v[i] = u[i]
      /\ \A i \in 1 .. Len(w) : v[Len(u) + i] = w[i]
  BY <1>8, Zenon DEF IsConcat
<1>10. Len(v) = c /\ (\A i \in 1 .. a : v[i] = s[i]) /\ \A i \in 1 .. l : v[a + i] = s[a + i]
  BY <1>3, <1>6, <1>7, <1>9, ZenonT(60)
<1>11. \A i \in 1 .. c : i \in 1 .. a \/ (i - a \in 1 .. l /\ a + (i - a) = i)
  BY <1>3
<1>12. \A i \in 1 .. c : v[i] = s[i]
  BY <1>10, <1>11
<1>13. v = SubSeq(s, 1, c)
  BY <1>4, <1>8, <1>10, <1>12, SeqEqual
<1> QED
  BY <1>3, <1>13 DEF v, u, w

(* The blocks of a sequence, put together again. *)
LEMMA BlocksFlatten ==
    ASSUME NEW s \in Seq(Cell)
    PROVE  FlattenSeq(Blocks(s)) = SubSeq(s, 1, Off(Len(s) \div B))
<1> DEFINE st == Blocks(s)
           p  == Len(s) \div B
           F  == [i \in 1 .. p |-> SubSeq(s, 1, Off(i))]
<1>1. Len(s) \in Nat /\ st \in Seq(Blk) /\ Len(st) = p /\ p \in Nat /\ B \in Nat
  BY LenProperties, BlocksAre, Cut, Sizes
<1>2. Off(p) <= Len(s) /\ Off(p) \in Nat
  <2>1. PICK r \in Nat : Len(s) = Off(p) + r
    BY <1>1, Cut
  <2>2. Off(p) \in Nat
    BY <1>1, Offs
  <2> QED
    BY <2>1, <2>2
<1>3. \A i \in 1 .. p : st[i] = SubSeq(s, Off(i - 1) + 1, Off(i))
  BY Zenon DEF Blocks, Off
<1> HIDE DEF st, p
<1>4. ASSUME NEW i \in 1 .. p
      PROVE  SubSeq(s, 1, Off(i)) = IF i = 1 THEN st[i] ELSE SubSeq(s, 1, Off(i - 1)) \o st[i]
  <2>1. i \in Int /\ 1 <= i /\ i <= p /\ i - 1 \in Nat /\ i - 1 \in Int /\ p \in Int
    BY <1>1
  <2>2. CASE i = 1
    <3>1. Off(i - 1) + 1 = 1
      BY <2>2, Offs
    <3> QED
      BY <1>3, <2>2, <3>1
  <2>3. CASE i # 1
    <3>1. /\ Off(i) <= Off(p) /\ Off(i - 1) = Off(i) - B /\ Off(i - 1) \in Nat /\ Off(i) \in Int
      BY <1>1, <2>1, Offs
    <3>2. PICK a \in Nat : a = Off(i - 1)
      BY <3>1
    <3>3. PICK x \in Int : x = Off(i)
      BY <3>1
    <3>4. x = a + B
      BY <1>1, <3>1, <3>2, <3>3
    <3>5. PICK op \in Nat, ls \in Nat : op = Off(p) /\ ls = Len(s)
      BY <1>1, <1>2
    <3>6. a + B <= Len(s)
      <4>1. x <= op /\ op <= ls
        BY <1>2, <3>1, <3>3, <3>5
      <4> QED
        BY <3>4, <3>5, <4>1
    <3>7. SubSeq(s, 1, a) \o SubSeq(s, a + 1, a + B) = SubSeq(s, 1, a + B)
      BY <1>1, <3>6, CutsMeet
    <3>8. st[i] = SubSeq(s, a + 1, a + B)
      BY <1>3, <3>2, <3>3, <3>4
    <3> QED
      BY <2>3, <3>2, <3>3, <3>4, <3>7, <3>8
  <2> QED
    BY <2>2, <2>3
<1>5. CASE p # 0
  <2>1. \A i \in 1 .. p : F[i] = IF i = 1 THEN st[i] ELSE F[i - 1] \o st[i]
    <3> TAKE i \in 1 .. p
    <3>1. i # 1 => i - 1 \in 1 .. p
      BY <1>1
    <3>2. i # 1 => F[i - 1] = SubSeq(s, 1, Off(i - 1))
      BY <3>1
    <3>3. F[i] = SubSeq(s, 1, Off(i))
      OBVIOUS
    <3> HIDE DEF F
    <3> QED
      BY <1>4, <3>2, <3>3
  <2>2. F = [i \in 1 .. p |-> F[i]]
    OBVIOUS
  <2>3. p \in 1 .. p /\ F[p] = SubSeq(s, 1, Off(p))
    <3>1. p \in 1 .. p
      BY <1>1, <1>5
    <3> QED
      BY <3>1, Zenon
  <2> HIDE DEF F
  <2>4. F = [i \in 1 .. p |-> IF i = 1 THEN st[i] ELSE F[i - 1] \o st[i]]
    BY <2>1, <2>2, Zenon
  <2>5. FlattenSeq(st) = F[p]
    BY <1>1, <1>5, <2>4, Flattens
  <2> QED
    BY <2>3, <2>5 DEF st, p
<1>6. CASE p = 0
  <2>1. st = <<>> /\ FlattenSeq(st) = st
    BY <1>1, <1>6 DEF FlattenSeq
  <2>2. Off(p) = 0
    BY <1>6, Offs
  <2>3. SubSeq(s, 1, 0) = <<>>
    BY <1>1, FirstIs
  <2> QED
    BY <2>1, <2>2, <2>3 DEF st, p
<1> QED
  BY <1>5, <1>6

(* What a context took is in its blocks and its buffer. *)
LEMMA NothingLost ==
    ASSUME NEW a \in Alg, NEW c, NEW s \in Seq(Cell), Has(a, c, s)
    PROVE  FlattenSeq(c.state) \o SubSeq(c.buffer, 1, LeftOf(a, c.total)) = s
<1> DEFINE p == Len(s) \div B
           r == Len(s) % B
<1>1. Len(s) \in Nat /\ B \in Nat
  BY LenProperties, Sizes
<1>2. LeftOf(a, c.total) = r /\ c.state = Blocks(s) /\ c.buffer \in Blk
      /\ \A j \in 1 .. r : c.buffer[j] = s[Off(p) + j]
  <2>1. c.total = CountOf(a, Len(s)) /\ c.state = Blocks(s) /\ c.buffer \in Blk
        /\ \A j \in 1 .. r : c.buffer[j] = s[Off(p) + j]
    BY Zenon DEF Has, Ctx
  <2> QED
    BY <1>1, <2>1, CountKnowsRest
<1>3. p \in Nat /\ r \in Nat /\ r < B /\ Len(s) = Off(p) + r /\ Off(p) \in Nat
  <2>1. p \in Nat /\ r \in Nat /\ r < B /\ Len(s) = Off(p) + r
    BY <1>1, Cut
  <2> QED
    BY <2>1, Offs
<1>a. FlattenSeq(Blocks(s)) = SubSeq(s, 1, Off(p))
  BY BlocksFlatten
<1> HIDE DEF p, r
<1>4. PICK o \in Nat : o = Off(p)
  BY <1>3
<1>5. Len(s) = o + r
  BY <1>3, <1>4
<1>6. SubSeq(s, 1, o) \o SubSeq(s, o + 1, o + r) = SubSeq(s, 1, o + r)
  <2>1. o + r <= Len(s)
    BY <1>1, <1>5
  <2> QED
    BY <1>3, <2>1, CutsMeet
<1>7. SubSeq(s, 1, o + r) = s
  <2>1. PICK l \in 0 .. Len(s) : l = Len(s)
    BY <1>1
  <2>2. /\ SubSeq(s, 1, l) \in Seq(Cell) /\ Len(SubSeq(s, 1, l)) = l
        /\ \A j \in 1 .. l : SubSeq(s, 1, l)[j] = s[j]
    BY FirstIs
  <2>3. SubSeq(s, 1, l) = s
    BY <2>1, <2>2, SeqEqual
  <2> QED
    BY <1>5, <2>1, <2>3
<1>8. SubSeq(c.buffer, 1, r) = SubSeq(s, o + 1, o + r)
  <2>1. PICK b \in Seq(Cell) : b = c.buffer /\ Len(b) = B
    BY <1>1, <1>2 DEF Blk
  <2>2. r \in 0 .. Len(b)
    BY <1>1, <1>3, <2>1
  <2>3. /\ SubSeq(b, 1, r) \in Seq(Cell) /\ Len(SubSeq(b, 1, r)) = r
        /\ \A j \in 1 .. r : SubSeq(b, 1, r)[j] = b[j]
    BY <2>2, FirstIs
  <2>4. /\ SubSeq(s, o + 1, o + r) \in Seq(Cell)
        /\ Len(SubSeq(s, o + 1, o + r)) = r
        /\ SubSeq(s, o + 1, o + r) = [j \in 1 .. r |-> s[o + j]]
    <3>1. o + r <= Len(s)
      BY <1>1, <1>5
    <3> QED
      BY <1>3, <3>1, SubSeqIs
  <2>5. \A j \in 1 .. r : SubSeq(s, o + 1, o + r)[j] = s[o + j]
    BY <2>4
  <2>6. \A j \in 1 .. r : SubSeq(b, 1, r)[j] = SubSeq(s, o + 1, o + r)[j]
    BY <1>2, <1>4, <2>1, <2>3, <2>5
  <2>7. SubSeq(b, 1, r) = SubSeq(s, o + 1, o + r)
    BY <2>3, <2>4, <2>6, SeqEqual
  <2> QED
    BY <2>1, <2>7
<1> QED
  BY <1>2, <1>a, <1>4, <1>6, <1>7, <1>8

(* The bytes taken before the end are the blocks processed and then what   *)
(* the count says is in the buffer, in their order, none of them twice:    *)
(* md5_update's and SHA1Update's use of the buffer.                        *)
THEOREM DigestLosesNothing == Spec => []NothingLostInTheBuffer
<1>1. Inv => NothingLostInTheBuffer
  <2> SUFFICES ASSUME Inv, pc \in {"update", "file"}
               PROVE  FlattenSeq(ctx.state)
                        \o SubSeq(ctx.buffer, 1, LeftOf(alg, ctx.total)) = Msg(taken)
    BY Zenon DEF NothingLostInTheBuffer, LeftOf, Msg
  <2>1. alg \in Alg /\ taken \in Nat /\ Has(alg, ctx, Msg(taken))
    BY DigestAssumption DEF Inv
  <2>2. Msg(taken) \in Seq(Cell)
    BY <2>1, SequencesTyped
  <2> QED
    BY <2>1, <2>2, NothingLost
<1> QED
  BY <1>1, DigestInvariant, PTL
=============================================================================
