----------------------------- MODULE TcpMethodProofs -----------------------------
(***************************************************************************)
(* The invariants of the TCP method, for any number of descriptors and of  *)
(* addresses and transfers of any length.                                  *)
(*                                                                         *)
(* A descriptor is taken only while it is closed, so that it has no owner  *)
(* then, and what loses its owner is lost with it: the descriptors of a    *)
(* method that failed.  An address whose socket was closed is told from    *)
(* one that never had a socket by the number it kept.                      *)
(*                                                                         *)
(* Of a stream: what the calls that returned have is settled up to the     *)
(* byte the call in progress began at, and its buffer has what came since. *)
(***************************************************************************)
EXTENDS TcpMethod, FiniteSetTheorems, SequenceTheorems, TLAPS

(* An open descriptor that was not lost has an owner, and no other has.    *)
OwnedIffOpen ==
    \A n \in Fd : (Open(n) /\ n \notin leaked) <=> (\E o : o \in Owners(n))

OwnerIsOne == \A n \in Fd : \A o, p \in Owners(n) : o = p

LeakedIsOpen == \A n \in leaked : Open(n)

HasNumber ==
    \A a \in Addr : a \in stale \/ addr[a].is_connected => addr[a].socket # -1

(* What is to be sent is all still in the buffer. *)
SendKeepsAll == io.op = "send" => io.comp = io.len

(* The bytes a call has taken so far are in its buffer, and are those that *)
(* follow what was taken when it began.                                    *)
ReceivedSoFar ==
    io.op = "recv" =>
        /\ io.at + io.comp = io.len /\ pos[io.fd] = io.from + io.at
        /\ \A j \in 1 .. io.at : io.buf[j] = io.from + j

(* Of the first q bytes of a socket, calls returned all that were not      *)
(* dropped; q is what had left the socket when the call in progress began. *)
AllBut(s, q, D) == /\ D \subseteq 1 .. q
                   /\ Ascending(s) /\ BytesOf(s) = (1 .. q) \ D
Follows(t, q)   == \A i \in 1 .. Len(t) : t[i] = q + i

Settled(n, q) == AllBut(got[n], q, dropped[n])

Base(n) == IF io.op = "recv" /\ io.fd = n THEN io.from ELSE pos[n]

StreamsOK == SendKeepsAll /\ ReceivedSoFar /\ \A n \in Fd : Settled(n, Base(n))

(* The part of the invariant that is about descriptors and who holds them. *)
TableOK == OwnedIffOpen /\ OwnerIsOne /\ LeakedIsOpen /\ HasNumber

Inv == TypeOK /\ TableOK /\ StreamsOK

-----------------------------------------------------------------------------
(* Owners, element by element. *)
LEMMA OwnersAre ==
    ASSUME NEW n \in Fd, NEW o
    PROVE  o \in Owners(n) <=>
             \/ o = "listen" /\ listen = n
             \/ o = "scp" /\ scp = n
             \/ o = "peer" /\ n \in peers
             \/ o \in Addr /\ o \notin stale /\ addr[o].socket = n
BY DEF Owners

(* Nothing is open at first. *)
LEMMA InitInv == Init => Inv
<1> SUFFICES ASSUME Init PROVE Inv
  OBVIOUS
<1>1. TypeOK
  <2>1. NoIo \in Call /\ Closed \in Descriptor
    BY SockAssumption DEF NoIo, Call, Closed, Descriptor, Fd
  <2> QED
    BY SockAssumption, <2>1 DEF Init, SockInit, TypeOK, SockTypeOK
<1>2. \A n \in Fd : n # -1
  BY SockAssumption DEF Fd
<1>3. \A n \in Fd : \A o : o \notin Owners(n)
  BY <1>2, OwnersAre DEF Init
<1>4. \A n : ~Open(n)
  BY DEF Init, SockInit, Open, Closed
<1>5. OwnedIffOpen /\ OwnerIsOne
  BY <1>3, <1>4 DEF OwnedIffOpen, OwnerIsOne
<1>6. LeakedIsOpen /\ HasNumber
  BY DEF Init, LeakedIsOpen, HasNumber
<1>7. StreamsOK
  <2>1. io.op = "none"
    BY DEF Init, SockInit, NoIo
  <2>2. ASSUME NEW n \in Fd PROVE Settled(n, Base(n))
    <3>1. pos[n] = 0 /\ got[n] = <<>> /\ dropped[n] = {} /\ Base(n) = 0
      BY <2>1 DEF Init, SockInit, Base
    <3> QED
      BY <3>1 DEF Settled, AllBut, Ascending, BytesOf
  <2> QED
    BY <2>1, <2>2 DEF StreamsOK, SendKeepsAll, ReceivedSoFar
<1> QED
  BY <1>1, <1>5, <1>6, <1>7 DEF Inv, TableOK

-----------------------------------------------------------------------------
(* The streams.  A transfer moves bytes and leaves the table alone.        *)
LEMMA BeginsKeeps ==
    ASSUME Inv, NEW n \in Fd, NEW len \in 0 .. MaxLen, nbrecv(n, len) \/ nbsend(n, len)
    PROVE  SockTypeOK' /\ StreamsOK' /\ UNCHANGED sock
<1> USE SockAssumption
<1>0. SockTypeOK /\ StreamsOK
  BY DEF Inv, TypeOK
<1>1. /\ io.op = "none" /\ UNCHANGED <<sock, pos, got, dropped>>
      /\ \/ \E op \in {"recv", "send"} :
              io' = [NoIo EXCEPT !.op = op, !.fd = n, !.len = len, !.comp = len,
                                 !.from = pos[n]]
         \/ io' = [NoIo EXCEPT !.op = "aborted", !.fd = n]
  BY DEF nbrecv, nbsend, Begins, stream
<1>2. pos[n] \in 0 .. MaxRx /\ 0 \in Fd
  BY <1>0 DEF SockTypeOK, Fd
<1>3. /\ io'.fd = n /\ io'.op \in {"recv", "send", "aborted"}
      /\ io'.op = "recv" => io'.from = pos[n] /\ io'.at = 0
      /\ io'.op # "aborted" => io'.comp = len /\ io'.len = len
  BY <1>1, ZenonT(60) DEF NoIo
<1>4. SockTypeOK'
  <2>1. NoIo \in Call
    BY <1>2 DEF NoIo, Call
  <2>2. ASSUME NEW op \in {"recv", "send"},
               io' = [NoIo EXCEPT !.op = op, !.fd = n, !.len = len, !.comp = len,
                                  !.from = pos[n]]
        PROVE  io' \in Call
    <3>1. io' = [op |-> op, fd |-> n, len |-> len, comp |-> len, at |-> 0,
                 from |-> pos[n], tx |-> 0, buf |-> NoIo.buf]
      BY <2>2 DEF NoIo
    <3>2. PICK p \in 0 .. MaxRx, w \in [1 .. MaxLen -> 0 .. MaxRx] :
            p = pos[n] /\ w = NoIo.buf
      BY <1>2, <2>1 DEF Call
    <3>3. 0 \in 0 .. MaxLen /\ 0 \in 0 .. MaxTx
      OBVIOUS
    <3>4. io' = [op |-> op, fd |-> n, len |-> len, comp |-> len, at |-> 0,
                 from |-> p, tx |-> 0, buf |-> w]
      BY <3>1, <3>2
    <3> QED
      BY <3>3, <3>4, Zenon DEF Call
  <2>3. ASSUME io' = [NoIo EXCEPT !.op = "aborted", !.fd = n] PROVE io' \in Call
    <3>1. io' = [op |-> "aborted", fd |-> n, len |-> 0, comp |-> 0, at |-> 0,
                 from |-> 0, tx |-> 0, buf |-> NoIo.buf]
      BY <2>3 DEF NoIo
    <3>2. PICK w \in [1 .. MaxLen -> 0 .. MaxRx] : w = NoIo.buf
      BY <2>1 DEF Call
    <3>3. 0 \in 0 .. MaxLen /\ 0 \in 0 .. MaxTx /\ 0 \in 0 .. MaxRx
      OBVIOUS
    <3>4. io' = [op |-> "aborted", fd |-> n, len |-> 0, comp |-> 0, at |-> 0,
                 from |-> 0, tx |-> 0, buf |-> w]
      BY <3>1, <3>2
    <3> QED
      BY <3>3, <3>4, Zenon DEF Call
  <2> QED
    BY <1>0, <1>1, <2>2, <2>3 DEF SockTypeOK
<1>5. ReceivedSoFar' /\ SendKeepsAll'
  BY <1>1, <1>2, <1>3 DEF ReceivedSoFar, SendKeepsAll
<1>6. ASSUME NEW m \in Fd PROVE Settled(m, Base(m))'
  <2>1. Settled(m, pos[m])
    BY <1>0, <1>1 DEF StreamsOK, Base
  <2>2. Base(m)' = pos[m]
    BY <1>1, <1>3 DEF Base
  <2> QED
    BY <1>1, <2>1, <2>2 DEF Settled
<1> QED
  BY <1>1, <1>4, <1>5, <1>6 DEF StreamsOK

(* recv puts the next bytes behind those the buffer has. *)
LEMMA RecvSomeKeeps ==
    ASSUME Inv, NEW n \in 1 .. MaxLen, RecvSome(n)
    PROVE  SockTypeOK' /\ StreamsOK' /\ UNCHANGED sock
<1> USE SockAssumption
<1>0. SockTypeOK /\ StreamsOK
  BY DEF Inv, TypeOK
<1> DEFINE f == io.fd
           new == Received(io.at, n)
<1>1. /\ io.op = "recv" /\ n \in 1 .. io.comp /\ pos[f] + n <= MaxRx
      /\ io' = [io EXCEPT !.comp = io.comp - n, !.at = io.at + n, !.buf = new]
      /\ pos' = [pos EXCEPT ![f] = pos[f] + n]
      /\ UNCHANGED <<sock, got, dropped>>
  BY DEF RecvSome
<1>2. /\ f \in Fd /\ io.comp \in 0 .. MaxLen /\ io.at \in 0 .. MaxLen
      /\ io.len \in 0 .. MaxLen /\ io.from \in 0 .. MaxRx /\ pos[f] \in 0 .. MaxRx
      /\ io.buf \in [1 .. MaxLen -> 0 .. MaxRx]
      /\ io.at + io.comp = io.len /\ pos[f] = io.from + io.at
      /\ \A j \in 1 .. io.at : io.buf[j] = io.from + j
  BY <1>0, <1>1 DEF SockTypeOK, Call, StreamsOK, ReceivedSoFar
<1>3. /\ new \in [1 .. MaxLen -> 0 .. MaxRx]
      /\ \A j \in 1 .. MaxLen : new[j] = IF io.at < j /\ j <= io.at + n
                                        THEN pos[f] + (j - io.at) ELSE io.buf[j]
  <2> DEFINE e(j) == IF io.at < j /\ j <= io.at + n THEN pos[f] + (j - io.at) ELSE io.buf[j]
  <2>1. new = [j \in 1 .. MaxLen |-> e(j)]
    BY DEF Received
  <2>2. ASSUME NEW j \in 1 .. MaxLen PROVE e(j) \in 0 .. MaxRx
    <3>1. io.buf[j] \in 0 .. MaxRx
      BY <1>2
    <3>2. CASE io.at < j /\ j <= io.at + n
      <4>1. n \in Int /\ io.at \in Int /\ pos[f] \in Nat /\ pos[f] + n <= MaxRx
        BY <1>1, <1>2, SMTT(60)
      <4> QED
        BY <3>2, <4>1
    <3>3. CASE ~(io.at < j /\ j <= io.at + n)
      BY <3>1, <3>3
    <3> QED
      BY <3>2, <3>3
  <2> HIDE DEF e
  <2>3. new \in [1 .. MaxLen -> 0 .. MaxRx] /\ \A j \in 1 .. MaxLen : new[j] = e(j)
    BY <2>1, <2>2, Zenon
  <2> QED
    BY <2>3 DEF e
<1> HIDE DEF new
<1>4. SockTypeOK'
  <2>1. io.comp - n \in 0 .. MaxLen /\ io.at + n \in 0 .. MaxLen
    <3>1. PICK c \in Nat, a \in Nat, l \in Nat : /\ c = io.comp /\ a = io.at /\ l = io.len
                                               /\ a + c = l /\ l <= MaxLen /\ n <= c
      BY <1>1, <1>2, SMTT(60)
    <3>2. c - n \in 0 .. MaxLen /\ a + n \in 0 .. MaxLen
      BY <3>1
    <3> QED
      BY <3>1, <3>2
  <2>2. pos' \in [Fd -> 0 .. MaxRx]
    BY <1>0, <1>1, <1>2, SMTT(60) DEF SockTypeOK
  <2>3. io' \in Call
    BY <1>0, <1>1, <1>3, <2>1, Zenon DEF SockTypeOK, Call
  <2> QED
    BY <1>0, <1>1, <2>2, <2>3 DEF SockTypeOK
<1>5. /\ io'.op = "recv" /\ io'.fd = f /\ io'.len = io.len /\ io'.from = io.from
      /\ io'.comp = io.comp - n /\ io'.at = io.at + n /\ io'.buf = new
      /\ pos'[f] = pos[f] + n /\ \A m \in Fd : m # f => pos'[m] = pos[m]
  BY <1>0, <1>1, <1>2 DEF SockTypeOK, Call
<1>6. ReceivedSoFar' /\ SendKeepsAll'
  <2>1. ASSUME NEW j \in 1 .. io.at + n PROVE new[j] = io.from + j
    <3>1. j \in 1 .. MaxLen
      BY <1>1, <1>2, SMTT(60)
    <3>2. CASE j <= io.at
      <4>1. j \in 1 .. io.at /\ ~(io.at < j /\ j <= io.at + n)
        BY <1>2, <3>2
      <4> QED
        BY <1>2, <1>3, <3>1, <4>1
    <3>3. CASE ~(j <= io.at)
      <4>1. io.at < j /\ j <= io.at + n
        BY <1>2, <3>3
      <4>2. pos[f] + (j - io.at) = io.from + j
        BY <1>2, SMTT(60)
      <4> QED
        BY <1>3, <3>1, <4>1, <4>2
    <3> QED
      BY <3>2, <3>3
  <2>2. io.at + n + (io.comp - n) = io.len /\ pos[f] + n = io.from + (io.at + n)
    <3>1. PICK c \in Nat, a \in Nat, l \in Nat, q \in Nat, s \in Nat :
             /\ c = io.comp /\ a = io.at /\ l = io.len /\ q = pos[f] /\ s = io.from
             /\ a + c = l /\ q = s + a
      BY <1>2, SMTT(60)
    <3>2. a + n + (c - n) = l /\ q + n = s + (a + n)
      BY <3>1
    <3> QED
      BY <3>1, <3>2
  <2> QED
    BY <1>5, <2>1, <2>2 DEF ReceivedSoFar, SendKeepsAll
<1>7. ASSUME NEW m \in Fd PROVE Settled(m, Base(m))'
  <2>1. Settled(m, Base(m))
    BY <1>0 DEF StreamsOK
  <2>2. Base(m)' = Base(m)
    BY <1>1, <1>5 DEF Base
  <2> QED
    BY <1>1, <2>1, <2>2 DEF Settled
<1> QED
  BY <1>1, <1>4, <1>6, <1>7 DEF StreamsOK

(* What a call returns goes on where the calls before it stopped. *)
LEMMA ReturnsOn ==
    ASSUME NEW s \in Seq(Nat), NEW t \in Seq(Nat), NEW q \in Nat, NEW D,
           AllBut(s, q, D), Follows(t, q)
    PROVE  AllBut(s \o t, q + Len(t), D)
<1>0. /\ D \subseteq 1 .. q /\ Ascending(s) /\ BytesOf(s) = (1 .. q) \ D
      /\ \A i \in 1 .. Len(t) : t[i] = q + i
  BY DEF AllBut, Follows
<1> DEFINE u == s \o t
<1>1. PICK a \in Nat, b \in Nat : a = Len(s) /\ b = Len(t)
  BY LenProperties
<1>2. /\ DOMAIN s = 1 .. a /\ DOMAIN u = 1 .. a + b /\ u \in Seq(Nat)
      /\ \A i \in 1 .. a : u[i] = s[i]
      /\ \A i \in 1 .. b : u[a + i] = t[i]
  BY <1>1
<1> HIDE DEF u
<1>3. \A i \in 1 .. a : s[i] \in 1 .. q /\ s[i] \notin D
  BY <1>0, <1>2 DEF BytesOf
<1>4. \A i \in 1 .. b : u[a + i] = q + i
  BY <1>0, <1>1, <1>2
<1>5. \A i \in 1 .. a + b : i > a => u[i] = q + (i - a)
  <2> SUFFICES ASSUME NEW i \in 1 .. a + b, i > a PROVE u[i] = q + (i - a)
    OBVIOUS
  <2>1. i - a \in 1 .. b /\ i = a + (i - a)
    BY <1>1
  <2> QED
    BY <1>4, <2>1
<1>6. Ascending(u)
  <2> SUFFICES ASSUME NEW i \in 1 .. a + b, NEW j \in 1 .. a + b, i < j PROVE u[i] < u[j]
    BY <1>2 DEF Ascending
  <2>1. CASE j <= a
    <3>1. i \in 1 .. a /\ j \in 1 .. a
      BY <1>1, <2>1
    <3> QED
      BY <1>0, <1>2, <3>1 DEF Ascending
  <2>2. CASE i <= a /\ j > a
    <3>1. i \in 1 .. a /\ j - a \in 1 .. b
      BY <1>1, <2>2
    <3> QED
      BY <1>1, <1>2, <1>3, <1>5, <2>2, <3>1, SMTT(60)
  <2>3. CASE i > a
    <3>1. u[i] = q + (i - a) /\ u[j] = q + (j - a)
      BY <1>1, <1>5, <2>3
    <3> QED
      BY <1>1, <3>1
  <2> QED
    BY <1>1, <2>1, <2>2, <2>3
<1>7. BytesOf(u) = (1 .. q + b) \ D
  <2>1. ASSUME NEW x \in BytesOf(u) PROVE x \in (1 .. q + b) \ D
    <3>1. PICK i \in 1 .. a + b : x = u[i]
      BY <1>2, <2>1 DEF BytesOf
    <3>2. CASE i <= a
      <4>1. i \in 1 .. a
        BY <1>1, <3>2
      <4> QED
        BY <1>1, <1>2, <1>3, <3>1, <4>1, SMTT(60)
    <3>3. CASE i > a
      BY <1>0, <1>1, <1>5, <3>1, <3>3
    <3> QED
      BY <1>1, <3>2, <3>3
  <2>2. ASSUME NEW x \in (1 .. q + b) \ D PROVE x \in BytesOf(u)
    <3>1. CASE x <= q
      <4>1. x \in BytesOf(s)
        BY <1>0, <2>2, <3>1
      <4>2. PICK i \in 1 .. a : x = s[i]
        BY <1>2, <4>1 DEF BytesOf
      <4>3. i \in 1 .. a + b
        BY <1>1
      <4> QED
        BY <1>2, <4>2, <4>3 DEF BytesOf
    <3>2. CASE x > q
      <4>1. x - q \in 1 .. b /\ a + (x - q) \in 1 .. a + b
        BY <1>1, <2>2, <3>2
      <4>2. u[a + (x - q)] = x
        <5>1. PICK i \in 1 .. b : i = x - q
          BY <4>1
        <5>2. u[a + i] = q + i
          BY <1>4
        <5>3. q + i = x
          BY <2>2, <5>1
        <5> QED
          BY <5>1, <5>2, <5>3
      <4>3. \A i \in 1 .. a + b : u[i] \in BytesOf(u)
        BY <1>2 DEF BytesOf
      <4> QED
        BY <4>1, <4>2, <4>3
    <3> QED
      BY <2>2, <3>1, <3>2
  <2> QED
    BY <2>1, <2>2
<1>8. D \subseteq 1 .. q + b
  BY <1>0, <1>1
<1> QED
  BY <1>1, <1>6, <1>7, <1>8 DEF u, AllBut

(* The end of a receive. *)
LEMMA RecvEndKeeps ==
    ASSUME Inv, RecvReturns \/ RecvFails
    PROVE  SockTypeOK' /\ StreamsOK' /\ UNCHANGED sock
<1> USE SockAssumption
<1>0. SockTypeOK /\ StreamsOK
  BY DEF Inv, TypeOK
<1> DEFINE f == io.fd
           t == SubSeq(io.buf, 1, io.len - io.comp)
<1>1. io.op = "recv" /\ io' = NoIo /\ UNCHANGED <<sock, pos>>
  BY DEF RecvReturns, RecvFails
<1>2. /\ f \in Fd /\ io.comp \in 0 .. MaxLen /\ io.at \in 0 .. MaxLen
      /\ io.len \in 0 .. MaxLen /\ io.from \in 0 .. MaxRx /\ pos[f] \in 0 .. MaxRx
      /\ io.buf \in [1 .. MaxLen -> 0 .. MaxRx]
      /\ io.at + io.comp = io.len /\ pos[f] = io.from + io.at
      /\ \A j \in 1 .. io.at : io.buf[j] = io.from + j
      /\ got[f] \in Seq(0 .. MaxRx) /\ dropped[f] \in SUBSET (1 .. MaxRx)
  BY <1>0, <1>1 DEF SockTypeOK, Call, StreamsOK, ReceivedSoFar
<1>3. Settled(f, io.from)
  BY <1>0, <1>1, <1>2 DEF StreamsOK, Base
<1>4. io' \in Call /\ io'.op = "none"
  BY <1>1 DEF NoIo, Call, Fd
<1>5. ReceivedSoFar' /\ SendKeepsAll' /\ \A m : Base(m)' = pos[m]
  BY <1>1, <1>4 DEF ReceivedSoFar, SendKeepsAll, Base
<1>6. ASSUME NEW m \in Fd, m # f PROVE Settled(m, pos[m])
  BY <1>0, <1>6 DEF StreamsOK, Base
<1>7. CASE RecvReturns
  <2>1. UNCHANGED dropped /\ got' = [got EXCEPT ![f] = got[f] \o t]
    BY <1>7 DEF RecvReturns
  <2>2. io.len - io.comp = io.at
    BY <1>2
  <2>3. io.buf \in Seq(0 .. MaxRx) /\ Len(io.buf) = MaxLen
    BY <1>2, SMTT(60)
  <2>4. /\ t \in Seq(0 .. MaxRx) /\ Len(t) = io.at
        /\ \A i \in 1 .. io.at : t[i] = io.buf[i]
    <3>1. t = SubSeq(io.buf, 1, io.at)
      BY <2>2
    <3>2. io.at \in 0 .. Len(io.buf)
      BY <1>2, <2>3
    <3>3. PICK w \in Seq(0 .. MaxRx), a \in Nat : w = io.buf /\ a = io.at /\ a <= Len(w)
      BY <2>3, <3>2
    <3>4. /\ SubSeq(w, 1, a) \in Seq(0 .. MaxRx) /\ Len(SubSeq(w, 1, a)) = a
          /\ \A i \in 1 .. a : SubSeq(w, 1, a)[i] = w[i]
      BY <3>3, SMTT(60)
    <3> QED
      BY <3>1, <3>3, <3>4
  <2> HIDE DEF t
  <2>5. Follows(t, io.from)
    BY <1>2, <2>4 DEF Follows
  <2>6. got[f] \in Seq(Nat) /\ t \in Seq(Nat) /\ io.from \in Nat
    BY <1>2, <2>4, SMTT(60)
  <2>7. AllBut(got[f] \o t, io.from + Len(t), dropped[f])
    BY <1>3, <2>5, <2>6, ReturnsOn, Zenon DEF Settled
  <2>8. got[f] \o t \in Seq(0 .. MaxRx)
    BY <1>2, <2>4
  <2>9. got' \in [Fd -> Seq(0 .. MaxRx)]
    BY <1>0, <2>1, <2>8 DEF SockTypeOK
  <2>10. SockTypeOK'
    BY <1>0, <1>1, <1>4, <2>1, <2>9 DEF SockTypeOK
  <2>11. ASSUME NEW m \in Fd PROVE Settled(m, Base(m))'
    <3>1. CASE m = f
      <4>1. got'[m] = got[f] \o t /\ dropped'[m] = dropped[f] /\ Base(m)' = pos[f]
        BY <1>0, <1>2, <1>5, <2>1, <3>1 DEF SockTypeOK
      <4>2. io.from + Len(t) = pos[f]
        BY <1>2, <2>4
      <4> QED
        BY <2>7, <4>1, <4>2 DEF Settled
    <3>2. CASE m # f
      <4>1. got'[m] = got[m] /\ dropped'[m] = dropped[m] /\ Base(m)' = pos[m]
        BY <1>0, <1>5, <2>1, <3>2 DEF SockTypeOK
      <4> QED
        BY <1>6, <3>2, <4>1 DEF Settled
    <3> QED
      BY <3>1, <3>2
  <2> QED
    BY <1>1, <1>5, <2>10, <2>11 DEF StreamsOK
<1>8. CASE RecvFails
  <2> DEFINE taken == io.from + 1 .. pos[f]
  <2>1. UNCHANGED got /\ dropped' = [dropped EXCEPT ![f] = dropped[f] \cup taken]
    BY <1>8 DEF RecvFails
  <2>2. dropped[f] \cup taken \in SUBSET (1 .. MaxRx)
    BY <1>2
  <2>3. dropped' \in [Fd -> SUBSET (1 .. MaxRx)]
    BY <1>0, <2>1, <2>2 DEF SockTypeOK
  <2>4. SockTypeOK'
    BY <1>0, <1>1, <1>4, <2>1, <2>3 DEF SockTypeOK
  <2>5. ASSUME NEW m \in Fd PROVE Settled(m, Base(m))'
    <3>1. CASE m = f
      <4>1. got'[m] = got[f] /\ dropped'[m] = dropped[f] \cup taken /\ Base(m)' = pos[f]
        BY <1>0, <1>2, <1>5, <2>1, <3>1 DEF SockTypeOK
      <4>2. /\ dropped[f] \cup taken \subseteq 1 .. pos[f]
            /\ (1 .. pos[f]) \ (dropped[f] \cup taken) = (1 .. io.from) \ dropped[f]
        BY <1>2, <1>3, SMTT(60) DEF Settled, AllBut
      <4> QED
        BY <1>3, <4>1, <4>2 DEF Settled, AllBut
    <3>2. CASE m # f
      <4>1. got'[m] = got[m] /\ dropped'[m] = dropped[m] /\ Base(m)' = pos[m]
        BY <1>0, <1>5, <2>1, <3>2 DEF SockTypeOK
      <4> QED
        BY <1>6, <3>2, <4>1 DEF Settled
    <3> QED
      BY <3>1, <3>2
  <2> QED
    BY <1>1, <1>5, <2>4, <2>5 DEF StreamsOK
<1> QED
  BY <1>7, <1>8

(* A send changes no stream that is received. *)
LEMMA SendingKeeps ==
    ASSUME Inv, SendReturns \/ \E n \in 1 .. MaxLen : SendSome(n)
    PROVE  SockTypeOK' /\ StreamsOK' /\ UNCHANGED sock
<1> USE SockAssumption
<1>0. SockTypeOK /\ StreamsOK
  BY DEF Inv, TypeOK
<1>1. /\ io.op = "send" /\ UNCHANGED <<sock, pos, got, dropped>>
      /\ io' = NoIo \/ \E n \in 1 .. MaxLen : io.tx + n <= MaxTx /\ io' = [io EXCEPT !.tx = io.tx + n]
  BY DEF SendReturns, SendSome, stream
<1>2. io' \in Call
  <2>1. NoIo \in Call
    BY DEF NoIo, Call, Fd
  <2>2. ASSUME NEW n \in 1 .. MaxLen, io.tx + n <= MaxTx, io' = [io EXCEPT !.tx = io.tx + n]
        PROVE  io' \in Call
    <3>1. io.tx \in 0 .. MaxTx
      BY <1>0 DEF SockTypeOK, Call
    <3>2. io.tx + n \in 0 .. MaxTx
      BY <2>2, <3>1
    <3> QED
      BY <1>0, <2>2, <3>2, Zenon DEF SockTypeOK, Call
  <2> QED
    BY <1>1, <2>1, <2>2
<1>3. io'.op # "recv" /\ (io'.op = "send" => io'.comp = io.comp /\ io'.len = io.len)
  BY <1>0, <1>1, SMTT(60) DEF NoIo, SockTypeOK, Call
<1>4. ReceivedSoFar' /\ SendKeepsAll'
  BY <1>0, <1>1, <1>3 DEF ReceivedSoFar, SendKeepsAll, StreamsOK
<1>5. ASSUME NEW m \in Fd PROVE Settled(m, Base(m))'
  <2>1. Settled(m, pos[m])
    BY <1>0, <1>1 DEF StreamsOK, Base
  <2>2. Base(m)' = pos[m]
    BY <1>1, <1>3 DEF Base
  <2> QED
    BY <1>1, <2>1, <2>2 DEF Settled
<1>6. SockTypeOK'
  BY <1>0, <1>1, <1>2 DEF SockTypeOK
<1> QED
  BY <1>1, <1>4, <1>5, <1>6 DEF StreamsOK

(* Whoever transfers. *)
LEMMA TransferKeeps ==
    ASSUME Inv, Transfer(Held)
    PROVE  SockTypeOK' /\ StreamsOK' /\ UNCHANGED sock
<1>1. Held \subseteq Fd
  BY DEF Held, Inv, TableOK, TypeOK, HasNumber
<1> QED
  BY <1>1, BeginsKeeps, RecvSomeKeeps, RecvEndKeeps, SendingKeeps DEF Transfer

-----------------------------------------------------------------------------
(* Every step of the method takes the lowest closed descriptors: Lowest n, *)
(* and nothing but n and a second one, m, changes in the table.            *)

(* A closed descriptor belongs to nobody. *)
LEMMA ClosedHasNoOwner ==
    ASSUME Inv, NEW n \in Fd, sock[n].kind = "closed"
    PROVE  /\ n \notin leaked /\ listen # n /\ scp # n /\ n \notin peers
           /\ \A a \in Addr \ stale : addr[a].socket # n
<1>1. ~Open(n)
  BY DEF Open
<1>2. n \notin leaked
  BY <1>1 DEF Inv, TableOK, LeakedIsOpen
<1>3. \A o : o \notin Owners(n)
  BY <1>1 DEF Inv, TableOK, OwnedIffOpen
<1> QED
  BY <1>2, <1>3, OwnersAre

(* Only one owner, in its cases. *)
LEMMA OneOfThem ==
    ASSUME Inv, NEW n \in Fd
    PROVE  /\ listen = n => /\ scp # n /\ n \notin peers
                            /\ \A a \in Addr \ stale : addr[a].socket # n
           /\ scp = n => /\ n \notin peers
                         /\ \A a \in Addr \ stale : addr[a].socket # n
           /\ listen = n \/ scp = n \/ n \in peers
                \/ (\E a \in Addr \ stale : addr[a].socket = n)
              <=> Open(n) /\ n \notin leaked
<1>1. \A o, p \in Owners(n) : o = p
  BY DEF Inv, TableOK, OwnerIsOne
<1>2. (Open(n) /\ n \notin leaked) <=> (\E o : o \in Owners(n))
  BY DEF Inv, TableOK, OwnedIffOpen
<1>3. \A o : o \in Owners(n) <=>
             \/ o = "listen" /\ listen = n
             \/ o = "scp" /\ scp = n
             \/ o = "peer" /\ n \in peers
             \/ o \in Addr /\ o \notin stale /\ addr[o].socket = n
  BY OwnersAre
<1>4. "listen" \notin Addr /\ "scp" \notin Addr /\ "peer" \notin Addr
  BY AddrAssumption
<1> QED
  BY <1>1, <1>2, <1>3, <1>4

(* The table after a socket was made, and bound, listening or connecting.  *)
LEMMA SetKind ==
    ASSUME SockTypeOK, NEW n \in Fd, NEW table \in SetNonblock(sockio_new_socket(n), n)
    PROVE  \E b \in BOOLEAN :
              /\ table = [sock EXCEPT ![n] = [kind |-> "socket", nonblock |-> b]]
              /\ sockio_bind_sock(table, n) = [sock EXCEPT ![n] = [kind |-> "bound", nonblock |-> b]]
              /\ Listens(table, n) = [sock EXCEPT ![n] = [kind |-> "listening", nonblock |-> b]]
              /\ sockio_connect_sock(table, n) =
                    {table, [sock EXCEPT ![n] = [kind |-> "connecting", nonblock |-> b]]}
<1>1. PICK b \in BOOLEAN : table = [sock EXCEPT ![n] = [kind |-> "socket", nonblock |-> b]]
  BY DEF SetNonblock, sockio_new_socket, SockTypeOK, Descriptor
<1>2. ASSUME NEW k
      PROVE  [table EXCEPT ![n].kind = k] = [sock EXCEPT ![n] = [kind |-> k, nonblock |-> b]]
  <2> DEFINE r == [kind |-> k, nonblock |-> b]
  <2>1. table[n] = [kind |-> "socket", nonblock |-> b] /\ DOMAIN table = Fd /\ DOMAIN sock = Fd
        /\ \A m \in Fd \ {n} : table[m] = sock[m]
    BY <1>1 DEF SockTypeOK
  <2>2. [table[n] EXCEPT !.kind = k] = r
    BY <2>1
  <2>3. [table EXCEPT ![n].kind = k] = [table EXCEPT ![n] = r]
    BY <2>2, Zenon
  <2> HIDE DEF r
  <2>4. [table EXCEPT ![n] = r] = [sock EXCEPT ![n] = r]
    BY <2>1
  <2> QED
    BY <2>3, <2>4 DEF r
<1> QED
  BY <1>1, <1>2 DEF sockio_bind_sock, Listens, sockio_connect_sock

(* What tcp_initialize leaves, however it ends: the descriptors the method *)
(* holds now were closed, what it held before is lost, and so is what it   *)
(* opened and does not hold.                                               *)
Reopened ==
    /\ UNCHANGED <<io, stream, addr, peers, stale>>
    /\ SockTypeOK'
    /\ method' \in {"failed", "server", "client"}
    /\ listen' \in Fd \cup {-1} /\ scp' \in Fd \cup {-1}
    /\ \A k \in Fd : sock[k].kind # "closed" => sock'[k] = sock[k]
    /\ \A k \in Fd : sock[k].kind = "closed" =>
          (sock'[k].kind # "closed" <=> k = listen' \/ k = scp' \/ k \in leaked')
    /\ \A k \in Fd : k = listen' \/ k = scp' => sock[k].kind = "closed"
    /\ leaked' \in SUBSET Fd /\ Lost \subseteq leaked'
    /\ \A k \in leaked' \ Lost : sock[k].kind = "closed"
    /\ \A k \in Fd : ~(k = listen' /\ k = scp')
    /\ \A k \in leaked' \ Lost : k # listen' /\ k # scp'
    /\ members' \subseteq Fd

LEMMA InitializeReopens ==
    ASSUME Inv, tcp_initialize
    PROVE  Reopened
<1> USE SockAssumption
<1>1. \A n \in Fd : n # -1 /\ n \in Int
  BY DEF Fd
<1>2. TypeOK /\ Lost \subseteq Fd
  BY DEF Inv, TypeOK, Lost
<1>3. \A k \in Lost : k \in Fd /\ sock[k].kind # "closed"
  BY <1>2, ClosedHasNoOwner DEF Lost
<1>4. ASSUME NEW n \in Fd, InitServerFails(n) PROVE Reopened
  <2>1. CASE UNCHANGED sock /\ listen' = -1
    BY <1>1, <1>2, <1>3, <1>4, <2>1 DEF InitServerFails, Reopened, TypeOK, SockTypeOK, stream
  <2>2. CASE /\ Lowest(n)
             /\ \E table \in NewSocket(n) :
                   sock' \in {table, sockio_bind_sock(table, n), Listens(table, n)}
             /\ listen' = n
    <3>1. PICK e \in [kind : {"socket", "bound", "listening"}, nonblock : BOOLEAN] :
            sock' = [sock EXCEPT ![n] = e]
      <4>1. PICK b \in BOOLEAN, k \in {"socket", "bound", "listening"} :
              sock' = [sock EXCEPT ![n] = [kind |-> k, nonblock |-> b]]
        <5>1. PICK table \in SetNonblock(sockio_new_socket(n), n) :
                sock' \in {table, sockio_bind_sock(table, n), Listens(table, n)}
          BY <2>2 DEF NewSocket
        <5>2. SockTypeOK
          BY <1>2 DEF TypeOK
        <5> QED
          BY <5>1, <5>2, SetKind
      <4> QED
        BY <4>1
    <3>2. SockTypeOK'
      BY <1>2, <1>4, <3>1 DEF InitServerFails, TypeOK, SockTypeOK, Descriptor, stream
    <3> QED
      BY <1>1, <1>2, <1>3, <1>4, <2>2, <3>1, <3>2
      DEF InitServerFails, Reopened, TypeOK, SockTypeOK, Lowest
  <2> QED
    BY <1>4, <2>1, <2>2 DEF InitServerFails
<1>5. ASSUME NEW n \in Fd, InitClient(n) PROVE Reopened
  <2>1. SockTypeOK'
    BY <1>2, <1>5 DEF InitClient, TypeOK, SockTypeOK, Descriptor, Epoll, stream
  <2> QED
    BY <1>1, <1>2, <1>3, <1>5, <2>1
    DEF InitClient, Reopened, TypeOK, SockTypeOK, Epoll, Lowest
<1>6. ASSUME NEW n \in Fd, NEW m \in Fd, InitServer(n, m) \/ InitServerUnpolled(n, m)
      PROVE  Reopened
  <2>1. /\ sock' \in Server(n, m)
        /\ UNCHANGED <<io, stream, addr, peers, stale>>
        /\ n # m /\ sock[n].kind = "closed" /\ sock[m].kind = "closed"
        /\ listen' = n
    BY <1>6 DEF InitServer, InitServerUnpolled, Lowest
  <2>2. PICK b \in BOOLEAN :
          sock' = [sock EXCEPT ![n] = [kind |-> "listening", nonblock |-> b], ![m] = Epoll]
    <3>1. PICK table \in NewSocket(n) : sock' = [Listens(table, n) EXCEPT ![m] = Epoll]
      BY <2>1 DEF Server
    <3>2. PICK b \in BOOLEAN : Listens(table, n) = [sock EXCEPT ![n] = [kind |-> "listening", nonblock |-> b]]
      BY <1>2, SetKind DEF NewSocket, TypeOK
    <3> QED
      BY <3>1, <3>2, Zenon
  <2>3. /\ sock'[n].kind = "listening" /\ sock'[m].kind = "epoll"
        /\ \A k \in Fd \ {n, m} : sock'[k] = sock[k]
    BY <1>2, <2>1, <2>2 DEF TypeOK, SockTypeOK, Epoll
  <2>4. SockTypeOK'
    BY <1>2, <2>1, <2>2 DEF TypeOK, SockTypeOK, Descriptor, Epoll, stream
  <2>5. CASE InitServer(n, m)
    BY <1>1, <1>2, <1>3, <2>1, <2>2, <2>3, <2>4, <2>5 DEF InitServer, Reopened
  <2>6. CASE InitServerUnpolled(n, m)
    BY <1>1, <1>2, <1>3, <2>1, <2>2, <2>3, <2>4, <2>6 DEF InitServerUnpolled, Reopened
  <2> QED
    BY <1>6, <2>5, <2>6
<1>7. ASSUME InitClientFails PROVE Reopened
  BY <1>1, <1>2, <1>3, <1>7 DEF InitClientFails, Reopened, TypeOK, SockTypeOK, sockVars, stream
<1> QED
  BY <1>4, <1>5, <1>6, <1>7 DEF tcp_initialize

LEMMA InitializeKeeps ==
    ASSUME Inv, tcp_initialize
    PROVE  TypeOK' /\ TableOK' /\ UNCHANGED <<io, stream>>
<1>0. Reopened
  BY InitializeReopens
<1>1. \A n \in Fd : n # -1 /\ n \in Int
  BY DEF Fd
<1>2. TypeOK'
  BY <1>0 DEF Inv, TypeOK, Reopened
<1>3. /\ leaked \subseteq leaked' /\ (listen # -1 => listen \in leaked')
      /\ (scp # -1 => scp \in leaked')
      /\ \A k \in leaked' : k \in leaked \/ k = listen \/ k = scp
                              \/ sock[k].kind = "closed"
      /\ \A k \in leaked' : k # listen' /\ k # scp'
  <2>1. \A k \in Lost : k \in Fd /\ sock[k].kind # "closed"
    BY ClosedHasNoOwner DEF Lost, Inv, TypeOK
  <2> QED
    BY <1>0, <2>1 DEF Reopened, Lost
<1>4. \A k \in Fd : Open(k)' <=> Open(k) \/ k = listen' \/ k = scp' \/ k \in leaked'
  BY <1>0, <1>3, ClosedHasNoOwner DEF Open, Reopened
<1>5. LeakedIsOpen' /\ HasNumber'
  BY <1>0, <1>2, <1>4 DEF LeakedIsOpen, HasNumber, TableOK, Inv, Reopened, TypeOK
<1>6. ASSUME NEW n \in Fd
      PROVE  /\ (Open(n) /\ n \notin leaked)' <=> (\E o : o \in Owners(n)')
             /\ \A o, p \in Owners(n)' : o = p
  <2>1. \A o : o \in Owners(n)' <=>
             \/ o = "listen" /\ listen' = n
             \/ o = "scp" /\ scp' = n
             \/ o = "peer" /\ n \in peers
             \/ o \in Addr /\ o \notin stale /\ addr[o].socket = n
    BY <1>0 DEF Owners, Reopened
  <2>2. CASE sock[n].kind = "closed"
    <3>1. n \notin peers /\ (\A a \in Addr \ stale : addr[a].socket # n)
      BY <2>2, ClosedHasNoOwner
    <3>2. ~Open(n)
      BY <2>2 DEF Open
    <3>3. ~(listen' = n /\ scp' = n)
      BY <1>0 DEF Reopened
    <3> QED
      BY <1>3, <1>4, <2>1, <3>1, <3>2, <3>3
  <2>3. CASE sock[n].kind # "closed"
    <3>1. listen' # n /\ scp' # n /\ Open(n) /\ Open(n)'
      BY <1>0, <1>4, <2>3 DEF Open, Reopened
    <3>2. \A o, p \in Owners(n) : o = p
      BY DEF Inv, TableOK, OwnerIsOne
    <3>3. \A o : o \in Owners(n)' => o \in Owners(n)
      BY <2>1, <3>1, OwnersAre
    <3>4. n \in leaked' => ~(n \in peers) /\ (\A a \in Addr \ stale : addr[a].socket # n)
      BY <1>1, <1>3, <2>3, OneOfThem
    <3>5. n \notin leaked' => n \in peers \/ (\E a \in Addr \ stale : addr[a].socket = n)
      BY <1>1, <1>3, <3>1, OneOfThem
    <3> QED
      BY <2>1, <3>1, <3>2, <3>3, <3>4, <3>5
  <2> QED
    BY <2>2, <2>3
<1>7. OwnedIffOpen' /\ OwnerIsOne'
  BY <1>6 DEF OwnedIffOpen, OwnerIsOne, Fd
<1> QED
  BY <1>0, <1>2, <1>5, <1>7 DEF TableOK, Reopened

-----------------------------------------------------------------------------
(* A new socket goes to the address or the caller that made it, and to     *)
(* nobody else: n was closed.                                              *)
LEMMA TakenKeeps ==
    ASSUME Inv, NEW n \in Fd, Lowest(n),
           \E e \in [kind : {"socket", "connecting", "peer"}, nonblock : BOOLEAN] :
               sock' = [sock EXCEPT ![n] = e],
           UNCHANGED <<io, stream, method, listen, scp, members, leaked, stale>>,
           \/ peers' = peers \cup {n} /\ UNCHANGED addr
           \/ \E a \in Addr : /\ addr[a].socket = -1
                              /\ addr' = Connect(a, n) /\ UNCHANGED peers
    PROVE  TypeOK' /\ TableOK'
<1>1. PICK e \in [kind : {"socket", "connecting", "peer"}, nonblock : BOOLEAN] :
        sock' = [sock EXCEPT ![n] = e]
  OBVIOUS
<1>2. \A k \in Fd : k # -1 /\ k \in Int
  BY SockAssumption DEF Fd
<1>3. TypeOK'
  <2>1. TypeOK
    BY DEF Inv
  <2>2. SockTypeOK'
    BY <1>1, <2>1 DEF TypeOK, SockTypeOK, Descriptor, stream
  <2>3. peers' \subseteq Fd
    BY <2>1 DEF TypeOK
  <2>4. addr' \in [Addr -> [socket : Fd \cup {-1}, is_connected : BOOLEAN]]
    <3>1. addr \in [Addr -> [socket : Fd \cup {-1}, is_connected : BOOLEAN]]
      BY <2>1 DEF TypeOK
    <3>2. [socket |-> n, is_connected |-> TRUE]
             \in [socket : Fd \cup {-1}, is_connected : BOOLEAN]
      OBVIOUS
    <3>3. \A a \in Addr : Connect(a, n)
             \in [Addr -> [socket : Fd \cup {-1}, is_connected : BOOLEAN]]
      BY <3>1, <3>2, Zenon DEF Connect
    <3> QED
      BY <3>1, <3>3
  <2> QED
    BY <2>1, <2>2, <2>3, <2>4 DEF TypeOK
<1>4. \A k \in Fd : sock'[k] = IF k = n THEN e ELSE sock[k]
  BY <1>1 DEF Inv, TypeOK, SockTypeOK
<1>5. \A k \in Fd : Open(k)' <=> Open(k) \/ k = n
  BY <1>4 DEF Open
<1>6. /\ ~Open(n) /\ n \notin leaked /\ listen # n /\ scp # n /\ n \notin peers
      /\ \A a \in Addr \ stale : addr[a].socket # n
  BY ClosedHasNoOwner DEF Lowest, Open
<1>7. LeakedIsOpen'
  BY <1>5 DEF LeakedIsOpen, TableOK, Inv, TypeOK
<1>8. HasNumber'
  BY <1>2 DEF HasNumber, TableOK, Inv, TypeOK, Connect
<1>9. ASSUME NEW k \in Fd
      PROVE  /\ (Open(k) /\ k \notin leaked)' <=> (\E o : o \in Owners(k)')
             /\ \A o, p \in Owners(k)' : o = p
  <2>1. /\ (Open(k) /\ k \notin leaked) <=> (\E o : o \in Owners(k))
        /\ \A o, p \in Owners(k) : o = p
    BY DEF Inv, TableOK, OwnedIffOpen, OwnerIsOne
  <2>2. \A o : o \in Owners(k)' <=>
             \/ o = "listen" /\ listen = k
             \/ o = "scp" /\ scp = k
             \/ o = "peer" /\ k \in peers'
             \/ o \in Addr /\ o \notin stale /\ addr'[o].socket = k
    BY DEF Owners
  <2>3. CASE peers' = peers \cup {n} /\ UNCHANGED addr
    <3>1. \A o : o \in Owners(k)' <=> o \in Owners(k) \/ (o = "peer" /\ k = n)
      BY <2>2, <2>3, OwnersAre
    <3>2. \A o : o \notin Owners(n)
      BY <1>6, OwnersAre
    <3> QED
      BY <1>5, <1>6, <2>1, <3>1, <3>2
  <2>4. ASSUME NEW a \in Addr, addr[a].socket = -1, addr' = Connect(a, n),
               UNCHANGED peers
        PROVE  /\ (Open(k) /\ k \notin leaked)' <=> (\E o : o \in Owners(k)')
               /\ \A o, p \in Owners(k)' : o = p
    <3>1. a \notin stale
      BY <2>4 DEF Inv, TableOK, HasNumber
    <3>2. \A b \in Addr : addr'[b].socket = IF b = a THEN n ELSE addr[b].socket
      BY <2>4 DEF Connect, Inv, TypeOK
    <3>3. \A o : o \in Owners(k)' <=> o \in Owners(k) \/ (o = a /\ k = n)
      BY <1>2, <2>2, <2>4, <3>1, <3>2, OwnersAre
    <3>4. \A o : o \notin Owners(n)
      BY <1>6, OwnersAre
    <3> QED
      BY <1>5, <1>6, <2>1, <3>3, <3>4
  <2> QED
    BY <2>3, <2>4
<1>10. OwnedIffOpen' /\ OwnerIsOne'
  BY <1>9 DEF OwnedIffOpen, OwnerIsOne, Fd
<1> QED
  BY <1>3, <1>7, <1>8, <1>10 DEF TableOK

(* A send and an accept keep the invariant. *)
LEMMA SendKeeps ==
    ASSUME Inv, NEW a \in Addr, tcp_send_generic(a)
    PROVE  TypeOK' /\ TableOK' /\ UNCHANGED <<io, stream>>
<1>1. ASSUME NEW n \in Fd, SendFirst(a, n)
      PROVE  TypeOK' /\ TableOK' /\ UNCHANGED <<io, stream>>
  <2>1. \E e \in [kind : {"socket", "connecting", "peer"}, nonblock : BOOLEAN] :
               sock' = [sock EXCEPT ![n] = e]
    <3>1. PICK table \in NewSocket(n) : sock' \in sockio_connect_sock(table, n)
      BY <1>1 DEF SendFirst
    <3>2. SockTypeOK
      BY DEF Inv, TypeOK
    <3>3. PICK b \in BOOLEAN, k \in {"socket", "connecting"} :
            sock' = [sock EXCEPT ![n] = [kind |-> k, nonblock |-> b]]
      <4>1. table \in SetNonblock(sockio_new_socket(n), n)
        BY DEF NewSocket
      <4> QED
        BY <3>1, <3>2, <4>1, SetKind
    <3> QED
      BY <3>3
  <2> QED
    BY <1>1, <2>1, TakenKeeps DEF SendFirst
<1>2. ASSUME NEW n \in Fd, SendOptionFails(a, n)
      PROVE  TypeOK' /\ TableOK' /\ UNCHANGED <<io, stream>>
  <2>1. /\ addr[a].socket = -1 /\ addr' = [addr EXCEPT ![a].socket = n]
        /\ stale' = stale \cup {a}
        /\ UNCHANGED <<sockVars, method, listen, scp, members, peers, leaked>>
    BY <1>2 DEF SendOptionFails
  <2>2. \A k \in Fd : k # -1
    BY SockAssumption DEF Fd
  <2>3. TypeOK'
    BY <2>1 DEF Inv, TypeOK, SockTypeOK, sockVars, stream
  <2>4. \A k \in Fd : Owners(k)' = Owners(k)
    BY <2>1, <2>2 DEF Owners, Inv, TypeOK
  <2>5. OwnedIffOpen' /\ OwnerIsOne'
    BY <2>1, <2>4 DEF OwnedIffOpen, OwnerIsOne, TableOK, Inv, Open, sockVars, Fd
  <2>6. LeakedIsOpen' /\ HasNumber'
    BY <2>1, <2>2 DEF LeakedIsOpen, HasNumber, TableOK, Inv, TypeOK, Open, sockVars
  <2> QED
    BY <2>1, <2>3, <2>5, <2>6 DEF TableOK, sockVars
<1>3. ASSUME SendOnStale(a)
      PROVE  TypeOK' /\ TableOK' /\ UNCHANGED <<io, stream>>
  <2>1. /\ addr[a].socket # -1 /\ addr' = [addr EXCEPT ![a].is_connected = TRUE]
        /\ UNCHANGED <<sockVars, method, listen, scp, members, peers, leaked, stale>>
    BY <1>3 DEF SendOnStale
  <2>2. \A b \in Addr : addr'[b].socket = addr[b].socket
    BY <2>1 DEF Inv, TypeOK
  <2>3. TypeOK'
    BY <2>1 DEF Inv, TypeOK, SockTypeOK, sockVars, stream
  <2>4. \A k \in Fd : Owners(k)' = Owners(k)
    BY <2>1, <2>2 DEF Owners
  <2>5. OwnedIffOpen' /\ OwnerIsOne'
    BY <2>1, <2>4 DEF OwnedIffOpen, OwnerIsOne, TableOK, Inv, Open, sockVars, Fd
  <2>6. LeakedIsOpen' /\ HasNumber'
    BY <2>1, <2>2 DEF LeakedIsOpen, HasNumber, TableOK, Inv, TypeOK, Open, sockVars
  <2> QED
    BY <2>1, <2>3, <2>5, <2>6 DEF TableOK, sockVars
<1> QED
  BY <1>1, <1>2, <1>3 DEF tcp_send_generic

LEMMA AcceptKeeps ==
    ASSUME Inv, NEW n \in Fd, tcp_accept_init(n)
    PROVE  TypeOK' /\ TableOK' /\ UNCHANGED <<io, stream>>
<1>1. \E e \in [kind : {"socket", "connecting", "peer"}, nonblock : BOOLEAN] :
          sock' = [sock EXCEPT ![n] = e]
  BY DEF tcp_accept_init, SetNonblock, Inv, TypeOK, SockTypeOK, Descriptor
<1> QED
  BY <1>1, TakenKeeps DEF tcp_accept_init

-----------------------------------------------------------------------------
(* The invariants of the run. *)

(* What the TCP method reaches satisfies Inv. *)
THEOREM NetInvariant == Spec => []Inv
<1>1. Inv /\ [Next]_vars => Inv'
  <2> SUFFICES ASSUME Inv, [Next]_vars PROVE Inv'
    OBVIOUS
  <2>1. ASSUME UNCHANGED <<sock, tcpVars>>, SockTypeOK', StreamsOK' PROVE Inv'
    <3>1. TypeOK'
      BY <2>1 DEF Inv, TypeOK, tcpVars
    <3>2. \A n \in Fd : Owners(n)' = Owners(n) /\ (Open(n)' <=> Open(n))
      BY <2>1 DEF Owners, Open, tcpVars
    <3>3. OwnedIffOpen' /\ OwnerIsOne'
      BY <2>1, <3>2 DEF OwnedIffOpen, OwnerIsOne, TableOK, Inv, tcpVars, Fd
    <3>4. LeakedIsOpen' /\ HasNumber'
      BY <2>1, <3>2 DEF LeakedIsOpen, HasNumber, TableOK, Inv, TypeOK, tcpVars
    <3> QED
      BY <2>1, <3>1, <3>3, <3>4 DEF Inv, TableOK
  <2>2. CASE Transfer(Held) /\ UNCHANGED tcpVars
    BY <2>1, <2>2, TransferKeeps
  <2>3. ASSUME UNCHANGED <<io, stream>> PROVE StreamsOK'
    <3>1. io' = io /\ pos' = pos /\ got' = got /\ dropped' = dropped
      BY <2>3 DEF stream
    <3> QED
      BY <3>1 DEF Inv, StreamsOK, SendKeepsAll, ReceivedSoFar, Settled, Base
  <2>4. CASE tcp_initialize
    BY <2>3, <2>4, InitializeKeeps DEF Inv
  <2>5. ASSUME NEW a \in Addr, tcp_send_generic(a) PROVE Inv'
    BY <2>3, <2>5, SendKeeps DEF Inv
  <2>6. ASSUME NEW n \in Fd, tcp_accept_init(n) PROVE Inv'
    BY <2>3, <2>6, AcceptKeeps DEF Inv
  <2>7. CASE UNCHANGED vars
    <3>1. UNCHANGED <<sock, tcpVars>> /\ UNCHANGED <<io, stream>>
      BY <2>7 DEF vars, sockVars
    <3>2. SockTypeOK'
      BY <3>1 DEF Inv, TypeOK, SockTypeOK, stream
    <3> QED
      BY <2>1, <2>3, <3>1, <3>2
  <2> QED
    BY <2>2, <2>4, <2>5, <2>6, <2>7 DEF Next
<1> QED
  BY InitInv, <1>1, PTL DEF Spec

(* TypeOK holds for any number of descriptors and transfers of any length. *)
THEOREM NetTypes == Spec => []TypeOK
<1>1. Inv => TypeOK
  BY DEF Inv
<1> QED
  BY NetInvariant, <1>1, PTL

(* However recv cuts the bytes up, and however many calls take them: what  *)
(* nbrecv returned is what left the socket, once and in its order, but for *)
(* the bytes of calls that failed.                                         *)
THEOREM NetReceivesTheStream == Spec => []RecvTakesTheStream
<1>1. Inv => RecvTakesTheStream
  BY DEF Inv, StreamsOK, Base, Settled, AllBut, RecvTakesTheStream
<1> QED
  BY NetInvariant, <1>1, PTL

(* A descriptor is held by one party at most, and by one exactly while it  *)
(* is open and was not lost by a failed tcp_initialize.                    *)
THEOREM NetHasOneOwnerEach == Spec => []OneOwnerEach
<1>1. Inv => OneOwnerEach
  <2> SUFFICES ASSUME Inv, NEW n \in Fd
               PROVE  /\ Cardinality(Owners(n)) =
                            (IF Open(n) /\ n \notin leaked THEN 1 ELSE 0)
                      /\ n \in leaked => Open(n)
    BY DEF OneOwnerEach
  <2>1. n \in leaked => Open(n)
    BY DEF Inv, TableOK, LeakedIsOpen
  <2>2. CASE Open(n) /\ n \notin leaked
    <3>1. PICK o : o \in Owners(n)
      BY <2>2 DEF Inv, TableOK, OwnedIffOpen
    <3>2. Owners(n) = {o}
      BY <3>1 DEF Inv, TableOK, OwnerIsOne
    <3>3. Cardinality({o}) = 1
      BY FS_Singleton
    <3> QED
      BY <2>1, <2>2, <3>2, <3>3
  <2>3. CASE ~(Open(n) /\ n \notin leaked)
    <3>1. Owners(n) = {}
      BY <2>3 DEF Inv, TableOK, OwnedIffOpen
    <3> QED
      BY <2>1, <2>3, <3>1, FS_EmptySet
  <2> QED
    BY <2>2, <2>3
<1> QED
  BY NetInvariant, <1>1, PTL
=============================================================================
