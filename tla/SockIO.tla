-------------------------------- MODULE SockIO --------------------------------
(***************************************************************************)
(* The socket calls of src/src/io/net/sockio.c: descriptors, and the       *)
(* transfers a thread makes on one.  The kernel is a table of descriptors, *)
(* the lowest closed one being the next; a call of it may fail.            *)
(*                                                                         *)
(* A transfer is a loop of recv or send, a step each, over a buffer of the *)
(* caller.  The bytes a socket delivers are 1, 2, 3, ..., whatever number  *)
(* of calls takes them; 0 is what was in the buffer before.                *)
(***************************************************************************)
EXTENDS Integers, Sequences

CONSTANTS Fds,     \* bound: descriptors
          MaxLen,  \* bound: bytes of a transfer
          MaxRx,   \* bound: bytes a socket delivers
          MaxTx    \* bound: bytes sent in one transfer

Fd == 0 .. Fds - 1

ASSUME SockAssumption ==
    /\ Fds \in Nat \ {0} /\ MaxLen \in Nat /\ MaxRx \in Nat /\ MaxTx \in Nat

VARIABLES sock,     \* what a descriptor is, and whether it has O_NONBLOCK
          io,       \* the transfer in progress, its buffer and how far it is
          pos,      \* bytes that left a socket so far
          got,      \* ghost: bytes the calls on a socket returned, in order
          dropped   \* ghost: bytes taken by a call that returned -1

stream   == <<pos, got, dropped>>
sockVars == <<sock, io, stream>>

Closed == [kind |-> "closed", nonblock |-> FALSE]
NoIo   == [op |-> "none", fd |-> 0, len |-> 0, comp |-> 0, at |-> 0, from |-> 0,
           tx |-> 0, buf |-> [j \in 1 .. MaxLen |-> 0]]

Descriptor == [kind : {"closed", "socket", "bound", "listening", "connecting",
                       "peer", "epoll"},
               nonblock : BOOLEAN]
Call == [op : {"none", "recv", "send", "aborted"}, fd : Fd, len : 0 .. MaxLen,
         comp : 0 .. MaxLen, at : 0 .. MaxLen, from : 0 .. MaxRx, tx : 0 .. MaxTx,
         buf : [1 .. MaxLen -> 0 .. MaxRx]]

SockTypeOK ==
    /\ sock \in [Fd -> Descriptor]
    /\ io \in Call
    /\ pos \in [Fd -> 0 .. MaxRx]
    /\ got \in [Fd -> Seq(0 .. MaxRx)]
    /\ dropped \in [Fd -> SUBSET (1 .. MaxRx)]

SockInit ==
    /\ sock = [n \in Fd |-> Closed]
    /\ io = NoIo
    /\ pos = [n \in Fd |-> 0]
    /\ got = [n \in Fd |-> <<>>] /\ dropped = [n \in Fd |-> {}]

Lowest(n) == sock[n].kind = "closed" /\ \A m \in Fd : m < n => sock[m].kind # "closed"
Open(n)   == n \in Fd /\ sock[n].kind # "closed"

(* The table after descriptor n became a socket, was set not to block, was *)
(* bound, listened, and began to connect.  A connect that answers fails or *)
(* is in progress; nothing is connected if the host is no address.  bind   *)
(* and connect are called again on EINTR.                                  *)
sockio_new_socket(n) == [sock EXCEPT ![n] = [kind |-> "socket", nonblock |-> FALSE]]
sockio_bind_sock(table, n) == [table EXCEPT ![n].kind = "bound"]
sockio_connect_sock(table, n) == {table, [table EXCEPT ![n].kind = "connecting"]}

(* Every caller ignores whether its two fcntls failed. *)
SetNonblock(table, n) == {table, [table EXCEPT ![n].nonblock = TRUE]}

-----------------------------------------------------------------------------
(* Both transfers assert that fcntl(F_GETFL) has O_NONBLOCK: its -1 for a  *)
(* number that is closed has every bit.  A failed assertion is the end.    *)
Asserted(n) == sock[n].kind = "closed" \/ sock[n].nonblock

Begins(op, n, len) ==
    /\ io.op = "none"
    /\ io' = IF Asserted(n)
             THEN [NoIo EXCEPT !.op = op, !.fd = n, !.len = len, !.comp = len,
                               !.from = pos[n]]
             ELSE [NoIo EXCEPT !.op = "aborted", !.fd = n]
    /\ UNCHANGED <<sock, stream>>

nbrecv(n, len) == Begins("recv", n, len)
nbsend(n, len) == Begins("send", n, len)

(* Sockets that can have something to receive, or take something to send;  *)
(* a call on any other descriptor is an error.                             *)
HasPeer(n) == sock[n].kind \in {"connecting", "peer"}

(* The buffer with the next n bytes of the stream behind its first `at'. *)
Received(at, n) ==
    [j \in 1 .. MaxLen |-> IF at < j /\ j <= at + n THEN pos[io.fd] + j - at
                           ELSE io.buf[j]]

(* Mutant: the buffer does not move on. *)
RecvInPlace(n) ==
    /\ io.op = "recv" /\ n \in 1 .. io.comp /\ HasPeer(io.fd)
    /\ pos[io.fd] + n <= MaxRx
    /\ io' = [io EXCEPT !.comp = @ - n, !.buf = Received(0, n)]
    /\ pos' = [pos EXCEPT ![io.fd] = @ + n]
    /\ UNCHANGED <<sock, got, dropped>>

(* Mutant: recv is asked for len bytes again. *)
RecvLen(n) ==
    /\ io.op = "recv" /\ n \in 1 .. io.len /\ io.comp > 0 /\ HasPeer(io.fd)
    /\ pos[io.fd] + n <= MaxRx
    /\ io' = [io EXCEPT !.comp = @ - n, !.at = @ + n, !.buf = Received(io.at, n)]
    /\ pos' = [pos EXCEPT ![io.fd] = @ + n]
    /\ UNCHANGED <<sock, got, dropped>>

RecvSome(n) ==
    /\ io.op = "recv" /\ n \in 1 .. io.comp /\ HasPeer(io.fd)
    /\ pos[io.fd] + n <= MaxRx
    /\ io' = [io EXCEPT !.comp = @ - n, !.at = @ + n, !.buf = Received(io.at, n)]
    /\ pos' = [pos EXCEPT ![io.fd] = @ + n]
    /\ UNCHANGED <<sock, got, dropped>>

(* All of it is there, or no more for now: the caller has as many bytes as *)
(* it returns, len - comp.                                                 *)
RecvReturns ==
    /\ io.op = "recv" /\ (io.comp = 0 \/ HasPeer(io.fd))
    /\ got' = [got EXCEPT ![io.fd] = @ \o SubSeq(io.buf, 1, io.len - io.comp)]
    /\ io' = NoIo
    /\ UNCHANGED <<sock, pos, dropped>>

(* The peer closed, or an error: it returns -1, and what this call         *)
(* received has left the socket.                                           *)
RecvFails ==
    /\ io.op = "recv" /\ io.comp > 0
    /\ dropped' = [dropped EXCEPT ![io.fd] = @ \cup (io.from + 1 .. pos[io.fd])]
    /\ io' = NoIo
    /\ UNCHANGED <<sock, pos, got>>

-----------------------------------------------------------------------------
(* sockio_nbsend.  `ret = 0 || ...' assigns: unless the call would block,  *)
(* ret is 0, comp and buf stay as they are and the loop sends the same     *)
(* bytes again.  An error other than EWOULDBLOCK is one more turn of the   *)
(* loop, so that on a descriptor without a peer the call never returns.    *)
SendSome(n) ==
    /\ io.op = "send" /\ n \in 1 .. io.comp /\ HasPeer(io.fd)
    /\ io.tx + n <= MaxTx
    /\ io' = [io EXCEPT !.tx = @ + n]
    /\ UNCHANGED <<sock, stream>>

(* It would block, or there was nothing to send: it returns 0. *)
SendReturns ==
    /\ io.op = "send" /\ (io.comp = 0 \/ HasPeer(io.fd))
    /\ io' = NoIo
    /\ UNCHANGED <<sock, stream>>

(* A transfer of a caller that holds the descriptors of Held. *)
Transfer(Held) ==
    \/ \E n \in Held, len \in 0 .. MaxLen : nbrecv(n, len) \/ nbsend(n, len)
    \/ \E n \in 1 .. MaxLen : RecvSome(n) \/ SendSome(n)
    \/ RecvReturns \/ RecvFails \/ SendReturns

-----------------------------------------------------------------------------
(* Whatever recv cut the bytes of a socket into, and however many calls    *)
(* took them, some of which failed halfway: the calls returned every byte  *)
(* that left the socket once and in its order, except those a call that    *)
(* failed had taken.  (sockio_nbrecv)                                      *)
Ascending(s) == \A i, j \in DOMAIN s : i < j => s[i] < s[j]
BytesOf(s)   == {s[i] : i \in DOMAIN s}

RecvTakesTheStream ==
    \A n \in Fd : ~(io.op = "recv" /\ io.fd = n) =>
        /\ Ascending(got[n])
        /\ BytesOf(got[n]) = (1 .. pos[n]) \ dropped[n]
=============================================================================
