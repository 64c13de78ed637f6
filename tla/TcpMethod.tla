------------------------------- MODULE TcpMethod -------------------------------
(***************************************************************************)
(* The TCP method (src/src/io/net/tcp.c) with its socket collection        *)
(* (socket-collection.c), over the socket calls of SockIO: a listening     *)
(* socket and an epoll descriptor made by tcp_initialize, a socket per     *)
(* address made by the first send, and sockets that were accepted.         *)
(*                                                                         *)
(* An address is what callers pass; its socket is a number, and -1 before  *)
(* it has one.  The answer of connect is not looked at.  tcp_accept_init   *)
(* is static and not called in the file, and nothing calls the transfers   *)
(* yet: they are modelled as what a caller can make of them, on the        *)
(* sockets it was given.                                                   *)
(***************************************************************************)
EXTENDS SockIO, FiniteSets

CONSTANTS Addr

(* The names of the other owners of descriptors are no addresses. *)
ASSUME AddrAssumption == Addr \cap {"listen", "scp", "peer"} = {}

VARIABLES method,  \* "none", "failed", "server" or "client"
          listen,  \* listen_addr->socket
          scp,     \* the epoll descriptor of the collection
          members, \* what is in it
          addr,    \* struct tcp_addr: socket and is_connected
          peers,   \* accepted sockets, held by the caller
          leaked,  \* ghost: open descriptors nobody can name any more
          stale    \* ghost: addresses that kept the number of a closed socket

tcpVars == <<method, listen, scp, members, addr, peers, leaked, stale>>
vars    == <<sockVars, tcpVars>>

TypeOK ==
    /\ SockTypeOK
    /\ method \in {"none", "failed", "server", "client"}
    /\ listen \in Fd \cup {-1} /\ scp \in Fd \cup {-1} /\ members \subseteq Fd
    /\ addr \in [Addr -> [socket : Fd \cup {-1}, is_connected : BOOLEAN]]
    /\ peers \subseteq Fd /\ leaked \subseteq Fd /\ stale \subseteq Addr

Init ==
    /\ SockInit
    /\ method = "none" /\ listen = -1 /\ scp = -1 /\ members = {}
    /\ addr = [a \in Addr |-> [socket |-> -1, is_connected |-> FALSE]]
    /\ peers = {} /\ leaked = {} /\ stale = {}

-----------------------------------------------------------------------------
(* tcp_initialize.  A program tries again when it failed; what the first   *)
(* try had opened is not closed.                                           *)
Again == method \in {"none", "failed"}
Lost  == leaked \cup ({listen, scp} \ {-1})

Epoll == [kind |-> "epoll", nonblock |-> FALSE]

(* The socket of a server, n, and what becomes of it. *)
NewSocket(n)     == SetNonblock(sockio_new_socket(n), n)
Listens(table, n) == [table EXCEPT ![n].kind = "listening"]
Server(n, m)     == {[Listens(table, n) EXCEPT ![m] = Epoll] : table \in NewSocket(n)}

(* tcp_server_init, then socket_collection_init: n listens and m polls it. *)
InitServer(n, m) ==
    /\ Again
    /\ Lowest(n) /\ m # n /\ sock[m].kind = "closed"
    /\ \A k \in Fd \ {n} : k < m => sock[k].kind # "closed"
    /\ sock' \in Server(n, m)
    /\ method' = "server" /\ listen' = n /\ scp' = m /\ members' = {n}
    /\ leaked' = Lost
    /\ UNCHANGED <<io, stream, addr, peers, stale>>

(* No socket; or bind, listen or epoll_create fails, and n stays open.     *)
InitServerFails(n) ==
    /\ Again
    /\ \/ UNCHANGED sock /\ listen' = -1
       \/ /\ Lowest(n)
          /\ \E table \in NewSocket(n) :
                sock' \in {table, sockio_bind_sock(table, n), Listens(table, n)}
          /\ listen' = n
    /\ method' = "failed" /\ scp' = -1 /\ members' = {}
    /\ leaked' = Lost
    /\ UNCHANGED <<io, stream, addr, peers, stale>>

(* epoll_ctl fails: the collection is freed, its descriptor m stays open.  *)
InitServerUnpolled(n, m) ==
    /\ Again
    /\ Lowest(n) /\ m # n /\ sock[m].kind = "closed"
    /\ \A k \in Fd \ {n} : k < m => sock[k].kind # "closed"
    /\ sock' \in Server(n, m)
    /\ method' = "failed" /\ listen' = n /\ scp' = -1 /\ members' = {}
    /\ leaked' = Lost \cup {m}
    /\ UNCHANGED <<io, stream, addr, peers, stale>>

InitClient(m) ==
    /\ Again
    /\ Lowest(m)
    /\ sock' = [sock EXCEPT ![m] = Epoll]
    /\ method' = "client" /\ listen' = -1 /\ scp' = m /\ members' = {}
    /\ leaked' = Lost
    /\ UNCHANGED <<io, stream, addr, peers, stale>>

InitClientFails ==
    /\ Again
    /\ method' = "failed" /\ listen' = -1 /\ scp' = -1 /\ members' = {}
    /\ leaked' = Lost
    /\ UNCHANGED <<sockVars, addr, peers, stale>>

tcp_initialize == \/ \E n \in Fd : InitServerFails(n) \/ InitClient(n)
                  \/ \E n, m \in Fd : InitServer(n, m) \/ InitServerUnpolled(n, m)
                  \/ InitClientFails

-----------------------------------------------------------------------------
(* tcp_send_generic, as far as it goes: an address that is not connected   *)
(* gets a socket, and is connected.                                        *)
Connect(a, n) == [addr EXCEPT ![a] = [socket |-> n, is_connected |-> TRUE]]

(* Mutant: an address that has a socket gets another. *)
SendAlwaysNew(a, n) ==
    /\ Lowest(n)
    /\ \E table \in NewSocket(n) : sock' \in sockio_connect_sock(table, n)
    /\ addr' = Connect(a, n)
    /\ UNCHANGED <<io, stream, method, listen, scp, members, peers, leaked, stale>>

SendFirst(a, n) ==
    /\ ~addr[a].is_connected /\ addr[a].socket = -1
    /\ Lowest(n)
    /\ \E table \in NewSocket(n) : sock' \in sockio_connect_sock(table, n)
    /\ addr' = Connect(a, n)
    /\ UNCHANGED <<io, stream, method, listen, scp, members, peers, leaked, stale>>

(* TCP_NODELAY cannot be set: the socket is closed and the address keeps   *)
(* its number.                                                             *)
SendOptionFails(a, n) ==
    /\ ~addr[a].is_connected /\ addr[a].socket = -1
    /\ Lowest(n)
    /\ addr' = [addr EXCEPT ![a].socket = n]
    /\ stale' = stale \cup {a}
    /\ UNCHANGED <<sockVars, method, listen, scp, members, peers, leaked>>

(* The next send of such an address takes the number for its connection.   *)
SendOnStale(a) ==
    /\ ~addr[a].is_connected /\ addr[a].socket # -1
    /\ addr' = [addr EXCEPT ![a].is_connected = TRUE]
    /\ UNCHANGED <<sockVars, method, listen, scp, members, peers, leaked, stale>>

tcp_send_generic(a) ==
    SendOnStale(a) \/ \E n \in Fd : SendFirst(a, n) \/ SendOptionFails(a, n)

(* tcp_accept_init; a socket whose option cannot be set is closed again,   *)
(* and nothing has changed.                                                *)
tcp_accept_init(n) ==
    /\ listen # -1 /\ sock[listen].kind = "listening"
    /\ Lowest(n)
    /\ sock' \in SetNonblock([sock EXCEPT ![n] = [kind |-> "peer", nonblock |-> FALSE]], n)
    /\ peers' = peers \cup {n}
    /\ UNCHANGED <<io, stream, method, listen, scp, members, addr, leaked, stale>>

-----------------------------------------------------------------------------
(* The numbers callers have: of a socket that was accepted, and of an      *)
(* address tcp_send_generic took for connected.                            *)
Held == peers \cup {addr[a].socket : a \in {b \in Addr : addr[b].is_connected}}

(* A transfer is one call: no other runs before it returned. *)
Next ==
    \/ Transfer(Held) /\ UNCHANGED tcpVars
    \/ /\ io.op = "none"
       /\ \/ tcp_initialize
          \/ \E a \in Addr : tcp_send_generic(a)
          \/ \E n \in Fd : tcp_accept_init(n)

Spec == Init /\ [][Next]_vars

-----------------------------------------------------------------------------
(* Who holds an open descriptor: the listening address, the collection, a  *)
(* caller that accepted it, or the addresses whose socket it is.           *)
Owners(n) ==
    {o \in {"listen", "scp", "peer"} :
        \/ o = "listen" /\ listen = n
        \/ o = "scp" /\ scp = n
        \/ o = "peer" /\ n \in peers}
    \cup {a \in Addr \ stale : addr[a].socket = n}

(* Every open descriptor has one owner, or was lost when tcp_initialize    *)
(* failed; and every descriptor that has an owner is open.  Addresses that *)
(* kept the number of a closed socket are not owners: two of them, or one  *)
(* and an accepted socket, can have the same number.                       *)
OneOwnerEach ==
    \A n \in Fd :
        /\ Cardinality(Owners(n)) = (IF Open(n) /\ n \notin leaked THEN 1 ELSE 0)
        /\ n \in leaked => Open(n)
=============================================================================
