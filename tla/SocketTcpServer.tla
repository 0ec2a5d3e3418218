--------------------------- MODULE SocketTcpServer ---------------------------
(***************************************************************************)
(* lwiot::SocketTcpServer (src/source/net/tcp/tcpclient.cpp) over the      *)
(* server half of the socket layer (src/unnamed/part_001):                 *)
(* server_socket_create, server_socket_bind_to, server_socket_listen,      *)
(* server_socket_accept and socket_close.                                  *)
(*                                                                         *)
(* Servers is the storage of the server objects; each is constructed,      *)
(* used and destroyed, possibly more than once.  Socks are the socket_t    *)
(* handles the layer allocates (never reused, so a stale handle stays      *)
(* recognisable), Endpoints the (address, port) pairs a server binds to.   *)
(* The operating system lets one socket at a time bind an endpoint.        *)
(* Sockets accepted from a server, and the client sockets the program      *)
(* opens with tcp_socket_create and udp_socket_create, belong to the       *)
(* client objects wrapping them, which close them in their own time.  A    *)
(* failed accept is wrapped too: the client objects holding NULL are the   *)
(* element Null of clients.                                                *)
(***************************************************************************)
EXTENDS Naturals

CONSTANTS
    Servers,            \* the SocketTcpServer objects
    Socks,              \* socket_t handles
    Endpoints,          \* bind (address, port) pairs
    DefaultEndpoint,    \* the endpoint of a default-constructed TcpServer
    Null,               \* nullptr
    MoveIntoEmptyOnly   \* the program closes a server before moving into it

ASSUME SocketTcpServerAssumption ==
    /\ Null \notin Socks
    /\ DefaultEndpoint \in Endpoints
    /\ MoveIntoEmptyOnly \in BOOLEAN

\* Life cycle of an operating system socket.
SockStates == {"unused", "open", "bound", "listening", "closed"}

VARIABLES
    live,      \* live[s]: server s is constructed and not destroyed
    sock,      \* sock[s]: its _socket
    endpoint,  \* endpoint[s]: its _bind_addr and _bind_port
    os,        \* os[k]: the state of socket k
    boundTo,   \* boundTo[k]: the endpoint k is bound to, or Null
    clients    \* sockets held by client objects (Null: a client without one)

vars == <<live, sock, endpoint, os, boundTo, clients>>

IsOpen(st, k) == st[k] \in {"open", "bound", "listening"}
Open(k) == IsOpen(os, k)

\* server_socket_create: a new socket, or NULL when socket() fails.
Created == {k \in Socks : os[k] = "unused"} \cup {Null}

\* The socket states st after server_socket_create returned k.
CreateSock(st, k) == IF k = Null THEN st ELSE [st EXCEPT ![k] = "open"]

\* The socket states st after close() of the handle k: socket_close
\* (closesocket, then the handle is freed) unless k is nullptr.
CloseSock(st, k) == IF k = Null THEN st ELSE [st EXCEPT ![k] = "closed"]

\* In socket states st, binding k to e succeeds iff k is not bound yet and
\* no open socket is bound to e.
BindOk(st, k, e) ==
    /\ k # Null
    /\ st[k] = "open"
    /\ ~\E j \in Socks : IsOpen(st, j) /\ boundTo[j] = e

Init ==
    /\ live = [s \in Servers |-> FALSE]
    /\ sock = [s \in Servers |-> Null]
    /\ endpoint = [s \in Servers |-> DefaultEndpoint]
    /\ os = [k \in Socks |-> "unused"]
    /\ boundTo = [k \in Socks |-> Null]
    /\ clients = {}

-----------------------------------------------------------------------------
(* Constructors and destructor                                             *)

\* SocketTcpServer(), SocketTcpServer(addr, port): store the endpoint and
\* create a socket.
Construct(s, e, k) ==
    /\ ~live[s]
    /\ live' = [live EXCEPT ![s] = TRUE]
    /\ endpoint' = [endpoint EXCEPT ![s] = e]
    /\ sock' = [sock EXCEPT ![s] = k]
    /\ os' = CreateSock(os, k)
    /\ UNCHANGED <<boundTo, clients>>

\* Mutant: a move constructor that leaves other._socket in place.
MoveConstructShares(s, o) ==
    /\ ~live[s] /\ live[o]
    /\ live' = [live EXCEPT ![s] = TRUE]
    /\ endpoint' = [endpoint EXCEPT ![s] = endpoint[o]]
    /\ sock' = [sock EXCEPT ![s] = sock[o]]
    /\ UNCHANGED <<os, boundTo, clients>>

\* SocketTcpServer(SocketTcpServer &&other): take other's socket.
MoveConstruct(s, o) ==
    /\ ~live[s] /\ live[o]
    /\ live' = [live EXCEPT ![s] = TRUE]
    /\ endpoint' = [endpoint EXCEPT ![s] = endpoint[o]]
    /\ sock' = [sock EXCEPT ![s] = sock[o], ![o] = Null]
    /\ UNCHANGED <<os, boundTo, clients>>

\* ~SocketTcpServer(): close the socket if there is one.
Destroy(s) ==
    /\ live[s]
    /\ live' = [live EXCEPT ![s] = FALSE]
    /\ os' = CloseSock(os, sock[s])
    /\ sock' = [sock EXCEPT ![s] = Null]
    /\ UNCHANGED <<endpoint, boundTo, clients>>

-----------------------------------------------------------------------------
(* Members                                                                 *)

\* operator=(SocketTcpServer &&other): copy the endpoint, take other's
\* socket.  The socket this held is overwritten without being closed.
MoveAssign(s, o) ==
    /\ live[s] /\ live[o]
    /\ MoveIntoEmptyOnly => sock[s] = Null
    /\ endpoint' = [endpoint EXCEPT ![s] = endpoint[o]]
    /\ sock' = [[sock EXCEPT ![s] = sock[o]] EXCEPT ![o] = Null]
    /\ UNCHANGED <<live, os, boundTo, clients>>

\* Mutant: close() that frees the socket but keeps the handle.
CloseKeepsHandle(s) ==
    /\ live[s]
    /\ os' = CloseSock(os, sock[s])
    /\ UNCHANGED <<live, sock, endpoint, boundTo, clients>>

\* close(): a no-op without socket.
Close(s) ==
    /\ live[s]
    /\ os' = CloseSock(os, sock[s])
    /\ sock' = [sock EXCEPT ![s] = Null]
    /\ UNCHANGED <<live, endpoint, boundTo, clients>>

\* operator=(const SocketTcpServer &server): nothing if both hold the same
\* socket; otherwise close(), then bind(), which finds no socket and
\* fails.  The endpoint and socket of server are not copied.
CopyAssign(s, o) ==
    /\ live[s] /\ live[o]
    /\ IF sock[o] = sock[s]
       THEN UNCHANGED vars
       ELSE /\ os' = CloseSock(os, sock[s])
            /\ sock' = [sock EXCEPT ![s] = Null]
            /\ UNCHANGED <<live, endpoint, boundTo, clients>>

\* connect(): close the socket, if any, and create a new one (k).
Connect(s, k) ==
    /\ live[s]
    /\ k \in Created
    /\ os' = CreateSock(CloseSock(os, sock[s]), k)
    /\ sock' = [sock EXCEPT ![s] = k]
    /\ UNCHANGED <<live, endpoint, boundTo, clients>>

\* The socket states after bind() const on handle k for endpoint e:
\* server_socket_bind_to, then, if it succeeded, server_socket_listen,
\* which succeeds iff lok.  Without a socket, or when the bind fails,
\* nothing changes; a failed listen leaves the socket bound.
Listened(st, k, e, lok) ==
    IF BindOk(st, k, e)
    THEN [st EXCEPT ![k] = IF lok THEN "listening" ELSE "bound"]
    ELSE st
BoundAfter(st, k, e) ==
    IF BindOk(st, k, e) THEN [boundTo EXCEPT ![k] = e] ELSE boundTo

\* bind() const
Bind(s, lok) ==
    /\ live[s]
    /\ os' = Listened(os, sock[s], endpoint[s], lok)
    /\ boundTo' = BoundAfter(os, sock[s], endpoint[s])
    /\ UNCHANGED <<live, sock, endpoint, clients>>

\* bind(addr, port): TcpServer::bind stores the endpoint; connect() when
\* there is no socket (creating k); then bind().
BindTo(s, e, k, lok) ==
    /\ live[s]
    /\ k \in IF sock[s] = Null THEN Created ELSE {sock[s]}
    /\ endpoint' = [endpoint EXCEPT ![s] = e]
    /\ sock' = [sock EXCEPT ![s] = k]
    /\ LET st == IF sock[s] = Null THEN CreateSock(os, k) ELSE os
       IN  /\ os' = Listened(st, k, e, lok)
           /\ boundTo' = BoundAfter(st, k, e)
    /\ UNCHANGED <<live, clients>>

\* accept(): server_socket_accept on the server's socket (which asserts it
\* is not nullptr) yields the accepted socket c, or NULL when accept()
\* fails, as it does on a socket that is not listening; the result is
\* wrapped in a new SocketTcpClient, NULL included.
Accept(s, c) ==
    /\ live[s]
    /\ sock[s] # Null
    /\ c \in IF os[sock[s]] = "listening" THEN Created ELSE {Null}
    /\ os' = CreateSock(os, c)
    /\ clients' = clients \cup {c}
    /\ UNCHANGED <<live, sock, endpoint, boundTo>>

\* Mutant: a failed connect that does not close the new descriptor.
ClientConnectKeepsFd(c, ok) ==
    /\ os[c] = "unused"
    /\ os' = [os EXCEPT ![c] = "open"]
    /\ clients' = IF ok THEN clients \cup {c} ELSE clients
    /\ UNCHANGED <<live, sock, endpoint, boundTo>>

\* tcp_socket_create(remote): allocate handle c and connect it through
\* ip4_connect (ip6_connect always fails).  When socket() or connect()
\* fails (not ok), the descriptor is closed and the handle freed before
\* NULL is returned; otherwise the client holds the connected socket.
ClientConnect(c, ok) ==
    /\ os[c] = "unused"
    /\ os' = [os EXCEPT ![c] = IF ok THEN "open" ELSE "closed"]
    /\ clients' = IF ok THEN clients \cup {c} ELSE clients
    /\ UNCHANGED <<live, sock, endpoint, boundTo>>

\* udp_socket_create(remote): allocate handle c; when socket() fails (not
\* ok) the handle is freed and NULL returned.
UdpCreate(c, ok) ==
    /\ os[c] = "unused"
    /\ os' = [os EXCEPT ![c] = IF ok THEN "open" ELSE "closed"]
    /\ clients' = IF ok THEN clients \cup {c} ELSE clients
    /\ UNCHANGED <<live, sock, endpoint, boundTo>>

\* A client object closes its socket (none if it holds NULL).
CloseClient(c) ==
    /\ c \in clients
    /\ os' = CloseSock(os, c)
    /\ clients' = clients \ {c}
    /\ UNCHANGED <<live, sock, endpoint, boundTo>>

Next ==
    \/ \E s \in Servers :
          \/ Destroy(s) \/ Close(s)
          \/ \E lok \in BOOLEAN : Bind(s, lok)
          \/ \E e \in Endpoints, k \in Created :
                \/ Construct(s, e, k)
                \/ \E lok \in BOOLEAN : BindTo(s, e, k, lok)
          \/ \E k \in Created : Connect(s, k) \/ Accept(s, k)
          \/ \E o \in Servers :
                MoveConstruct(s, o) \/ MoveAssign(s, o) \/ CopyAssign(s, o)
    \/ \E c \in Socks \cup {Null} : CloseClient(c)
    \/ \E c \in Socks :
          \E ok \in BOOLEAN : ClientConnect(c, ok) \/ UdpCreate(c, ok)

Spec == Init /\ [][Next]_vars

-----------------------------------------------------------------------------
(* Properties                                                              *)

\* Type invariant: every server, socket and client object holds a value of
\* the code's types; a client object may hold NULL (a failed accept).
TypeOK ==
    /\ live \in [Servers -> BOOLEAN]
    /\ sock \in [Servers -> Socks \cup {Null}]
    /\ endpoint \in [Servers -> Endpoints]
    /\ os \in [Socks -> SockStates]
    /\ boundTo \in [Socks -> Endpoints \cup {Null}]
    /\ clients \subseteq Socks \cup {Null}

\* Every open operating system socket has exactly one owner, a live server
\* or a client: the move constructor hands the socket over, destroy and
\* close release it, and no member drops a socket without closing it.
OneOwnerPerSocket ==
    \A k \in Socks :
        Open(k) =>
            \/ k \in clients /\ ~\E s \in Servers : live[s] /\ sock[s] = k
            \/ k \notin clients /\ \E s \in Servers :
                   /\ live[s] /\ sock[s] = k
                   /\ \A r \in Servers \ {s} : ~(live[r] /\ sock[r] = k)

\* No live server holds a handle that has been closed (and freed): close()
\* and the moves clear the handles they give up, so no later bind,
\* accept or close uses a freed socket_t.
NoStaleHandle ==
    \A s \in Servers : live[s] /\ sock[s] # Null => Open(sock[s])

=============================================================================
