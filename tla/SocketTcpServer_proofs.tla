------------------------ MODULE SocketTcpServer_proofs ------------------------
(***************************************************************************)
(* Proofs that SocketTcpServer never leaks, shares or keeps a freed socket *)
(* handle, for any number of servers, sockets and endpoints, when the      *)
(* program moves only into a server without a socket.                      *)
(***************************************************************************)
EXTENDS SocketTcpServer, TLAPS

\* A server object that is not alive holds no socket: the destructor
\* closes and forgets it, and the constructors only fill dead storage.
DeadNull == \A s \in Servers : ~live[s] => sock[s] = Null

\* A client object's socket is open: only the client closes it.  (A client
\* wrapping a failed accept holds no socket.)
ClientsOpen == \A k \in clients \ {Null} : Open(k)

\* The two properties together with DeadNull and ClientsOpen are
\* inductive: an unused handle (the only kind server_socket_create,
\* accept and the client constructors hand out) is held by nobody.
IInv ==
    /\ TypeOK
    /\ OneOwnerPerSocket
    /\ NoStaleHandle
    /\ DeadNull
    /\ ClientsOpen

LEMMA InitIInv == Init => IInv
BY SocketTcpServerAssumption
   DEF Init, IInv, TypeOK, OneOwnerPerSocket, NoStaleHandle, DeadNull,
       ClientsOpen, Open, IsOpen, SockStates


\* A handle the layer can still hand out is held by nobody.
LEMMA UnusedFree ==
    ASSUME IInv, NEW k \in Socks, os[k] = "unused"
    PROVE  /\ k \notin clients
           /\ \A s \in Servers : sock[s] # k
BY SocketTcpServerAssumption
   DEF IInv, TypeOK, NoStaleHandle, DeadNull, ClientsOpen, Open, IsOpen

LEMMA NextIInv ==
    ASSUME MoveIntoEmptyOnly
    PROVE  IInv /\ [Next]_vars => IInv'
<1> SUFFICES ASSUME IInv, [Next]_vars PROVE IInv'
    OBVIOUS
<1> USE SocketTcpServerAssumption
<1> USE DEF IInv, TypeOK, OneOwnerPerSocket, NoStaleHandle, DeadNull,
            ClientsOpen, Open, IsOpen, SockStates
<1>1. ASSUME NEW s \in Servers, Destroy(s) PROVE IInv'
    BY <1>1 DEF Destroy, CloseSock
<1>2. ASSUME NEW s \in Servers, Close(s) PROVE IInv'
    BY <1>2 DEF Close, CloseSock
<1>3. ASSUME NEW s \in Servers, NEW lok \in BOOLEAN, Bind(s, lok)
      PROVE IInv'
    BY <1>3 DEF Bind, Listened, BoundAfter, BindOk
<1>4. ASSUME NEW s \in Servers, NEW e \in Endpoints, NEW k \in Created,
             Construct(s, e, k)
      PROVE IInv'
    BY <1>4, UnusedFree DEF Construct, Created, CreateSock
<1>5. ASSUME NEW s \in Servers, NEW e \in Endpoints, NEW k \in Created,
             NEW lok \in BOOLEAN, BindTo(s, e, k, lok)
      PROVE IInv'
    BY <1>5, UnusedFree DEF BindTo, Created, CreateSock, Listened,
                            BoundAfter, BindOk
<1>6. ASSUME NEW s \in Servers, NEW k \in Created, Connect(s, k)
      PROVE IInv'
    BY <1>6, UnusedFree DEF Connect, Created, CreateSock, CloseSock
<1>7. ASSUME NEW s \in Servers, NEW k \in Created, Accept(s, k)
      PROVE IInv'
    BY <1>7, UnusedFree DEF Accept, Created, CreateSock
<1>8. ASSUME NEW s \in Servers, NEW o \in Servers, MoveConstruct(s, o)
      PROVE IInv'
    BY <1>8 DEF MoveConstruct
<1>9. ASSUME NEW s \in Servers, NEW o \in Servers, MoveAssign(s, o)
      PROVE IInv'
    BY <1>9 DEF MoveAssign
<1>10. ASSUME NEW s \in Servers, NEW o \in Servers, CopyAssign(s, o)
       PROVE IInv'
    BY <1>10 DEF CopyAssign, CloseSock, vars
<1>11. ASSUME NEW c \in Socks \cup {Null}, CloseClient(c) PROVE IInv'
    BY <1>11 DEF CloseClient, CloseSock
<1>12. ASSUME NEW c \in Socks, NEW ok \in BOOLEAN, ClientConnect(c, ok)
       PROVE IInv'
    BY <1>12, UnusedFree DEF ClientConnect
<1>13. ASSUME NEW c \in Socks, NEW ok \in BOOLEAN, UdpCreate(c, ok)
       PROVE IInv'
    BY <1>13, UnusedFree DEF UdpCreate
<1>14. CASE UNCHANGED vars
    BY <1>14 DEF vars
<1>. QED
    BY <1>1, <1>2, <1>3, <1>4, <1>5, <1>6, <1>7, <1>8, <1>9, <1>10, <1>11,
       <1>12, <1>13, <1>14 DEF Next

-----------------------------------------------------------------------------
(* Type correctness, whatever the program moves into                       *)

LEMMA InitTypeOK == Init => TypeOK
BY SocketTcpServerAssumption DEF Init, TypeOK, SockStates

\* Every member keeps every field within its type; a failed accept adds a
\* client object that holds NULL.
LEMMA NextTypeOK == TypeOK /\ [Next]_vars => TypeOK'
<1> SUFFICES ASSUME TypeOK, [Next]_vars PROVE TypeOK'
    OBVIOUS
<1> USE SocketTcpServerAssumption DEF TypeOK, SockStates
<1>1. ASSUME NEW s \in Servers, Destroy(s) \/ Close(s) PROVE TypeOK'
    BY <1>1 DEF Destroy, Close, CloseSock
<1>2. ASSUME NEW s \in Servers, NEW lok \in BOOLEAN, Bind(s, lok)
      PROVE TypeOK'
    BY <1>2 DEF Bind, Listened, BoundAfter, BindOk
<1>3. ASSUME NEW s \in Servers, NEW e \in Endpoints, NEW k \in Created,
             Construct(s, e, k)
      PROVE TypeOK'
    BY <1>3 DEF Construct, Created, CreateSock
<1>4. ASSUME NEW s \in Servers, NEW e \in Endpoints, NEW k \in Created,
             NEW lok \in BOOLEAN, BindTo(s, e, k, lok)
      PROVE TypeOK'
    <2>1. k \in Socks \cup {Null}
        BY <1>4 DEF BindTo, Created
    <2>. QED
        BY <1>4, <2>1 DEF BindTo, Created, CreateSock, Listened, BoundAfter,
                          BindOk
<1>5. ASSUME NEW s \in Servers, NEW k \in Created, Connect(s, k) \/ Accept(s, k)
      PROVE TypeOK'
    BY <1>5 DEF Connect, Accept, Created, CreateSock, CloseSock
<1>6. ASSUME NEW s \in Servers, NEW o \in Servers,
             MoveConstruct(s, o) \/ MoveAssign(s, o) \/ CopyAssign(s, o)
      PROVE TypeOK'
    BY <1>6 DEF MoveConstruct, MoveAssign, CopyAssign, CloseSock, vars
<1>7. ASSUME NEW c \in Socks \cup {Null}, CloseClient(c) PROVE TypeOK'
    BY <1>7 DEF CloseClient, CloseSock
<1>8. ASSUME NEW c \in Socks, NEW ok \in BOOLEAN,
             ClientConnect(c, ok) \/ UdpCreate(c, ok)
      PROVE TypeOK'
    BY <1>8 DEF ClientConnect, UdpCreate
<1>9. CASE UNCHANGED vars
    BY <1>9 DEF vars
<1>. QED
    BY <1>1, <1>2, <1>3, <1>4, <1>5, <1>6, <1>7, <1>8, <1>9 DEF Next

\* For every program, moves into a server that holds a socket included,
\* the server and client objects hold values of the code's types: sockets
\* or NULL, with NULL for the client object of a failed accept.
THEOREM SocketTypeCorrect == Spec => []TypeOK
BY InitTypeOK, NextTypeOK, PTL DEF Spec

\* When the program moves only into a server without a socket, every open
\* socket has exactly one owner, a live server or a client object, through
\* any sequence of constructions, moves, copies, binds, accepts and closes.
THEOREM OneOwnerPerSocketHolds ==
    MoveIntoEmptyOnly => (Spec => []OneOwnerPerSocket)
<1> SUFFICES ASSUME MoveIntoEmptyOnly PROVE Spec => []OneOwnerPerSocket
    OBVIOUS
<1>1. IInv => OneOwnerPerSocket
    BY DEF IInv
<1>. QED
    BY InitIInv, NextIInv, <1>1, PTL DEF Spec

\* Under the same discipline no live server ever holds a socket that has
\* been closed and freed.
THEOREM NoStaleHandleHolds == MoveIntoEmptyOnly => (Spec => []NoStaleHandle)
<1> SUFFICES ASSUME MoveIntoEmptyOnly PROVE Spec => []NoStaleHandle
    OBVIOUS
<1>1. IInv => NoStaleHandle
    BY DEF IInv
<1>. QED
    BY InitIInv, NextIInv, <1>1, PTL DEF Spec

=============================================================================
