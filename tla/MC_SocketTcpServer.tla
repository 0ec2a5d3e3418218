------------------------- MODULE MC_SocketTcpServer -------------------------
(* Two server objects, three socket handles and two endpoints: enough for  *)
(* two servers racing for one endpoint, a move between them, an accepted   *)
(* client, and a socket created after another was closed.                  *)
EXTENDS SocketTcpServer

CONSTANTS s1, s2, k1, k2, k3, e1, e2, null

MCServers == {s1, s2}
MCSocks == {k1, k2, k3}
MCEndpoints == {e1, e2}

=============================================================================
