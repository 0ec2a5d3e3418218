------------------------------ MODULE MC_FsmPair ------------------------------
(***************************************************************************)
(* Three engines a < b < c and three threads.  t1 copies b into a and then *)
(* assigns a to itself; t2 swaps b with a and move-assigns b to c; t3      *)
(* swaps b and c and then assigns c to itself.  All calls share objects    *)
(* with another thread's calls, and the threads can wait on each other in  *)
(* a chain: t1 holds a and waits for b, t2 holds b and waits for c, and    *)
(* t3 holds c.                                                             *)
(***************************************************************************)
EXTENDS FsmPairWait

CONSTANTS a, b, c, t1, t2, t3

MCAddr == (a :> 1) @@ (b :> 2) @@ (c :> 3)

Assign(x, y) == [kind |-> "assign", this |-> x, other |-> y]
MoveAssign(x, y) == [kind |-> "moveAssign", this |-> x, other |-> y]
SwapCall(x, y) == [kind |-> "swap", this |-> x, other |-> y]

MCProgram ==
    (t1 :> <<Assign(a, b), Assign(a, a)>>) @@
    (t2 :> <<SwapCall(b, a), MoveAssign(c, b)>>) @@
    (t3 :> <<SwapCall(b, c), Assign(c, c)>>)

=============================================================================
