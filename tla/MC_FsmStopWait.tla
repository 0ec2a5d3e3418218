---------------------------- MODULE MC_FsmStopWait ----------------------------
(* The machine of MC_FsmBase with a client calling stop(true).  The error  *)
(* state A is entered only by failure: no row leads into it.  C loops on   *)
(* e1 instead of returning to A, and A's second e1 row is left out.        *)
EXTENDS MC_FsmBase, FsmStopWait

MCWaitRows == {<<A, e1, B>>, <<A, e2, C>>, <<C, e1, C>>, <<C, e2, Z>>}

\* The same rows plus B -e2-> A: B overrides the row it inherits from A and
\* returns to A, the error state, with a successful handler.
MCRowsToError == MCWaitRows \cup {<<B, e2, A>>}
=============================================================================
