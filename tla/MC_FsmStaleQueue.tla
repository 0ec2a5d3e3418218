--------------------------- MODULE MC_FsmStaleQueue ---------------------------
(***************************************************************************)
(* A start state S without handler (valid() does not ask for one) with a   *)
(* row S -e1-> A, and a state A with a handler, rows for both symbols, and *)
(* the error and stop state role.  The machine is valid.                   *)
(***************************************************************************)
EXTENDS FsmBase

CONSTANTS S, A, e1, e2

MCStateIds == {S, A}
MCEvents == {e1, e2}
MCParent == [s \in MCStateIds |-> NoId]
MCRows == {<<S, e1, A>>, <<A, e1, A>>, <<A, e2, A>>}
=============================================================================
