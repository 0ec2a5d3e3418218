----------------------------- MODULE MC_FsmBase -----------------------------
(***************************************************************************)
(* A small instance of FsmBase for TLC.                                    *)
(*   A  root state with a handler: start and error state                   *)
(*   B  child of A with a bool handler that may return false               *)
(*   C  root state with a handler: the stop state                          *)
(*   Z  a state without handler: entering it faults                        *)
(* Transitions A -e1-> B, A -e2-> C, C -e1-> A, C -e2-> Z, plus a second   *)
(* A -e1-> A that insert-unique must reject.  B has no rows of its own and *)
(* accepts both symbols through A.                                         *)
(***************************************************************************)
EXTENDS FsmBase

CONSTANTS A, B, C, Z, e1, e2

MCStateIds == {A, B, C, Z}
MCEvents == {e1, e2}
MCParent == [s \in MCStateIds |-> IF s = B THEN A ELSE NoId]
MCHasAction == {A, B, C}
MCMayFail == {B}
MCRows == {<<A, e1, B>>, <<A, e2, C>>, <<C, e1, A>>, <<C, e2, Z>>,
           <<A, e1, A>>}
MCStartIds == {A}
MCErrorIds == {A}
MCStopIds == {C}
MCStateBatches == {<<C, A, Z>>}
MCStopBatches == {<<C, Z>>}
MCSymbols == {e2}
=============================================================================
