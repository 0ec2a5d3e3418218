--------------------------- MODULE MC_FsmPairCross ---------------------------
(***************************************************************************)
(* Two threads assign two engines to each other at the same time:          *)
(* t1 runs a = b and t2 runs b = a.                                        *)
(***************************************************************************)
EXTENDS FsmPairWait

CONSTANTS a, b, t1, t2

MCAddr == (a :> 1) @@ (b :> 2)

MCProgram ==
    (t1 :> <<[kind |-> "assign", this |-> a, other |-> b]>>) @@
    (t2 :> <<[kind |-> "assign", this |-> b, other |-> a]>>)

=============================================================================
