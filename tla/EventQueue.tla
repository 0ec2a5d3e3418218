------------------------------ MODULE EventQueue ------------------------------
(***************************************************************************)
(* What the event queue of the FSM engine promises its callers             *)
(* (src/include/lwiot/avr/avrspibus.h, raise, transition and the step):    *)
(* external callers submit events that are served first in, first out; a  *)
(* state handler submits at most one event at a time, which is served      *)
(* before every event of the external callers; each step serves one event. *)
(* The queue of the engine is one deque; this module keeps the handler's   *)
(* slot and the callers' FIFO apart.                                       *)
(***************************************************************************)
EXTENDS Sequences

CONSTANT Msgs   \* the event symbols

VARIABLES
    urgent,  \* the event a handler submitted, if any: a sequence of length <= 1
    fifo     \* the events of the external callers, oldest first

qvars == <<urgent, fifo>>

Init == urgent = <<>> /\ fifo = <<>>

\* raise(event): an external caller's event joins the back.
Put(m) ==
    /\ fifo' = Append(fifo, m)
    /\ UNCHANGED urgent

\* transition(event) from a handler: only when no handler event waits.
Push(m) ==
    /\ urgent = <<>>
    /\ urgent' = <<m>>
    /\ UNCHANGED fifo

\* A step serves the handler's event if there is one, else the oldest.
Take ==
    \/ /\ urgent # <<>>
       /\ urgent' = <<>>
       /\ UNCHANGED fifo
    \/ /\ urgent = <<>>
       /\ fifo # <<>>
       /\ fifo' = Tail(fifo)
       /\ UNCHANGED urgent

Next == (\E m \in Msgs : Put(m) \/ Push(m)) \/ Take

Spec == Init /\ [][Next]_qvars

=============================================================================
