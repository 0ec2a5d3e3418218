----------------------------- MODULE FsmStopWait -----------------------------
(***************************************************************************)
(* The engine of FsmBase together with one client blocked in stop(true)    *)
(* (src/include/lwiot/avr/avrspibus.h).  stop(true) on a running engine    *)
(* that is neither in its error state nor in a stop state waits on         *)
(* m_stop_event, which releases m_lock; the step pulses the event when it  *)
(* ends in the error state or in a stop state; the woken client takes the  *)
(* lock again and calls stop(false) once.  A pulse wakes the client only   *)
(* if it is waiting at that moment (a condition variable, not a latch).    *)
(***************************************************************************)
EXTENDS FsmBase

CONSTANT
    InterruptWhileWaiting  \* start() and halt() may be called while
                           \* stop(true) waits

ASSUME StopWaitAssumption == InterruptWhileWaiting \in BOOLEAN

VARIABLE
    waiter   \* the stop(true) caller: "none", "waiting" or "woken"

allVars == <<vars, waiter>>

\* isStopState(state)
IsStopState(s) == s \in stopStates

\* The engine is in a state in which stop(false) succeeds.
Stoppable == current = errorState \/ IsStopState(current)

\* A pulse of m_stop_event: it wakes the client if it is waiting.
Wake == IF waiter = "waiting" THEN "woken" ELSE waiter

\* Mutant: only a failed handler pulses the stop event.
PulseOnFailureOnly(ok) == ~ok

\* Whether the step that ends with the handler returning ok pulses
\* m_stop_event: after toErrorState on failure, or when the new current
\* state is a stop state.
Pulse(ok) == ~ok \/ IsStopState(current)

\* stop(true) when stop(false) would fail: wait on m_stop_event, releasing
\* the lock.  (When stop(false) would succeed, stop(true) is the step
\* Stop; when the engine is not running it returns at once.)
StopWait ==
    /\ waiter = "none"
    /\ Free
    /\ Running
    /\ ~Stoppable
    /\ waiter' = "waiting"
    /\ UNCHANGED vars

\* The woken client takes m_lock again and returns stop(false).
StopWaitReturn ==
    /\ waiter = "woken"
    /\ Free
    /\ waiter' = "none"
    /\ IF Running /\ Stoppable
       THEN status' = "Stopped"
       ELSE UNCHANGED status
    /\ UNCHANGED <<states, stt, alphabet, startState, errorState, stopStates,
                   current, events, inTransition, pc>>

\* The calls of FsmBase that neither pulse the event nor start or halt
\* the engine.
OtherCall ==
    \/ \E s \in StateIds : AddState(s)
    \/ \E r \in Rows : AddTransition(r[1], r[2], r[3])
    \/ \E s \in StartIds : SetStartState(s)
    \/ \E s \in ErrorIds : SetErrorState(s)
    \/ \E s \in StopIds : AddStopState(s)
    \/ \E b \in StateBatches : AddStates(b)
    \/ \E b \in StopBatches : AddStopStates(b)
    \/ \E e \in Symbols : AddAlphabetSymbol(e)
    \/ Stop
    \/ \E e \in Events : Raise(e)
    \/ \E e \in Events : HandlerTransition(e)

WaitNext ==
    \/ OtherCall /\ UNCHANGED waiter
    \* start() and halt() do not touch m_stop_event.
    \/ /\ (\E c \in StartChecks : Start(c)) \/ Halt
       /\ InterruptWhileWaiting \/ waiter = "none"
       /\ UNCHANGED waiter
    \* A step without handler fails into the error state and pulses.
    \/ /\ StepBegin
       /\ waiter' = IF Running /\ status' = "Error" THEN Wake ELSE waiter
    \/ \E ok \in BOOLEAN :
          /\ HandlerReturn(ok)
          /\ waiter' = IF Pulse(ok) THEN Wake ELSE waiter
    \/ StopWait
    \/ StopWaitReturn

WaitSpec == Init /\ waiter = "none" /\ [][WaitNext]_allVars

-----------------------------------------------------------------------------
(* Properties                                                              *)

\* The stop(true) caller never sleeps on an engine that no longer runs, or
\* that sits between steps in a state where stop would succeed: every way
\* of leaving Running or of reaching the error state or a stop state while
\* it waits pulses m_stop_event.  (Once it sleeps in such a state, no
\* further pulse is due, and it may wait for ever.)
NoStrandedStopper ==
    waiter = "waiting" => Running /\ ~(pc = "idle" /\ Stoppable)

=============================================================================
