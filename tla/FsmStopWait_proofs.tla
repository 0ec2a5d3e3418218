-------------------------- MODULE FsmStopWait_proofs --------------------------
(***************************************************************************)
(* Machine-checked proof that a client blocked in stop(true) is never      *)
(* stranded (NoStrandedStopper of FsmStopWait), for every machine whose    *)
(* program keeps the discipline below.                                     *)
(***************************************************************************)
EXTENDS FsmStopWait, FsmBase_proofs

\* The discipline the argument needs:
\*  - start() and halt() are not called while stop(true) waits: neither
\*    pulses m_stop_event (the hazard on halt() in PROJECT.json);
\*  - the builder calls are not made while the engine runs;
\*  - no addTransition row leads into a state passed to setErrorState: the
\*    error state is entered only by toErrorState, which pulses, and not by
\*    a successful step, which does not (the fsm_stop_wait_error_row run).
StopWaitDiscipline ==
    /\ ~InterruptWhileWaiting
    /\ ~BuildWhileRunning
    /\ \A r \in Rows : r[3] \notin ErrorIds

\* Every next state stored in m_stt is the target of an addTransition call.
SttFromRows ==
    \A k \in StateIds \X Events : stt[k] # NoId => \E r \in Rows : r[3] = stt[k]

\* m_error_state is unset or an id passed to setErrorState.
ErrorChosen == errorState \in ErrorIds \cup {NoId}

WaiterType == waiter \in {"none", "waiting", "woken"}

\* NoStrandedStopper, strengthened for the handler phase: while a step's
\* handler runs for the client, its state is not the error state unless it
\* is a stop state, so the step ends either pulsing or not stoppable.
WaitSafe ==
    waiter = "waiting" =>
        /\ Running
        /\ pc = "idle" => ~Stoppable
        /\ pc = "handler" => current # errorState \/ IsStopState(current)

\* A running engine has a current state: start() sets it to the start state
\* and a step to a registered state or to the error state.
RunningCurrent == Running => current \in StateIds

SInv ==
    /\ TypeOK /\ WaiterType /\ SttFromRows /\ ErrorChosen /\ RunningCurrent
    /\ WaitSafe

-----------------------------------------------------------------------------
(* Lemmas                                                                  *)

\* lookup(state, event) returns the next state stored in some row of m_stt.
LEMMA LookupStt ==
    ASSUME TypeOK, NEW s \in StateIds, NEW e \in Events, Lookup(s, e) # NoId
    PROVE  \E c \in StateIds : Lookup(s, e) = stt[<<c, e>>]
<1> DEFINE j == CHOOSE i \in 1..Len(ParentChain[s]) : NearestRow(s, e, i)
           c == ParentChain[s][j]
<1>1. \E i \in 1..Len(ParentChain[s]) : NearestRow(s, e, i)
    BY DEF Lookup
<1>2. j \in 1..Len(ParentChain[s]) /\ NearestRow(s, e, j)
    BY <1>1
<1>3. c \in StateIds
    <2>1. j \in 1..j
        BY <1>2
    <2>. QED
        BY <1>2, <2>1 DEF NearestRow, TypeOK
<1>4. Lookup(s, e) = stt[<<c, e>>]
    BY <1>1 DEF Lookup
<1>. QED
    BY <1>3, <1>4

\* So the state a lookup leads to is the target of an addTransition call.
LEMMA LookupFromRows ==
    ASSUME TypeOK, SttFromRows, NEW s \in StateIds, NEW e \in Events,
           Lookup(s, e) # NoId
    PROVE  \E r \in Rows : r[3] = Lookup(s, e)
<1>1. PICK c \in StateIds : Lookup(s, e) = stt[<<c, e>>]
    BY LookupStt
<1>. QED
    BY <1>1 DEF SttFromRows

\* Each step of the engine with the waiting client is a step of the engine:
\* StopWait changes no field, and StopWaitReturn is stop(false).
LEMMA WaitNextNext == WaitNext => [Next]_vars
<1> SUFFICES ASSUME WaitNext PROVE [Next]_vars
    OBVIOUS
<1>1. CASE StopWaitReturn /\ Running /\ Stoppable
    BY <1>1 DEF StopWaitReturn, Stop, Stoppable, IsStopState, Next
<1>2. CASE StopWaitReturn /\ ~(Running /\ Stoppable)
    BY <1>2 DEF StopWaitReturn, vars
<1>3. CASE StopWait
    BY <1>3 DEF StopWait
<1>. QED
    BY <1>1, <1>2, <1>3 DEF WaitNext, OtherCall, Next

\* Only addTransition writes m_stt, and it writes the target of its row.
LEMMA SttStep ==
    ASSUME TypeOK, SttFromRows, [Next]_vars PROVE SttFromRows'
<1>1. CASE \E r \in Rows : AddTransition(r[1], r[2], r[3])
    <2>1. PICK r \in Rows : AddTransition(r[1], r[2], r[3])
        BY <1>1
    <2>2. r[1] \in StateIds /\ r[2] \in Events /\ r[3] \in StateIds
        BY FsmAssumption
    <2>. QED
        BY <2>1, <2>2 DEF AddTransition, SttFromRows, TypeOK
<1>2. CASE stt' = stt
    BY <1>2 DEF SttFromRows
<1>. QED
    BY <1>1, <1>2
    DEF Next, vars, AddState, AddStates, SetStartState, SetErrorState,
        AddStopState, AddStopStates, AddAlphabetSymbol, Start, Halt, Stop,
        Raise, StepBegin, HandlerTransition, HandlerReturn

\* Only setErrorState writes m_error_state, with an id of ErrorIds.
LEMMA ErrorStep ==
    ASSUME ErrorChosen, [Next]_vars PROVE ErrorChosen'
<1>1. CASE \E s \in ErrorIds : SetErrorState(s)
    BY <1>1 DEF SetErrorState, ErrorChosen
<1>2. CASE errorState' = errorState
    BY <1>2 DEF ErrorChosen
<1>. QED
    BY <1>1, <1>2
    DEF Next, vars, AddState, AddStates, SetStartState, AddTransition,
        AddStopState, AddStopStates, AddAlphabetSymbol, Start, Halt, Stop,
        Raise, StepBegin, HandlerTransition, HandlerReturn


\* start() needs a start state; a step that leaves the engine running moves
\* it to a registered state.
LEMMA RunningStep ==
    ASSUME TypeOK, RunningCurrent, [Next]_vars PROVE RunningCurrent'
<1> USE FsmAssumption
<1>1. CASE \E c \in StartChecks : Start(c)
    BY <1>1 DEF Start, RunningCurrent, TypeOK
<1>2. CASE StepBegin
    BY <1>2 DEF StepBegin, ToErrorState, RunningCurrent, Running, TypeOK
<1>3. CASE \E ok \in BOOLEAN : HandlerReturn(ok)
    BY <1>3 DEF HandlerReturn, ToErrorState, RunningCurrent, Running
<1>4. CASE UNCHANGED <<current, status>> \/ status' = "Stopped"
    BY <1>4 DEF RunningCurrent, Running
<1>. QED
    BY <1>1, <1>2, <1>3, <1>4
    DEF Next, vars, AddState, AddStates, SetStartState, AddTransition,
        SetErrorState, AddStopState, AddStopStates, AddAlphabetSymbol, Halt,
        Stop, Raise, HandlerTransition


\* Every step of the engine and the client keeps the client safe: the steps
\* that could strand it are excluded by the discipline or pulse the event.
LEMMA WaitSafeStep ==
    ASSUME StopWaitDiscipline, SInv, WaitNext PROVE WaiterType' /\ WaitSafe'
<1> USE FsmAssumption
<1>0. CASE waiter' # "waiting" /\ WaiterType'
    BY <1>0 DEF WaitSafe
<1>1. CASE OtherCall /\ UNCHANGED waiter
    <2>1. CASE waiter # "waiting"
        BY <1>1, <2>1 DEF SInv, WaiterType, WaitSafe
    <2>2. CASE waiter = "waiting"
        <3>1. Running /\ (pc = "idle" => ~Stoppable)
            BY <2>2 DEF SInv, WaitSafe
        <3>2. ~Building
            BY <3>1 DEF StopWaitDiscipline, Building
        <3>3. ~Stop
            BY <3>1 DEF Stop, Free, Stoppable, IsStopState
        <3>4. \/ \E e \in Events : Raise(e)
              \/ \E e \in Events : HandlerTransition(e)
            BY <1>1, <3>2, <3>3
            DEF OtherCall, AddState, AddStates, SetStartState, AddTransition,
                SetErrorState, AddStopState, AddStopStates, AddAlphabetSymbol
        <3>. QED
            BY <1>1, <2>2, <3>4
            DEF Raise, HandlerTransition, SInv, WaiterType, WaitSafe,
                Stoppable, IsStopState, Running
    <2>. QED
        BY <2>1, <2>2
<1>2. CASE /\ (\E c \in StartChecks : Start(c)) \/ Halt
           /\ InterruptWhileWaiting \/ waiter = "none"
           /\ UNCHANGED waiter
    BY <1>2 DEF StopWaitDiscipline, WaitSafe, WaiterType
<1>3. CASE StepBegin /\ waiter' = IF Running /\ status' = "Error" THEN Wake
                                                                ELSE waiter
    <2>1. CASE waiter # "waiting"
        BY <1>3, <2>1 DEF Wake, SInv, WaiterType, WaitSafe
    <2>2. CASE waiter = "waiting"
        <3> DEFINE next == Lookup(current, Head(events).ev)
        <3>1. Running /\ current \in StateIds
            BY <2>2 DEF SInv, WaitSafe, RunningCurrent
        <3>2. next \in states /\ events # <<>>
            BY <1>3, <3>1 DEF StepBegin
        <3>3. CASE next \in HasAction
            <4>1. /\ current' = next /\ pc' = "handler" /\ status' = status
                  /\ errorState' = errorState
                BY <1>3, <3>1, <3>2, <3>3 DEF StepBegin
            <4>2. waiter' = "waiting"
                BY <1>3, <2>2, <3>1, <4>1 DEF Running
            <4>3. Head(events).ev \in Events
                <5>1. Head(events) \in QueueEntry
                    BY <3>2 DEF SInv, TypeOK
                <5>. QED
                    BY <5>1 DEF QueueEntry
            <4>4. next # NoId
                BY <3>2 DEF SInv, TypeOK
            <4>5. PICK r \in Rows : r[3] = next
                BY <3>1, <4>3, <4>4, LookupFromRows DEF SInv
            <4>6. next # errorState
                BY <4>4, <4>5 DEF StopWaitDiscipline, SInv, ErrorChosen
            <4>. QED
                BY <3>1, <4>1, <4>2, <4>6 DEF WaitSafe, WaiterType, Running
        <3>4. CASE next \notin HasAction
            <4>1. status' = "Error"
                BY <1>3, <3>1, <3>2, <3>4 DEF StepBegin, ToErrorState
            <4>2. waiter' = "woken"
                BY <1>3, <2>2, <3>1, <4>1 DEF Wake, Running
            <4>. QED
                BY <4>2 DEF WaiterType, WaitSafe
        <3>. QED
            BY <3>3, <3>4
    <2>. QED
        BY <2>1, <2>2
<1>4. ASSUME NEW ok \in BOOLEAN, HandlerReturn(ok),
             waiter' = IF Pulse(ok) THEN Wake ELSE waiter
      PROVE  WaiterType' /\ WaitSafe'
    <2>1. CASE waiter # "waiting"
        BY <1>4, <2>1 DEF Wake, SInv, WaiterType, WaitSafe
    <2>2. CASE waiter = "waiting" /\ Pulse(ok)
        BY <1>4, <2>2 DEF Wake, WaiterType, WaitSafe
    <2>3. CASE waiter = "waiting" /\ ~Pulse(ok)
        <3>1. ok /\ ~IsStopState(current)
            BY <2>3 DEF Pulse
        <3>2. current # errorState /\ Running
            BY <1>4, <2>3, <3>1 DEF SInv, WaitSafe, HandlerReturn
        <3>. QED
            BY <1>4, <2>3, <3>1, <3>2
            DEF HandlerReturn, WaiterType, WaitSafe, Stoppable, IsStopState,
                Running
    <2>. QED
        BY <2>1, <2>2, <2>3
<1>5. CASE StopWait
    BY <1>5 DEF StopWait, WaiterType, WaitSafe, Free, vars, Running,
                Stoppable, IsStopState
<1>6. CASE StopWaitReturn
    BY <1>6 DEF StopWaitReturn, WaiterType, WaitSafe
<1>. QED
    BY <1>1, <1>2, <1>3, <1>4, <1>5, <1>6 DEF WaitNext


-----------------------------------------------------------------------------
(* The client blocked in stop(true) is never stranded                      *)

LEMMA InitSInv == Init /\ waiter = "none" => SInv
BY InitTypeOK
DEF Init, SInv, WaiterType, SttFromRows, ErrorChosen, RunningCurrent, Running,
    WaitSafe

LEMMA NextSInv ==
    ASSUME StopWaitDiscipline PROVE SInv /\ [WaitNext]_allVars => SInv'
<1> SUFFICES ASSUME SInv, [WaitNext]_allVars PROVE SInv'
    OBVIOUS
<1>1. [Next]_vars
    BY WaitNextNext DEF allVars
<1>2. TypeOK' /\ SttFromRows' /\ ErrorChosen' /\ RunningCurrent'
    BY <1>1, NextTypeOK, SttStep, ErrorStep, RunningStep DEF SInv
<1>3. WaiterType' /\ WaitSafe'
    <2>1. CASE WaitNext
        BY <2>1, WaitSafeStep
    <2>2. CASE UNCHANGED allVars
        BY <2>2 DEF allVars, vars, SInv, WaiterType, WaitSafe, Running,
                    Stoppable, IsStopState
    <2>. QED
        BY <2>1, <2>2
<1>. QED
    BY <1>2, <1>3 DEF SInv

\* NoStrandedStopper for every machine, every queue bound and every
\* program that keeps the discipline: a client that calls stop(true) on a
\* running engine is woken by every step that leaves Running or ends in
\* the error state or a stop state, so it never sleeps on an engine that
\* stop(false) would stop.
THEOREM NoStrandedStopperHolds ==
    StopWaitDiscipline => (WaitSpec => []NoStrandedStopper)
<1> SUFFICES ASSUME StopWaitDiscipline PROVE WaitSpec => []NoStrandedStopper
    OBVIOUS
<1>1. SInv => NoStrandedStopper
    BY DEF SInv, WaitSafe, NoStrandedStopper
<1>. QED
    BY InitSInv, NextSInv, <1>1, PTL DEF WaitSpec

=============================================================================
