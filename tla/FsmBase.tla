------------------------------- MODULE FsmBase -------------------------------
(***************************************************************************)
(* The generic finite state machine engine of lwIoT,                       *)
(* lwiot::detail_fsm::FsmBase (src/include/lwiot/avr/avrspibus.h).         *)
(*                                                                         *)
(* One engine object.  Its fields are the VARIABLES; every public member   *)
(* function that changes a field is an action.  All of them run under the  *)
(* engine's recursive mutex m_lock, so each is atomic, with one exception: *)
(* the step (transition() noexcept) calls the destination state's handler  *)
(* while it holds the lock, and that handler may call back into the engine *)
(* (transition(event, args...)).  The handler is therefore a phase of its  *)
(* own (pc = "handler") during which no other thread runs.                 *)
(*                                                                         *)
(* Data is abstracted: handler arguments are left out (they only flow into *)
(* the handlers), a State object is its id, its parent id and whether it   *)
(* has a handler, and guards are left out because no code path of the      *)
(* engine evaluates them.                                                  *)
(***************************************************************************)
EXTENDS Naturals, Sequences, FiniteSets

CONSTANTS
    StateIds,          \* ids of the State objects the program constructs
    Events,            \* the event symbols it uses (all non-zero)
    NoId,              \* the value 0 of FsmStateId: "no state"
    Parent,            \* m_parent of each constructed State (NoId: none)
    HasAction,         \* the States constructed with a handler
    MayFail,           \* the States whose bool handler may return false
    Rows,              \* the addTransition(state, event, next) calls made
    StartIds,          \* the ids passed to setStartState
    ErrorIds,          \* the ids passed to setErrorState
    StopIds,           \* the ids passed to addStopState
    StateBatches,      \* the id lists of the states passed to addStates
    StopBatches,       \* the id lists passed to addStopStates
    Symbols,           \* the symbols passed to addAlphabetSymbol
    StartChecks,       \* the values of `check' the driver passes to start
    RegisterFirst,     \* the program registers a state's parent and both
                       \* ends of a transition before using them
    BuildWhileRunning, \* builder calls may happen while the engine runs
    MaxQueue           \* bound on the event queue (the deque is unbounded)

\* Paths of the parent relation, as sequences of state ids.
Paths == UNION {[1..n -> StateIds] : n \in 1..Cardinality(StateIds)}

\* p is the parent chain of s, climbed until a state without a parent.
IsRootChain(s, p) ==
    /\ p[1] = s
    /\ \A i \in 1..Len(p) - 1 : p[i + 1] = Parent[p[i]]
    /\ Parent[p[Len(p)]] = NoId

ASSUME FsmAssumption ==
    /\ NoId \notin StateIds
    /\ Parent \in [StateIds -> StateIds \cup {NoId}]
    \* parent chains are finite: no state is its own ancestor
    /\ \A s \in StateIds : \E p \in Paths : IsRootChain(s, p)
    /\ HasAction \subseteq StateIds
    /\ MayFail \subseteq HasAction
    /\ Rows \subseteq StateIds \X Events \X StateIds
    /\ StartIds \subseteq StateIds
    /\ ErrorIds \subseteq StateIds
    /\ StopIds \subseteq StateIds
    /\ StateBatches \subseteq Seq(StateIds)
    /\ StopBatches \subseteq Seq(StateIds)
    /\ Symbols \subseteq Events
    /\ StartChecks \subseteq BOOLEAN
    /\ RegisterFirst \in BOOLEAN
    /\ BuildWhileRunning \in BOOLEAN
    /\ MaxQueue \in Nat \ {0}

\* The chain s, parent(s), parent(parent(s)), ... that lookup climbs.
ParentChain == [s \in StateIds |-> CHOOSE p \in Paths : IsRootChain(s, p)]

Status == {"Stopped", "Running", "Error"}   \* the values m_status takes
Sources == {"raise", "transition"}          \* which call queued an event
QueueEntry == [ev : Events, src : Sources]

VARIABLES
    states,       \* m_states: the ids of the registered states
    stt,          \* m_stt: (state, event) -> next state, NoId when no row
    alphabet,     \* m_alphabet
    startState,   \* m_start_state (NoId while unset)
    errorState,   \* m_error_state (NoId while unset)
    stopStates,   \* m_stop_states, as the set of ids it refers to
    current,      \* m_current
    status,       \* m_status
    events,       \* m_events: the queue of (event, args) pairs
    inTransition, \* m_in_transition
    pc            \* "handler" while a step runs a state handler, else "idle"

vars == <<states, stt, alphabet, startState, errorState, stopStates,
          current, status, events, inTransition, pc>>

-----------------------------------------------------------------------------
(* Helpers                                                                 *)

HasRow(s, e) == stt[<<s, e>>] # NoId

\* Position i of s's parent chain holds the row that lookup(s, e) returns:
\* it has a row for e, the states below it have none, and the climb reached
\* it through registered states only.
NearestRow(s, e, i) ==
    /\ \A j \in 1..i : ParentChain[s][j] \in states
    /\ HasRow(ParentChain[s][i], e)
    /\ \A j \in 1..i - 1 : ~HasRow(ParentChain[s][j], e)

\* lookup(state, event): the next state of the transition found, or NoId.
Lookup(s, e) ==
    IF \E i \in 1..Len(ParentChain[s]) : NearestRow(s, e, i)
    THEN stt[<<ParentChain[s][CHOOSE i \in 1..Len(ParentChain[s]) :
                                   NearestRow(s, e, i)], e>>]
    ELSE NoId

Running == status = "Running"

\* accept(event)
Accept(e) == Running /\ Lookup(current, e) # NoId

\* deterministic(): every state with a handler has a row for every symbol
\* of the alphabet.  Its epsilon check inserts each symbol of the alphabet,
\* a set, into an empty set once, so it never fails and adds nothing here.
Deterministic ==
    \A s \in states : \A e \in alphabet :
        Lookup(s, e) = NoId => s \notin HasAction

\* Mutant: valid() without the determinism check.
ValidNoDeterminism ==
    /\ status \in {"Running", "Stopped"}
    /\ states # {}
    /\ startState # NoId
    /\ stopStates # {}
    /\ errorState # NoId

\* valid()
Valid ==
    /\ status \in {"Running", "Stopped"}
    /\ states # {}
    /\ startState # NoId
    /\ stopStates # {}
    /\ errorState # NoId
    /\ Deterministic

\* m_lock is free: no step is inside a state handler.
Free == pc = "idle"

\* The builder calls are made while the engine is not running, unless the
\* run lets them race with a running engine.
Building == BuildWhileRunning \/ ~Running

-----------------------------------------------------------------------------
(* Initial state: the constructor FsmBase(tmo).                            *)

Init ==
    /\ states = {}
    /\ stt = [k \in StateIds \X Events |-> NoId]
    /\ alphabet = {}
    /\ startState = NoId
    /\ errorState = NoId
    /\ stopStates = {}
    /\ current = NoId
    /\ status = "Stopped"
    /\ events = <<>>
    /\ inTransition = FALSE
    /\ pc = "idle"

-----------------------------------------------------------------------------
(* Builder operations                                                      *)

\* addState(state): rejected when the id is already registered.
AddState(s) ==
    /\ Free /\ Building
    /\ s \notin states
    /\ RegisterFirst => Parent[s] \in states \cup {NoId}
    /\ states' = states \cup {s}
    /\ UNCHANGED <<stt, alphabet, startState, errorState, stopStates,
                   current, status, events, inTransition, pc>>

\* The states addStates(b) registers: it emplaces b[1], b[2], ... in order
\* and returns false at the first id that is already registered, by an
\* earlier call or earlier in b, keeping the states it has added so far.
AddedPrefix(b) ==
    {b[j] : j \in {i \in 1..Len(b) :
                     \A m \in 1..i : /\ b[m] \notin states
                                    /\ \A l \in 1..(m - 1) : b[l] # b[m]}}

\* addStates(states)
AddStates(b) ==
    /\ Free /\ Building
    /\ RegisterFirst =>
          \A j \in 1..Len(b) :
             Parent[b[j]] \in states \cup {b[i] : i \in 1..(j - 1)} \cup {NoId}
    /\ states' = states \cup AddedPrefix(b)
    /\ UNCHANGED <<stt, alphabet, startState, errorState, stopStates,
                   current, status, events, inTransition, pc>>

\* addTransition(state, event, next): updateAlphabet first, then an
\* insert-unique emplace; neither the lock nor the registration of either
\* state is checked.
AddTransition(s, e, n) ==
    /\ Building
    /\ RegisterFirst => {s, n} \subseteq states
    /\ alphabet' = alphabet \cup {e}
    /\ stt' = IF HasRow(s, e) THEN stt ELSE [stt EXCEPT ![<<s, e>>] = n]
    /\ UNCHANGED <<states, startState, errorState, stopStates,
                   current, status, events, inTransition, pc>>

\* setStartState(id): a no-op for an unregistered id.
SetStartState(s) ==
    /\ Free /\ Building
    /\ s \in states
    /\ startState' = s
    /\ UNCHANGED <<states, stt, alphabet, errorState, stopStates,
                   current, status, events, inTransition, pc>>

\* setErrorState(id)
SetErrorState(s) ==
    /\ Free /\ Building
    /\ s \in states
    /\ errorState' = s
    /\ UNCHANGED <<states, stt, alphabet, startState, stopStates,
                   current, status, events, inTransition, pc>>

\* addStopState(id)
AddStopState(s) ==
    /\ Free /\ Building
    /\ s \in states
    /\ stopStates' = stopStates \cup {s}
    /\ UNCHANGED <<states, stt, alphabet, startState, errorState,
                   current, status, events, inTransition, pc>>

\* addStopStates(states): all ids are checked before any is added, so the
\* call adds all of them or none.
AddStopStates(b) ==
    /\ Free /\ Building
    /\ \A j \in 1..Len(b) : b[j] \in states
    /\ stopStates' = stopStates \cup {b[j] : j \in 1..Len(b)}
    /\ UNCHANGED <<states, stt, alphabet, startState, errorState,
                   current, status, events, inTransition, pc>>

\* addAlphabetSymbol(event): an unlocked set insert.
AddAlphabetSymbol(e) ==
    /\ Building
    /\ alphabet' = alphabet \cup {e}
    /\ UNCHANGED <<states, stt, startState, errorState, stopStates,
                   current, status, events, inTransition, pc>>

-----------------------------------------------------------------------------
(* Operation                                                               *)

\* start(check): with check, an invalid machine is silently not started.
\* The event queue and m_in_transition are left as they are.
Start(check) ==
    /\ Free
    /\ check => Valid
    /\ startState # NoId
    /\ current' = startState
    /\ status' = "Running"
    /\ UNCHANGED <<states, stt, alphabet, startState, errorState, stopStates,
                   events, inTransition, pc>>

\* halt(): stop a running machine without waiting.
Halt ==
    /\ Free
    /\ Running
    /\ status' = "Stopped"
    /\ UNCHANGED <<states, stt, alphabet, startState, errorState, stopStates,
                   current, events, inTransition, pc>>

\* stop(false): succeeds when the current state is the error state or a
\* stop state; otherwise it returns false and changes nothing.
Stop ==
    /\ Free
    /\ Running
    /\ current = errorState \/ current \in stopStates
    /\ status' = "Stopped"
    /\ UNCHANGED <<states, stt, alphabet, startState, errorState, stopStates,
                   current, events, inTransition, pc>>

\* Mutant: raise calls addEvent with front = true.
RaiseAtFront(e) ==
    /\ Free
    /\ Accept(e)
    /\ Len(events) < MaxQueue
    /\ events' = <<[ev |-> e, src |-> "raise"]>> \o events
    /\ UNCHANGED <<states, stt, alphabet, startState, errorState, stopStates,
                   current, status, inTransition, pc>>

\* raise(event, args...): queue an accepted event at the back.
Raise(e) ==
    /\ Free
    /\ Accept(e)
    /\ Len(events) < MaxQueue
    /\ events' = Append(events, [ev |-> e, src |-> "raise"])
    /\ UNCHANGED <<states, stt, alphabet, startState, errorState, stopStates,
                   current, status, inTransition, pc>>

\* Mutant: the step's Fault result is latched into m_status.
ToErrorStateLatchesFault ==
    /\ current' = errorState
    /\ status' = "Fault"

\* toErrorState(args...): the error handler then runs with the engine no
\* longer running, so its own transition() calls are all rejected.
ToErrorState ==
    /\ current' = errorState
    /\ status' = "Error"

\* Mutant: the step returns before popping when the engine is not running.
StepBeginWhenRunning ==
    /\ Free
    /\ Running
    /\ events # <<>>
    /\ events' = Tail(events)
    /\ LET next == Lookup(current, Head(events).ev)
       IN  /\ next \in states
           /\ IF next \in HasAction
              THEN /\ current' = next
                   /\ pc' = "handler"
                   /\ UNCHANGED <<status, inTransition>>
              ELSE /\ ToErrorState
                   /\ inTransition' = FALSE
                   /\ UNCHANGED pc
    /\ UNCHANGED <<states, stt, alphabet, startState, errorState, stopStates>>

\* The step, transition() noexcept: pop the front event and clear
\* m_in_transition once the inner transition(event, args, ...) returns.
\* The inner call returns the status at once when the engine is not
\* running; otherwise it looks the event up from the current state, moves
\* to the row's next state and calls its handler.  A state without handler
\* counts as a failed handler.  The result of lookup is not checked: a
\* missing row, or a next state that is not registered, is undefined
\* behaviour, which the model does not take (QueueAccepted is about it).
StepBegin ==
    /\ Free
    /\ events # <<>>
    /\ events' = Tail(events)
    /\ IF ~Running
       THEN /\ inTransition' = FALSE
            /\ UNCHANGED <<current, status, pc>>
       ELSE LET next == Lookup(current, Head(events).ev)
            IN  /\ next \in states
                /\ IF next \in HasAction
                   THEN /\ current' = next
                        /\ pc' = "handler"
                        /\ UNCHANGED <<status, inTransition>>
                   ELSE /\ ToErrorState
                        /\ inTransition' = FALSE
                        /\ UNCHANGED pc
    /\ UNCHANGED <<states, stt, alphabet, startState, errorState, stopStates>>

\* Mutant: addEvent called with front = false, as raise does.
HandlerTransitionAtBack(e) ==
    /\ pc = "handler"
    /\ Accept(e)
    /\ ~inTransition
    /\ Len(events) < MaxQueue
    /\ events' = Append(events, [ev |-> e, src |-> "transition"])
    /\ inTransition' = TRUE
    /\ UNCHANGED <<states, stt, alphabet, startState, errorState, stopStates,
                   current, status, pc>>

\* transition(event, args...) called by the running handler: rejected when
\* not accepted or while an earlier one is pending; queued at the front.
HandlerTransition(e) ==
    /\ pc = "handler"
    /\ Accept(e)
    /\ ~inTransition
    /\ Len(events) < MaxQueue
    /\ events' = <<[ev |-> e, src |-> "transition"]>> \o events
    /\ inTransition' = TRUE
    /\ UNCHANGED <<states, stt, alphabet, startState, errorState, stopStates,
                   current, status, pc>>

\* The handler returns ok; false sends the engine to its error state.
\* Either way the step ends and m_in_transition is cleared.
HandlerReturn(ok) ==
    /\ pc = "handler"
    /\ ok \in IF current \in MayFail THEN BOOLEAN ELSE {TRUE}
    /\ pc' = "idle"
    /\ inTransition' = FALSE
    /\ IF ok THEN UNCHANGED <<current, status>> ELSE ToErrorState
    /\ UNCHANGED <<states, stt, alphabet, startState, errorState, stopStates,
                   events>>

-----------------------------------------------------------------------------

Next ==
    \/ \E s \in StateIds : AddState(s)
    \/ \E r \in Rows : AddTransition(r[1], r[2], r[3])
    \/ \E s \in StartIds : SetStartState(s)
    \/ \E s \in ErrorIds : SetErrorState(s)
    \/ \E s \in StopIds : AddStopState(s)
    \/ \E b \in StateBatches : AddStates(b)
    \/ \E b \in StopBatches : AddStopStates(b)
    \/ \E e \in Symbols : AddAlphabetSymbol(e)
    \/ \E c \in StartChecks : Start(c)
    \/ Halt
    \/ Stop
    \/ \E e \in Events : Raise(e)
    \/ StepBegin
    \/ \E e \in Events : HandlerTransition(e)
    \/ \E ok \in BOOLEAN : HandlerReturn(ok)

Spec == Init /\ [][Next]_vars

\* Some call is eventually made whenever one can change the engine.
FairSpec == Spec /\ WF_vars(Next)

\* The driver loop the spec describes calls the step again and again, and a
\* state handler returns: both take their step whenever they can.
DriverSpec ==
    /\ Spec
    /\ WF_vars(StepBegin)
    /\ WF_vars(\E ok \in BOOLEAN : HandlerReturn(ok))

-----------------------------------------------------------------------------
(* The queue seen as the abstract EventQueue                               *)

\* The head of m_events was queued by a handler.
HeadIsHandler == events # <<>> /\ Head(events).src = "transition"

\* The event symbols of a sequence of queue entries.
Evs(q) == [i \in 1..Len(q) |-> q[i].ev]

Queue == INSTANCE EventQueue WITH
             Msgs <- Events,
             urgent <- IF HeadIsHandler THEN <<Head(events).ev>> ELSE <<>>,
             fifo <- Evs(IF HeadIsHandler THEN Tail(events) ELSE events)

-----------------------------------------------------------------------------
(* Properties                                                              *)

\* Type invariant.  m_status only ever latches Stopped, Running or Error:
\* StateChanged, StateUnchanged and Fault are results of a step, never
\* stored.
TypeOK ==
    /\ states \subseteq StateIds
    /\ stt \in [StateIds \X Events -> StateIds \cup {NoId}]
    /\ alphabet \subseteq Events
    /\ startState \in StateIds \cup {NoId}
    /\ errorState \in StateIds \cup {NoId}
    /\ stopStates \subseteq StateIds
    /\ current \in StateIds \cup {NoId}
    /\ status \in Status
    /\ events \in Seq(QueueEntry)
    /\ inTransition \in BOOLEAN
    /\ pc \in {"idle", "handler"}

\* The comment in transition(event, args, ...) claims that the lookup of a
\* dequeued event always finds a row, because the machine was validated and
\* the event was accepted when it was queued.  So while the engine runs,
\* every queued event is accepted by the current state and leads to a
\* registered state: no step takes the undefined path.
QueueAccepted ==
    Running /\ Free =>
        \A i \in 1..Len(events) :
            Lookup(current, events[i].ev) \in states

\* transition() queues at the front and at most one may be pending, so an
\* event queued by a handler is always the next to be consumed: it sits at
\* the head, ahead of every raised event, and is the only one of its kind.
HandlerEventFirst ==
    \A i \in 1..Len(events) : events[i].src = "transition" => i = 1

\* The one deque m_events, with raise appending at the back, transition()
\* pushing at the front while m_in_transition is clear, and the step
\* popping the front, implements EventQueue: raised events are served in
\* order, and a handler's event before all of them, one at a time.
QueueRefinement == Queue!Spec

\* An event a handler queued.
HandlerEventPending == \E i \in 1..Len(events) : events[i].src = "transition"

\* Under the driver loop, an event a handler queued is always consumed,
\* even when the engine is halted or fails before it is served: the step
\* pops the event before it checks that the engine runs.
HandlerEventConsumed == HandlerEventPending ~> ~HandlerEventPending

\* Spec, sections 3 and 7: after a handler failure the engine is in its
\* error state, from which it moves to Stopped.
ErrorLeadsToStopped == (status = "Error") ~> (status = "Stopped")

=============================================================================
