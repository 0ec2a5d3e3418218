---------------------------- MODULE FsmBase_proofs ----------------------------
(***************************************************************************)
(* Machine-checked proofs about the FsmBase engine, for every value of the *)
(* constants that satisfies FsmAssumption.                                 *)
(***************************************************************************)
EXTENDS FsmBase, TLAPS

-----------------------------------------------------------------------------
(* Type correctness                                                        *)

\* The constructor leaves every field with a value of its type.
LEMMA InitTypeOK == Init => TypeOK
<1> SUFFICES ASSUME Init PROVE TypeOK
    OBVIOUS
<1>1. stt \in [StateIds \X Events -> StateIds \cup {NoId}]
    BY DEF Init
<1>2. events \in Seq(QueueEntry)
    BY DEF Init
<1>. QED
    BY <1>1, <1>2 DEF Init, TypeOK, Status

\* Every member function keeps every field within its type; in particular
\* m_status only receives Stopped, Running and Error.
LEMMA NextTypeOK == TypeOK /\ [Next]_vars => TypeOK'
<1> SUFFICES ASSUME TypeOK, [Next]_vars PROVE TypeOK'
    OBVIOUS
<1> USE FsmAssumption
<1>1. ASSUME NEW s \in StateIds, AddState(s) PROVE TypeOK'
    BY <1>1 DEF AddState, TypeOK
<1>2. ASSUME NEW r \in Rows, AddTransition(r[1], r[2], r[3]) PROVE TypeOK'
    <2>1. r[1] \in StateIds /\ r[2] \in Events /\ r[3] \in StateIds
        OBVIOUS
    <2>2. stt' \in [StateIds \X Events -> StateIds \cup {NoId}]
        BY <1>2, <2>1 DEF AddTransition, TypeOK, HasRow
    <2>3. alphabet' \subseteq Events
        BY <1>2, <2>1 DEF AddTransition, TypeOK
    <2>. QED
        BY <1>2, <2>2, <2>3 DEF AddTransition, TypeOK
<1>3. ASSUME NEW s \in StartIds, SetStartState(s) PROVE TypeOK'
    BY <1>3 DEF SetStartState, TypeOK
<1>4. ASSUME NEW s \in ErrorIds, SetErrorState(s) PROVE TypeOK'
    BY <1>4 DEF SetErrorState, TypeOK
<1>5. ASSUME NEW s \in StopIds, AddStopState(s) PROVE TypeOK'
    BY <1>5 DEF AddStopState, TypeOK
<1>6. ASSUME NEW e \in Symbols, AddAlphabetSymbol(e) PROVE TypeOK'
    BY <1>6 DEF AddAlphabetSymbol, TypeOK
<1>7. ASSUME NEW c \in StartChecks, Start(c) PROVE TypeOK'
    BY <1>7 DEF Start, TypeOK, Status
<1>8. CASE Halt
    BY <1>8 DEF Halt, TypeOK, Status
<1>9. CASE Stop
    BY <1>9 DEF Stop, TypeOK, Status
<1>10. ASSUME NEW e \in Events, Raise(e) PROVE TypeOK'
    BY <1>10 DEF Raise, TypeOK, QueueEntry, Sources
<1>11. CASE StepBegin
    <2>1. events' \in Seq(QueueEntry)
        BY <1>11 DEF StepBegin, TypeOK
    <2>2. CASE ~Running
        BY <1>11, <2>1, <2>2 DEF StepBegin, TypeOK
    <2>3. CASE Running
        <3> DEFINE next == Lookup(current, Head(events).ev)
        <3>1. next \in states
            BY <1>11, <2>3 DEF StepBegin
        <3>2. CASE next \in HasAction
            BY <1>11, <2>1, <2>3, <3>1, <3>2 DEF StepBegin, TypeOK
        <3>3. CASE next \notin HasAction
            BY <1>11, <2>1, <2>3, <3>3 DEF StepBegin, ToErrorState, TypeOK,
                                           Status
        <3>. QED
            BY <3>2, <3>3
    <2>. QED
        BY <2>2, <2>3
<1>12. ASSUME NEW e \in Events, HandlerTransition(e) PROVE TypeOK'
    BY <1>12 DEF HandlerTransition, TypeOK, QueueEntry, Sources
<1>13. ASSUME NEW ok \in BOOLEAN, HandlerReturn(ok) PROVE TypeOK'
    BY <1>13 DEF HandlerReturn, ToErrorState, TypeOK, Status
<1>14. CASE UNCHANGED vars
    BY <1>14 DEF vars, TypeOK
<1>15. ASSUME NEW b \in StateBatches, AddStates(b) PROVE TypeOK'
    <2>1. AddedPrefix(b) \subseteq StateIds
        BY DEF AddedPrefix
    <2>. QED
        BY <1>15, <2>1 DEF AddStates, TypeOK
<1>16. ASSUME NEW b \in StopBatches, AddStopStates(b) PROVE TypeOK'
    BY <1>16 DEF AddStopStates, TypeOK
<1>. QED
    BY <1>1, <1>2, <1>3, <1>4, <1>5, <1>6, <1>7, <1>8, <1>9, <1>10, <1>11,
       <1>12, <1>13, <1>14, <1>15, <1>16 DEF Next

\* TypeOK is an invariant of the engine.
THEOREM TypeCorrect == Spec => []TypeOK
BY InitTypeOK, NextTypeOK, PTL DEF Spec

-----------------------------------------------------------------------------
(* The event queued by a handler is consumed next                          *)

\* Every queued event was raised.
AllRaised(q) == \A i \in 1..Len(q) : q[i].src = "raise"

\* HandlerEventFirst is not inductive by itself: a handler may queue at the
\* front only if no handler event is pending, and that rests on the flag.
\* m_in_transition is only ever set inside a handler (it is cleared when
\* the step ends), and while a handler runs with the flag clear the queue
\* holds raised events only, because the step has just popped the head.
IInv ==
    /\ TypeOK
    /\ HandlerEventFirst
    /\ Free => ~inTransition
    /\ pc = "handler" /\ ~inTransition => AllRaised(events)

\* Popping the head of a queue that satisfies HandlerEventFirst leaves
\* raised events only.
LEMMA TailAllRaised ==
    ASSUME NEW q \in Seq(QueueEntry), q # <<>>,
           \A i \in 1..Len(q) : q[i].src = "transition" => i = 1
    PROVE  AllRaised(Tail(q))
<1> SUFFICES ASSUME NEW i \in 1..Len(Tail(q))
             PROVE  Tail(q)[i].src = "raise"
    BY DEF AllRaised
<1>1. Tail(q)[i] = q[i + 1] /\ i + 1 \in 1..Len(q)
    OBVIOUS
<1>2. q[i + 1] \in QueueEntry
    BY <1>1
<1>. QED
    BY <1>1, <1>2 DEF QueueEntry, Sources

\* Appending a raised event keeps HandlerEventFirst.
LEMMA AppendRaise ==
    ASSUME NEW q \in Seq(QueueEntry), NEW e \in Events,
           \A i \in 1..Len(q) : q[i].src = "transition" => i = 1
    PROVE  LET r == Append(q, [ev |-> e, src |-> "raise"])
           IN  \A i \in 1..Len(r) : r[i].src = "transition" => i = 1
BY DEF QueueEntry

\* Pushing a handler event in front of raised events keeps
\* HandlerEventFirst.
LEMMA PushFront ==
    ASSUME NEW q \in Seq(QueueEntry), NEW e \in Events, AllRaised(q)
    PROVE  LET r == <<[ev |-> e, src |-> "transition"]>> \o q
           IN  \A i \in 1..Len(r) : r[i].src = "transition" => i = 1
<1> DEFINE r == <<[ev |-> e, src |-> "transition"]>> \o q
<1> SUFFICES ASSUME NEW i \in 1..Len(r), i # 1
             PROVE  r[i].src # "transition"
    OBVIOUS
<1>1. r[i] = q[i - 1] /\ i - 1 \in 1..Len(q)
    OBVIOUS
<1>. QED
    BY <1>1 DEF AllRaised

LEMMA InitIInv == Init => IInv
BY InitTypeOK DEF Init, IInv, HandlerEventFirst, Free

LEMMA NextIInv == IInv /\ [Next]_vars => IInv'
<1> SUFFICES ASSUME IInv, [Next]_vars PROVE IInv'
    OBVIOUS
<1>0. TypeOK'
    BY NextTypeOK DEF IInv
<1> USE DEF IInv
<1> DEFINE Q == UNCHANGED <<events, inTransition, pc>>
<1>q. ASSUME Q PROVE IInv'
    BY <1>0, <1>q DEF HandlerEventFirst, Free, AllRaised
<1>1. ASSUME NEW s \in StateIds, AddState(s) PROVE IInv'
    BY <1>1, <1>q DEF AddState
<1>2. ASSUME NEW r \in Rows, AddTransition(r[1], r[2], r[3]) PROVE IInv'
    BY <1>2, <1>q DEF AddTransition
<1>3. ASSUME NEW s \in StartIds, SetStartState(s) PROVE IInv'
    BY <1>3, <1>q DEF SetStartState
<1>4. ASSUME NEW s \in ErrorIds, SetErrorState(s) PROVE IInv'
    BY <1>4, <1>q DEF SetErrorState
<1>5. ASSUME NEW s \in StopIds, AddStopState(s) PROVE IInv'
    BY <1>5, <1>q DEF AddStopState
<1>6. ASSUME NEW e \in Symbols, AddAlphabetSymbol(e) PROVE IInv'
    BY <1>6, <1>q DEF AddAlphabetSymbol
<1>7. ASSUME NEW c \in StartChecks, Start(c) PROVE IInv'
    BY <1>7, <1>q DEF Start
<1>8. CASE Halt
    BY <1>8, <1>q DEF Halt
<1>9. CASE Stop
    BY <1>9, <1>q DEF Stop
<1>10. ASSUME NEW e \in Events, Raise(e) PROVE IInv'
    <2>1. HandlerEventFirst'
        BY <1>10, AppendRaise DEF Raise, TypeOK, HandlerEventFirst
    <2>. QED
        BY <1>0, <1>10, <2>1 DEF Raise, Free
<1>11. CASE StepBegin
    <2>1. AllRaised(events')
        BY <1>11, TailAllRaised DEF StepBegin, TypeOK, HandlerEventFirst
    <2>2. HandlerEventFirst'
        BY <2>1 DEF AllRaised, HandlerEventFirst
    <2>3. ~inTransition'
        <3>1. ~inTransition
            BY <1>11 DEF StepBegin, Free
        <3>. QED
            BY <1>11, <3>1 DEF StepBegin, ToErrorState
    <2>. QED
        BY <1>0, <2>1, <2>2, <2>3
<1>12. ASSUME NEW e \in Events, HandlerTransition(e) PROVE IInv'
    <2>1. AllRaised(events)
        BY <1>12 DEF HandlerTransition
    <2>2. HandlerEventFirst'
        BY <1>12, <2>1, PushFront DEF HandlerTransition, TypeOK,
                                      HandlerEventFirst
    <2>. QED
        BY <1>0, <1>12, <2>2 DEF HandlerTransition, Free
<1>13. ASSUME NEW ok \in BOOLEAN, HandlerReturn(ok) PROVE IInv'
    BY <1>0, <1>13 DEF HandlerReturn, ToErrorState, HandlerEventFirst, Free
<1>14. CASE UNCHANGED vars
    BY <1>14, <1>q DEF vars
<1>15. ASSUME NEW b \in StateBatches, AddStates(b) PROVE IInv'
    BY <1>15, <1>q DEF AddStates
<1>16. ASSUME NEW b \in StopBatches, AddStopStates(b) PROVE IInv'
    BY <1>16, <1>q DEF AddStopStates
<1>. QED
    BY <1>1, <1>2, <1>3, <1>4, <1>5, <1>6, <1>7, <1>8, <1>9, <1>10, <1>11,
       <1>12, <1>13, <1>14, <1>15, <1>16 DEF Next

\* An event queued by a state handler through transition() is always at
\* the head of the queue, and it is the only such event: the step after
\* the handler's consumes it before any raised event.
THEOREM HandlerEventFirstHolds == Spec => []HandlerEventFirst
<1>1. IInv => HandlerEventFirst
    BY DEF IInv
<1>. QED
    BY InitIInv, NextIInv, <1>1, PTL DEF Spec


-----------------------------------------------------------------------------
(* The engine's queue implements EventQueue                                *)

\* What Evs does to a queue that grows at the back, shrinks at the front
\* or grows at the front.
LEMMA EvsAppend ==
    ASSUME NEW q \in Seq(QueueEntry), NEW x \in QueueEntry
    PROVE  Evs(Append(q, x)) = Append(Evs(q), x.ev)
BY DEF Evs

LEMMA EvsTail ==
    ASSUME NEW q \in Seq(QueueEntry), q # <<>>
    PROVE  Evs(Tail(q)) = Tail(Evs(q))
BY DEF Evs

LEMMA EvsPush ==
    ASSUME NEW q \in Seq(QueueEntry), NEW x \in QueueEntry
    PROVE  Evs(Tail(<<x>> \o q)) = Evs(q)
BY DEF Evs

\* Appending at the back of a non-empty queue keeps its head and appends
\* to its tail.
LEMMA AppendNonEmpty ==
    ASSUME NEW q \in Seq(QueueEntry), q # <<>>, NEW x \in QueueEntry
    PROVE  /\ Head(Append(q, x)) = Head(q)
           /\ Tail(Append(q, x)) = Append(Tail(q), x)
OBVIOUS

\* The abstract queue starts empty.
LEMMA InitQueue == Init => Queue!Init
BY DEF Init, Queue!Init, HeadIsHandler, Evs

\* Every step of the engine is a step of EventQueue or leaves the abstract
\* queue as it is.  The step that pops a raised event relies on
\* HandlerEventFirst (a handler's event can only be at the head), and
\* transition() relies on the queue holding raised events only while a
\* handler runs with m_in_transition clear.
LEMMA NextQueue == IInv /\ [Next]_vars => [Queue!Next]_Queue!qvars
<1> SUFFICES ASSUME IInv, [Next]_vars PROVE [Queue!Next]_Queue!qvars
    OBVIOUS
<1> DEFINE U == IF HeadIsHandler THEN <<Head(events).ev>> ELSE <<>>
           F == Evs(IF HeadIsHandler THEN Tail(events) ELSE events)
<1>0. events \in Seq(QueueEntry)
    BY DEF IInv, TypeOK
<1>q. CASE UNCHANGED events
    BY <1>q DEF Queue!qvars, HeadIsHandler, Evs
<1>1. ASSUME NEW e \in Events, Raise(e) PROVE Queue!Put(e)
    <2> DEFINE x == [ev |-> e, src |-> "raise"]
    <2>1. x \in QueueEntry /\ events' = Append(events, x)
        BY <1>1 DEF Raise, QueueEntry, Sources
    <2>2. CASE events = <<>>
        BY <2>1, <2>2 DEF Queue!Put, HeadIsHandler, Evs
    <2>3. CASE events # <<>>
        <3>1. Head(events') = Head(events)
              /\ Tail(events') = Append(Tail(events), x)
            BY <2>1, <2>3, <1>0, AppendNonEmpty
        <3>2. HeadIsHandler' = HeadIsHandler
            BY <2>1, <2>3, <3>1 DEF HeadIsHandler
        <3>0. Tail(events) \in Seq(QueueEntry) /\ x.ev = e
            BY <2>3, <1>0
        <3>3. Evs(Tail(events')) = Append(Evs(Tail(events)), e)
            BY <2>1, <3>0, <3>1, EvsAppend
        <3>4. Evs(events') = Append(Evs(events), e)
            BY <2>1, <1>0, EvsAppend
        <3>. QED
            BY <3>1, <3>2, <3>3, <3>4 DEF Queue!Put
    <2>. QED
        BY <2>2, <2>3
<1>2. ASSUME StepBegin PROVE Queue!Take
    <2>1. events # <<>> /\ events' = Tail(events)
        BY <1>2 DEF StepBegin
    <2>2. AllRaised(events')
        BY <2>1, <1>0, TailAllRaised DEF IInv, HandlerEventFirst
    <2>3. ~HeadIsHandler'
        <3>1. events' # <<>> => Head(events').src = "raise"
            BY <2>2 DEF AllRaised
        <3>. QED
            BY <3>1 DEF HeadIsHandler
    <2>a. U' = <<>> /\ F' = Evs(events')
        BY <2>3
    <2>4. CASE HeadIsHandler
        <3>1. U # <<>> /\ F = Evs(Tail(events))
            BY <2>4
        <3>2. Evs(events') = Evs(Tail(events))
            BY <2>1
        <3>. QED
            BY <2>a, <3>1, <3>2 DEF Queue!Take
    <2>5. CASE ~HeadIsHandler
        <3>1. Evs(events') = Tail(Evs(events))
            BY <2>1, <1>0, EvsTail
        <3>2. Evs(events) # <<>>
            BY <2>1, <1>0 DEF Evs
        <3>3. U = <<>> /\ F = Evs(events)
            BY <2>5
        <3>. QED
            BY <2>a, <3>1, <3>2, <3>3 DEF Queue!Take
    <2>. QED
        BY <2>4, <2>5
<1>3. ASSUME NEW e \in Events, HandlerTransition(e) PROVE Queue!Push(e)
    <2> DEFINE x == [ev |-> e, src |-> "transition"]
    <2>1. x \in QueueEntry /\ events' = <<x>> \o events
        BY <1>3 DEF HandlerTransition, QueueEntry, Sources
    <2>2. AllRaised(events)
        BY <1>3 DEF HandlerTransition, IInv
    <2>3. ~HeadIsHandler
        BY <2>2 DEF AllRaised, HeadIsHandler
    <2>4. HeadIsHandler' /\ Head(events').ev = e
        BY <2>1, <1>0 DEF HeadIsHandler
    <2>5. Evs(Tail(events')) = Evs(events)
        BY <2>1, <1>0, EvsPush
    <2>. QED
        BY <2>3, <2>4, <2>5 DEF Queue!Push
<1>. QED
    <2>1. ASSUME NEW e \in Events, Raise(e) PROVE [Queue!Next]_Queue!qvars
        BY <1>1, <2>1 DEF Queue!Next
    <2>2. ASSUME NEW e \in Events, HandlerTransition(e)
          PROVE [Queue!Next]_Queue!qvars
        BY <1>3, <2>2 DEF Queue!Next
    <2>3. ASSUME StepBegin PROVE [Queue!Next]_Queue!qvars
        BY <1>2, <2>3 DEF Queue!Next
    <2>. QED
        BY <2>1, <2>2, <2>3, <1>q
        DEF Next, AddState, AddTransition, SetStartState, SetErrorState,
            AddStopState, AddStates, AddStopStates, AddAlphabetSymbol, Start,
            Halt, Stop, HandlerReturn, vars

\* The engine implements EventQueue: raised events are served first in,
\* first out, a handler's event ahead of them, one at a time, whatever
\* the builder, run and step calls interleaved with them.
THEOREM QueueRefinementHolds == Spec => QueueRefinement
<1>1. []IInv /\ [][Next]_vars => [][Queue!Next]_Queue!qvars
    BY NextQueue, PTL
<1>2. Spec => []IInv
    BY InitIInv, NextIInv, PTL DEF Spec
<1>. QED
    BY <1>1, <1>2, InitQueue, PTL DEF Spec, QueueRefinement, Queue!Spec

-----------------------------------------------------------------------------
(* Every queued event is accepted while the engine runs                    *)

\* The discipline of a program that keeps the claim of transition(event,
\* args, ...) true: it registers the ends of a row before adding it, it
\* builds only while the engine is stopped, it always starts with
\* start(true), and its start state has a handler (valid() does not ask
\* for one; MC_FsmStaleQueue shows what happens without it).
QueueDiscipline ==
    /\ RegisterFirst
    /\ ~BuildWhileRunning
    /\ StartChecks \subseteq {TRUE}
    /\ StartIds \subseteq HasAction

\* Every row leads to a registered state and its symbol is in m_alphabet
\* (addTransition calls updateAlphabet).
RowsRegistered ==
    \A k \in StateIds \X Events :
        stt[k] # NoId => stt[k] \in states /\ k[2] \in alphabet

\* Every queued event is a symbol of m_alphabet.
QueuedInAlphabet == \A i \in 1..Len(events) : events[i].ev \in alphabet

\* The start state, once set, is registered and has a handler.
StartRegistered == startState # NoId => startState \in states \cap HasAction

\* While the engine runs, the machine is still the one valid() checked,
\* and the current state is a registered state with a handler.
RunningValid == Running => current \in states \cap HasAction /\ Deterministic

\* QueueAccepted is not inductive: the proof needs to know where the rows
\* lead, which symbols are queued and that the checked machine is the
\* running one.  (Checked with TLC on the fsm_core instance.)
QInv ==
    /\ TypeOK
    /\ RowsRegistered
    /\ QueuedInAlphabet
    /\ StartRegistered
    /\ RunningValid

\* A row that lookup finds lies in a registered state of the climb, so
\* whatever lookup returns, other than NoId, is a registered state and the
\* event is a symbol of the alphabet.
LEMMA LookupRow ==
    ASSUME TypeOK, RowsRegistered, NEW s \in StateIds, NEW e \in Events,
           Lookup(s, e) # NoId
    PROVE  Lookup(s, e) \in states /\ e \in alphabet
<1> DEFINE I == {i \in 1..Len(ParentChain[s]) : NearestRow(s, e, i)}
           j == CHOOSE i \in 1..Len(ParentChain[s]) : NearestRow(s, e, i)
           c == ParentChain[s][j]
<1>1. I # {}
    BY DEF Lookup
<1>2. j \in 1..Len(ParentChain[s]) /\ NearestRow(s, e, j)
    BY <1>1
<1>3. c \in states /\ stt[<<c, e>>] # NoId
    <2>1. j \in 1..j
        BY <1>2
    <2>2. c \in states
        BY <1>2, <2>1 DEF NearestRow
    <2>. QED
        BY <1>2, <2>2 DEF NearestRow, HasRow
<1>4. <<c, e>> \in StateIds \X Events
    BY <1>3 DEF TypeOK
<1>5. Lookup(s, e) = stt[<<c, e>>]
    BY <1>1 DEF Lookup
<1>. QED
    BY <1>3, <1>4, <1>5 DEF RowsRegistered

\* The steps that leave the machine alone leave its determinism alone.
LEMMA DeterministicUnchanged ==
    ASSUME UNCHANGED <<states, stt, alphabet>>
    PROVE  Deterministic' = Deterministic
BY DEF Deterministic, Lookup, NearestRow, HasRow

\* A builder call happens only while the engine does not run.
LEMMA BuildStopped ==
    ASSUME QueueDiscipline, Building PROVE ~Running
BY DEF QueueDiscipline, Building

LEMMA InitQInv == Init => QInv
BY InitTypeOK DEF Init, QInv, RowsRegistered, QueuedInAlphabet,
                  StartRegistered, RunningValid, Running

\* Every member function keeps QInv under the discipline.
LEMMA NextQInv ==
    ASSUME QueueDiscipline PROVE QInv /\ [Next]_vars => QInv'
<1> SUFFICES ASSUME QInv, [Next]_vars PROVE QInv'
    OBVIOUS
<1>0. TypeOK'
    BY NextTypeOK DEF QInv
<1> USE FsmAssumption DEF QInv
<1>1. ASSUME NEW s \in StateIds, AddState(s) PROVE QInv'
    BY <1>0, <1>1, BuildStopped
       DEF AddState, RowsRegistered, QueuedInAlphabet, StartRegistered,
           RunningValid, Running
<1>2. ASSUME NEW r \in Rows, AddTransition(r[1], r[2], r[3]) PROVE QInv'
    <2>1. r[3] \in states
        BY <1>2 DEF AddTransition, QueueDiscipline
    <2>2. RowsRegistered'
        BY <1>2, <2>1 DEF AddTransition, RowsRegistered, HasRow, TypeOK
    <2>. QED
        BY <1>0, <1>2, <2>2, BuildStopped
           DEF AddTransition, QueuedInAlphabet, StartRegistered,
               RunningValid, Running
<1>3. ASSUME NEW s \in StartIds, SetStartState(s) PROVE QInv'
    BY <1>0, <1>3, BuildStopped
       DEF SetStartState, RowsRegistered, QueuedInAlphabet, StartRegistered,
           RunningValid, Running, QueueDiscipline
<1>4. ASSUME NEW s \in ErrorIds, SetErrorState(s) PROVE QInv'
    BY <1>0, <1>4, BuildStopped
       DEF SetErrorState, RowsRegistered, QueuedInAlphabet, StartRegistered,
           RunningValid, Running
<1>5. ASSUME NEW s \in StopIds, AddStopState(s) PROVE QInv'
    BY <1>0, <1>5, BuildStopped
       DEF AddStopState, RowsRegistered, QueuedInAlphabet, StartRegistered,
           RunningValid, Running
<1>6. ASSUME NEW e \in Symbols, AddAlphabetSymbol(e) PROVE QInv'
    BY <1>0, <1>6, BuildStopped
       DEF AddAlphabetSymbol, RowsRegistered, QueuedInAlphabet,
           StartRegistered, RunningValid, Running
<1>7. ASSUME NEW c \in StartChecks, Start(c) PROVE QInv'
    <2>1. Valid
        BY <1>7 DEF Start, QueueDiscipline
    <2>2. Deterministic'
        BY <1>7, <2>1, DeterministicUnchanged DEF Start, Valid
    <2>3. current' \in states \cap HasAction
        BY <1>7 DEF Start, StartRegistered
    <2>. QED
        BY <1>0, <1>7, <2>2, <2>3
           DEF Start, RowsRegistered, QueuedInAlphabet, StartRegistered,
               RunningValid
<1>8. CASE Halt
    BY <1>0, <1>8 DEF Halt, RowsRegistered, QueuedInAlphabet,
                      StartRegistered, RunningValid, Running
<1>9. CASE Stop
    BY <1>0, <1>9 DEF Stop, RowsRegistered, QueuedInAlphabet,
                      StartRegistered, RunningValid, Running
<1>10. ASSUME NEW e \in Events, Raise(e) PROVE QInv'
    <2>1. e \in alphabet
        BY <1>10, LookupRow DEF Raise, Accept, RunningValid, TypeOK
    <2>2. QueuedInAlphabet'
        BY <1>10, <2>1 DEF Raise, QueuedInAlphabet, TypeOK
    <2>3. Deterministic' = Deterministic
        BY <1>10, DeterministicUnchanged DEF Raise
    <2>. QED
        BY <1>0, <1>10, <2>2, <2>3
           DEF Raise, RowsRegistered, StartRegistered, RunningValid, Running
<1>11. CASE StepBegin
    <2>1. QueuedInAlphabet'
        BY <1>11 DEF StepBegin, QueuedInAlphabet, TypeOK
    <2>2. Deterministic' = Deterministic
        BY <1>11, DeterministicUnchanged DEF StepBegin
    <2>3. RunningValid'
        <3>1. CASE ~Running
            BY <1>11, <3>1 DEF StepBegin, RunningValid, Running
        <3>2. CASE Running
            BY <1>11, <2>2, <3>2
               DEF StepBegin, ToErrorState, RunningValid, Running
        <3>. QED
            BY <3>1, <3>2
    <2>. QED
        BY <1>0, <1>11, <2>1, <2>3
           DEF StepBegin, RowsRegistered, StartRegistered
<1>12. ASSUME NEW e \in Events, HandlerTransition(e) PROVE QInv'
    <2>1. e \in alphabet
        BY <1>12, LookupRow DEF HandlerTransition, Accept, RunningValid,
                                TypeOK
    <2>2. QueuedInAlphabet'
        BY <1>12, <2>1 DEF HandlerTransition, QueuedInAlphabet, TypeOK
    <2>3. Deterministic' = Deterministic
        BY <1>12, DeterministicUnchanged DEF HandlerTransition
    <2>. QED
        BY <1>0, <1>12, <2>2, <2>3
           DEF HandlerTransition, RowsRegistered, StartRegistered,
               RunningValid, Running
<1>13. ASSUME NEW ok \in BOOLEAN, HandlerReturn(ok) PROVE QInv'
    <2>1. Deterministic' = Deterministic
        BY <1>13, DeterministicUnchanged DEF HandlerReturn
    <2>. QED
        BY <1>0, <1>13, <2>1
           DEF HandlerReturn, ToErrorState, RowsRegistered, QueuedInAlphabet,
               StartRegistered, RunningValid, Running
<1>14. CASE UNCHANGED vars
    <2>1. Deterministic' = Deterministic
        BY <1>14, DeterministicUnchanged DEF vars
    <2>. QED
        BY <1>0, <1>14, <2>1
           DEF vars, RowsRegistered, QueuedInAlphabet, StartRegistered,
               RunningValid, Running
<1>15. ASSUME NEW b \in StateBatches, AddStates(b) PROVE QInv'
    BY <1>0, <1>15, BuildStopped
       DEF AddStates, RowsRegistered, QueuedInAlphabet, StartRegistered,
           RunningValid, Running
<1>16. ASSUME NEW b \in StopBatches, AddStopStates(b) PROVE QInv'
    BY <1>0, <1>16, BuildStopped
       DEF AddStopStates, RowsRegistered, QueuedInAlphabet, StartRegistered,
           RunningValid, Running
<1>. QED
    BY <1>1, <1>2, <1>3, <1>4, <1>5, <1>6, <1>7, <1>8, <1>9, <1>10, <1>11,
       <1>12, <1>13, <1>14, <1>15, <1>16 DEF Next

\* QInv gives QueueAccepted: a queued symbol is in the alphabet, the
\* current state is registered and has a handler, and the machine is
\* deterministic, so the lookup finds a row, and a row leads to a
\* registered state.
LEMMA QInvAccepted == QInv => QueueAccepted
<1> SUFFICES ASSUME QInv, Running, NEW i \in 1..Len(events)
             PROVE  Lookup(current, events[i].ev) \in states
    BY DEF QueueAccepted
<1>1. events[i].ev \in alphabet /\ events[i].ev \in Events
    BY DEF QInv, QueuedInAlphabet, TypeOK, QueueEntry
<1>2. current \in states \cap HasAction /\ Deterministic
    BY DEF QInv, RunningValid
<1>3. Lookup(current, events[i].ev) # NoId
    BY <1>1, <1>2 DEF Deterministic
<1>. QED
    BY <1>1, <1>2, <1>3, LookupRow DEF QInv, TypeOK

\* The comment in transition(event, args, ...) holds for every program that
\* registers the ends of a row before adding it, builds only while the
\* engine is stopped, starts with start(true) and gives its start state a
\* handler: while the engine runs, every queued event has a row from the
\* current state to a registered state, so the step never dereferences an
\* empty lookup result.
THEOREM QueueAcceptedHolds == QueueDiscipline => (Spec => []QueueAccepted)
<1> SUFFICES ASSUME QueueDiscipline PROVE Spec => []QueueAccepted
    OBVIOUS
<1>. QED
    BY InitQInv, NextQInv, QInvAccepted, PTL DEF Spec

=============================================================================
