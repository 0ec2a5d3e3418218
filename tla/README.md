# TLA+ models of lwIoT

This directory holds TLA+ models of parts of lwIoT. Each model is checked with TLC on small instances, and some of its properties are proved with TLAPS for every instance.

## The system

The sources under `src/` are a slice of lwIoT, an embedded IoT framework in C++. The part with real concurrent state is the generic finite state machine engine `lwiot::detail_fsm::FsmBase` (in `src/include/lwiot/avr/avrspibus.h`, lines 49 to 1800). It works like this:

- **Building.** A client builds a machine with the builder calls: `addState`, `addTransition`, `setStartState`, `setErrorState`, `addStopState(s)` and `addAlphabetSymbol`.
  - States form a hierarchy through their parent ids.
  - `lookup(state, event)` climbs from a state through its ancestors to the first one with a row for the event.
- **Running.** `start(check)` makes the engine Running. Other threads then call `raise(event)`, which queues the event at the back. A driver thread repeatedly calls the step `transition()`, which:
  - pops the front event;
  - moves to the next state of its row;
  - runs that state's handler while still holding the engine's recursive mutex.
- **Handler transitions.** A handler may call `transition(event)`, which queues at the front. Only one such call can be pending, as tracked by `m_in_transition`.
- **Failure.** A handler that fails sends the engine to its error state, with status Error.
- **Stopping.** `stop()` ends a run in a stop state or the error state; `halt()` ends it at once.

The other components are listed in `PROJECT.json` under "components". Most of them are I/O wrappers, formatting, or declarations without bodies. Four more have state worth modelling and are modelled here:

- the two-engine operations `copy`, `swap` and `move` of `FsmBase`;
- `lwiot::UniquePointer` (`src/include/lwiot/uniquepointer.h`), a pointer that owns its object and passes ownership on copy;
- `lwiot::SocketTcpServer` (`src/source/net/tcp/tcpclient.cpp`) over the socket layer of `src/unnamed/part_001`, which creates, binds, listens on, accepts on and closes OS sockets;
- `lwiot::Logger` (`src/source/util/log.cpp`), which puts a header at the start of every line and drops output below its stream visibility.

## Modules

| Module | Models |
|---|---|
| `FsmBase` | One engine. Its VARIABLES are the engine's fields: `m_states`, `m_stt`, `m_alphabet`, start/error/stop states, `m_current`, `m_status`, `m_events` and `m_in_transition`. `pc` says whether a step is inside a state handler. |
| `EventQueue` | The abstract queue the engine promises: one urgent slot for a handler's event, a FIFO for raised events, one event served per step. |
| `FsmBase_proofs` | TLAPS proofs about `FsmBase`, including that it refines `EventQueue`. |
| `MC_FsmBase` | The machine used by the main run. States A, B, C and Z; B is a child of A; B's handler may fail; Z has no handler. |
| `MC_FsmStaleQueue` | A start state without a handler, next to a state whose handler queues a transition. |
| `FsmStopWait`, `MC_FsmStopWait` | `FsmBase` with one client blocked in `stop(true)` on `m_stop_event`. |
| `FsmStopWait_proofs` | The TLAPS proof that the blocked client is never stranded, under the program's discipline. |
| `FsmPair`, `MC_FsmPair`, `MC_FsmPairCross` | Threads running `operator=`, move assignment and `swap` between engines, lock by lock. |
| `FsmPairWait` | `NoWaitCycle`, on the wait-for graph of those threads (`WaitsFor`, defined in `FsmPair`), kept apart because it uses `Graphs`. |
| `FsmPair_proofs` | TLAPS proofs about `FsmPair`: lock accounting, untorn engines, fields written only under the lock, and waits going upward in the address order. |
| `UniquePointer`, `UniquePointer_proofs`, `MC_UniquePointer` | UniquePointer objects, the heap objects they own and the client's raw pointers. |
| `SocketTcpServer`, `SocketTcpServer_proofs`, `MC_SocketTcpServer` | Server objects, the OS sockets they and the client sockets hold, and the endpoints sockets are bound to. |
| `Logger`, `Logger_proofs`, `MC_Logger` | The logger's `_newline`, `_visibility` and `_output`, and the tokens it writes. |

### How FsmBase corresponds to the code

Each public member function that changes a field is one action, taken whole: its guard comes from the code's early returns, and its effect includes every field it writes.

- The builder calls are `AddState`, `AddTransition`, `SetStartState`, `SetErrorState`, `AddStopState`, `AddStates`, `AddStopStates` and `AddAlphabetSymbol`.
  - `addStates` stops at the first state already registered (or repeated in the batch) and keeps the ones before it, which `AddedPrefix` computes; `addStopStates` adds all or none.
- The run calls are `Start(check)`, `Halt`, `Stop` (`stop(false)`) and `Raise(e)`.
- The step `transition()` is split at the one point where other code runs while the lock is held: the state handler.
  - `StepBegin` pops the head and, when the engine is not running, drops the event. Otherwise it looks the event up and moves to the next state, then:
    - if that state has a handler, the step enters the handler (`pc = "handler"`);
    - if it has none, the step fails into the error state.
  - `HandlerTransition(e)` is the handler calling `transition(e)` re-entrantly.
  - `HandlerReturn(ok)` is the handler returning. `ok` may be FALSE only for a state in `MayFail`. The step then clears `m_in_transition`.
- While a handler runs, no other thread can enter the engine, because every action except `AddTransition` and `AddAlphabetSymbol` requires `Free`. Those two take no lock in the code.

**Data abstraction:**

- A State is its id, a `Parent` constant and membership of `HasAction` / `MayFail`.
- Handler arguments and transition guards are left out; the engine never evaluates a guard.
- `Lookup` is written without recursion: `ParentChain[s]` is the finite chain of ancestors (which `FsmAssumption` makes acyclic), and `NearestRow` picks the first position with a row. This keeps the module within reach of the SMT backend.

**Environment constants:**

- The builder calls take their arguments from constant sets (`Rows`, `StartIds`, ...): the calls a given program makes.
- `RegisterFirst` says the client registers a state's parent and both ends of a row before using them.
- `BuildWhileRunning` lets builder calls race a running engine.
- `MaxQueue` bounds the deque.

**Undefined behaviour.** The code never checks lookup's found flag, and it indexes `m_states` with the next id. The step that would do either on a missing row or an unregistered state is not taken by the model. Instead, `QueueAccepted` says that no reachable state leads there.

## Runs

| Run | Result | What it shows |
|---|---|---|
| `fsm_core` (`MC_FsmBase.cfg`) | pass, 2124 states | `TypeOK`, `QueueAccepted` and `HandlerEventFirst` hold for a hierarchical machine, which also refines `EventQueue` (`QueueRefinement`) and, under `DriverSpec`, consumes every handler event (`HandlerEventConsumed`). The run includes handler failures, re-entrant transitions, halt and restart with `start(true)`, and a queue of 2. |
| `fsm_error_latch` (`MC_FsmBase_error.cfg`) | violation | `ErrorLeadsToStopped` fails even under weak fairness of every call (see below). |
| `fsm_stale_queue` | violation | `QueueAccepted` fails: a restart leaves events in the queue that the start state cannot take. |

**Properties:**

- `QueueAccepted` is what the comment at the step's lookup relies on: every event queued while the engine runs has a row, reached through registered states, from the current state.
- `HandlerEventFirst` says that an event queued by a handler is at the head of the queue and is the only one of its kind. `raise` appends at the back and the step clears `m_in_transition` while that event is still queued, so the head position is not obvious.
- `QueueRefinement` is `Queue!Spec`, where `Queue` instantiates `EventQueue` with this mapping:
  - `urgent` is the head of `m_events` when that head was queued by a handler (`HeadIsHandler`), else empty;
  - `fifo` is the rest of the deque, the events without their origin (`Evs`).

  `Raise` maps to `Put`, `HandlerTransition` to `Push`, and the popping `StepBegin` to `Take`; every other action leaves the deque alone and stutters. `Push` needs an empty urgent slot and `Take` must take the urgent event first. Both hold only because of `HandlerEventFirst` and its strengthening: without them, a second handler event would sit behind the first, or a raised event would be served before the handler's.
- `HandlerEventConsumed`: whenever a handler event is queued, it is eventually consumed. The step pops the head before it checks `m_status` (line 1650), so even a halted engine drains it.

**Bounds.** The bounds are a queue of 2 and four states over two events. With them the interesting cases all occur:

- a parent row inherited by a child;
- a state without a handler;
- a failing handler;
- a handler transition together with a raised event;
- a restart after halt.

**Mutants.** Each property of `fsm_core` is broken by one mutant (PROJECT.json "mutants"):

- the Fault result latched into `m_status` breaks `TypeOK`;
- `valid()` without its determinism check breaks `QueueAccepted`;
- the handler's event queued at the back breaks `HandlerEventFirst`;
- `raise` pushing to the front (`RaiseAtFront`) breaks `QueueRefinement`: a raised event overtakes the handler's;
- a step that pops only while running (`StepBeginWhenRunning`) breaks `HandlerEventConsumed`: after `halt()` the handler's event stays queued for ever.

**Fairness.** `DriverSpec` is the specification of `fsm_core`. It adds weak fairness of `StepBegin` and of the handler's return:
- the spec (line 31) has a periodic external driver call the step repeatedly;
- a state handler is ordinary code that returns.

No fairness is assumed for the clients' calls. `FairSpec` adds weak fairness of `Next`: some call is eventually made while one is enabled. It is used only to show that the Error status is latched. Even when every call keeps being made, no call leaves Error. `stop()` returns early when the engine is not running, and `valid()` rejects Error. The run needs no stronger fairness, because the failure is that no action leaves Error at all.

## Findings

1. The epsilon check in `deterministic()` (line 1360) inserts each symbol of a set into a fresh set, so it never fails. A parent and a child that both handle a symbol pass `start(true)`. This is a defect of one function that a unit test reaches; it is noted here and has no run.
2. `start()` (line 1282) resets `m_current` but neither clears `m_events` nor refuses while running. A queued event may then have no row from the start state, and the step dereferences the empty lookup result.
3. After a handler failure `m_status` stays Error. The documentation says the engine then stops, but no call sets Stopped again; only `start(false)` leaves Error.

## Proofs

`FsmBase_proofs` proves these results for every value of the constants that satisfies `FsmAssumption` (and `QueueAcceptedHolds`, under "What is proved", also assumes `QueueDiscipline`):

- **`TypeCorrect`: `Spec => []TypeOK`.** The proof shows `Init => TypeOK` and `TypeOK /\ [Next]_vars => TypeOK'`, with one step per action.
- **`HandlerEventFirstHolds`: `Spec => []HandlerEventFirst`.** `HandlerEventFirst` alone is not inductive. `HandlerTransition` pushes to the front, and that is safe only if no handler event is pending. The inductive invariant `IInv` adds two facts:
  - `m_in_transition` is clear whenever no handler runs;
  - while a handler runs with the flag clear, the queue holds raised events only, because the step has just popped the head.

  The lemmas `TailAllRaised`, `AppendRaise` and `PushFront` state what popping, appending and pushing do to the queue. `IInv` was also checked with TLC on the `fsm_core` instance.
- **`QueueRefinementHolds`: `Spec => QueueRefinement`.** `InitQueue` maps the initial state to `EventQueue`'s. `NextQueue` shows that, under `IInv`, every step is a step of `EventQueue` under the mapping or a stutter. It has one case per action that changes `m_events`:
  - `Raise` is `Put`;
  - `StepBegin` is `Take`;
  - `HandlerTransition` is `Push`.

  The lemmas `EvsAppend`, `EvsTail` and `EvsPush` relate the mapped FIFO to the deque operations. `IInv` (from `HandlerEventFirstHolds`) provides the two facts the case split needs: the tail after a pop holds raised events only, and a push happens only when no handler event is pending.

Run `tlapm FsmBase_proofs.tla` to check the proofs.

**Left to TLC.** These stay with TLC:

- liveness (`ErrorLeadsToStopped`), because the prover does not handle fairness or ENABLED;
- anything that would need induction over the parent chain.


## The stop-wait client: `FsmStopWait`

`stop(true)` (line 1246) is the only call that blocks.

- When the engine is running and its current state is neither the error state nor a stop state, the call waits on `m_stop_event`, which releases `m_lock`.
- When the call wakes, it calls `stop(false)` once.
- The step signals the event in two cases:
  - after `toErrorState` on a handler failure (line 1629);
  - when the next state is a stop state (`isStopState(next)`, line 1636).
- The event is a condition variable, not a latch. A signal that comes while nobody waits is lost.

How the model maps to this:

- `FsmStopWait` extends `FsmBase` with one variable, `waiter` (`none`, `waiting` or `woken`).
- `StopWait` is the wait of `stop(true)`. `StopWaitReturn` is the woken client's `stop(false)`.
- `WaitNext` composes `FsmBase`'s actions: the failing `StepBegin` and `HandlerReturn(ok)` wake the waiter when `Pulse(ok)` holds; every other call leaves it alone.
- `Start` and `Halt` may run while the client waits only if `InterruptWhileWaiting` is TRUE. Neither signals `m_stop_event`.

**Property.** `NoStrandedStopper` says that the client never waits while the engine sits idle and running in a state where `stop(false)` would succeed.

| Run | Result | What it shows |
|---|---|---|
| `fsm_stop_wait` (`MC_FsmStopWait.cfg`) | pass, 1446 states | The machine of `fsm_core` with rows of its own (`MCWaitRows`): C loops on e1 instead of returning to A, so no row leads into the error state A. Every way into a stop state or the error state then wakes the waiter. The run is an instance of the theorem `NoStrandedStopperHolds`. |
| `fsm_stop_wait_error_row` (`MC_FsmStopWait_errorrow.cfg`) | violation | With the same rows plus one row B -e2-> A into the error state, whose handler succeeds, the step signals nothing. The client sleeps on while `stop(false)` would succeed. The spec (line 109) says every entry into the error state pulses the stop signal. |

The same thing happens with `InterruptWhileWaiting = TRUE`, in two ways:
- `halt()` (line 1268) sets Stopped without a signal, so the client waits on an engine that no longer runs. Spec line 156 says a halted engine's later steps return at once, so no signal ever comes.
- `start()` enters the start state without a signal, and in spec example S1 the start state is also the error state.

 The mutant in which only a failure signals breaks the passing run.

## Copy, move and swap between engines: `FsmPair`

`operator=` calls `copy(other)`, which locks `this->m_lock` and then `other.m_lock` (line 1719). Move assignment and the move constructor call `move`, a swap. `swap(a, b)` takes the lock of the lower address first.

How the model maps to this:

- Each thread runs a fixed `Program` of calls. A call goes through the stages `lock1`, `lock2`, `body1`, `body2` and `unlock`.
- The locks are recursive, with an `owner` and a `depth`.
- An engine's fields are split into two halves. Each half records which engine it was copied from.

The properties:

- `LockAccounting`: every mutex's owner and depth match the calls in progress, self-assignment included.
- `NoWaitCycle` (in `FsmPairWait`): the wait-for graph has no cycle. It uses `HasCycle` from `Graphs`.
- `WaitsUpward`: along every chain t → u → v of blocked threads (t waits for a mutex u holds, u waits for one v holds), t waits for a mutex of lower address than the one u waits for (`WaitRank`). A cycle would need a rank lower than itself, so `WaitsUpward` is the reason behind `NoWaitCycle`, stated without graphs.
- `NoTornEngine`: no thread ever sees an engine with its two halves from different sources.
- `FieldsWrittenUnderLock`, an action property: every step that changes an engine's fields is a step of the thread owning that engine's `m_lock`, and that thread keeps the lock across the write.

Mutants: `ReleaseByObject` (one unlock per object, so self-assignment keeps its second hold) breaks `LockAccounting`. `LockOrderAsCalled` (swap in call order) breaks `NoWaitCycle` and `WaitsUpward`. `LockOrderThisOnly` (copy takes only `this->m_lock`) breaks `NoTornEngine`. `AcquireUnguarded` (a lock that does not exclude) breaks `FieldsWrittenUnderLock`.

| Run | Result | What it shows |
|---|---|---|
| `fsm_pair` | pass, 1589 states | Three threads and three engines, with copies, self-assignment, swaps and a move, in lock orders that agree with the address order. The third thread swaps b and c and then copies c to itself (`Assign(c, c)`), so a chain t1 → t2 → t3 of blocked threads occurs. `LockAccounting`, `NoWaitCycle`, `NoTornEngine`, `WaitsUpward` and `FieldsWrittenUnderLock` hold. |
| `fsm_pair_cross` | violation | `a = b` on one thread and `b = a` on another deadlock. Spec section 4.4.4 (line 141) says copy locks in address order; the code locks in call order. |

`FsmPair` itself does not use `Graphs`; only `FsmPairWait` does. `FsmPair_proofs` proves `LockAccounting`, `NoTornEngine` and `FieldsWrittenUnderLock` for every set of threads and engines, every injective address map and every call program (see "What is proved"). It also proves `WaitsUpward` for every program whose copy calls name their engines in address order (`CopiesInAddressOrder`). `NoWaitCycle` itself stays with TLC. It does not hold for every program: `fsm_pair_cross` deadlocks.

`Release` writes its two decrements as nested `EXCEPT`s, `[[depth EXCEPT ![lo] = @ - 1] EXCEPT ![hi] = @ - 1]`. That is the meaning of the two-clause form `[depth EXCEPT ![lo] = @ - 1, ![hi] = @ - 1]`, and it is what TLC computes. The nested form is written out because tlapm 1.4.5 reads the `@` of the second clause as the original `depth[hi]`. For self-assignment (lo = hi) the two readings differ.

## UniquePointer

`UniquePointer` models:

- `live` and `px` of each pointer object;
- the heap objects (`unused`, `alive`, `deleted`; addresses are not reused);
- the set `raw` of objects the client holds only by raw pointer.

Every constructor, `reset`, `reset(p)`, `release`, `swap`, `operator=` and the destructor is one action.

- The copy constructor takes `px` from its const source through a `const_cast`.
- `operator=` takes its argument by value, so it is a copy, a swap and a destruction in one step. Self-assignment gives the object straight back.

The properties:

- `NoDangling`: no live pointer and no raw pointer refers to a deleted object.
- `ExactlyOneOwner`: every alive object has exactly one owner, either a live pointer or the client.

The `unique_pointer` run passes with 654 states over three pointers and three objects. Two mutants each break one property: a sharing copy breaks `ExactlyOneOwner`, and a `destroy()` that keeps its pointer breaks `NoDangling`. `TypeOK` is proved (`UniquePointerTypeCorrect`) but not checked by the run, because no plausible bug of this code breaks it.

`reset(T *p)` asserts `p != px` (line 68). `ResetTo` adopts only a pointer the client holds raw, or NULL. So the case of a build without assertions that calls `reset(get())`, deleting the object and keeping a pointer to it, is not explored.

## SocketTcpServer and the socket layer

`SocketTcpServer` models:

- the server objects: `live`, the held socket `sock` and its endpoint;
- the OS sockets: `os[k]` is `unused`, `open`, `bound`, `listening` or `closed`;
- the endpoints the sockets are bound to;
- the client objects: the sockets they hold, with `Null` standing for the client objects that wrap a failed accept.

There is one action per member function: the constructors, the move constructor, the destructor, move and copy assignment, `close`, `connect`, `bind`, `bind(addr, port)` and `accept`. Alongside them are the socket layer's `tcp_socket_create` / `ip4_connect` (`ClientConnect`), `udp_socket_create` (`UdpCreate`) and `socket_close` (`CloseClient`).

- Binding fails when another open socket already holds the endpoint.
- A failed `listen` leaves the socket bound.
- `accept` wraps its result in a new `SocketTcpClient` (line 342) even when `server_socket_accept` returned NULL, so a failed accept adds a client object holding NULL. `SocketTcpClient` is not defined under `src/`; the model takes from the spec only that a client object closes its socket (`CloseClient`), which does nothing for NULL.

The properties:

- `OneOwnerPerSocket`: every open socket has exactly one holder, either a live server or a client.
- `NoStaleHandle`: no live server holds a closed socket.

| Run | Result | What it shows |
|---|---|---|
| `socket_server` | pass, 12752 states | Two servers, three sockets and two endpoints, when the program move-assigns only into a server without a socket (`MoveIntoEmptyOnly`): `OneOwnerPerSocket` and `NoStaleHandle` hold. |
| `socket_server_move_leak` | violation | Move assignment (tcpclient.cpp:235) overwrites the socket without closing it. `srv = SocketTcpServer(...)` and a self move leak an open socket. |

`SocketTcpServer_proofs` proves `OneOwnerPerSocket` and `NoStaleHandle` for any number of servers, sockets and endpoints, under `MoveIntoEmptyOnly`. It proves `TypeOK` for every program (see "What is proved"). The run does not check `TypeOK`, because no plausible bug of this code breaks it.

## Logger

`Logger` models:

- `_newline`, `_visibility` and `_output`;
- the output, abstracted to tokens `header`, `text` and `eol`.

Actions:

- `Format(tok)` is `format()`. It writes nothing below the stream visibility, and writes a header when a line starts.
- `PrintNewline` sets `_newline` even when the line end was suppressed.
- `LevelWrite(l)` is `debug` / `info` / `critical`.
- The two visibility setters change the levels.

`MaxOut` bounds the output. At the bound the model stutters, which is why the run checks deadlock without a false alarm.

The property is `LineFraming`: every line starts with exactly one header, and no header appears inside a line.

| Run | Result | What it shows |
|---|---|---|
| `logger` | pass, 384 states | With levels changed only at line ends (`LevelsChangeBetweenLines`), framing holds through suppressed writes and suppressed line ends. |
| `logger_midline` | violation | A visibility change mid-line suppresses the line end, yet `print_newline` (log.cpp:39) sets `_newline`. The next record's header then lands on the same line. |

## What is proved

Each proof is `Spec => []P`, via an inductive invariant `IInv` with `Init => IInv`, `IInv /\ [Next]_vars => IInv'` and `IInv => P`. Each invariant was first checked with TLC as an invariant of a run.

- **`FsmBase_proofs`**: `TypeCorrect` and `HandlerEventFirstHolds`, as described above. They cover all builder calls, `addStates` and `addStopStates` included.
- **`FsmBase_proofs`** also proves `QueueRefinementHolds`, a refinement: `[]IInv` and `NextQueue` give `[][Queue!Next]_Queue!qvars`.
- **`SocketTcpServer_proofs`**: `SocketTypeCorrect` is `Spec => []TypeOK`, with no hypothesis: every server holds a socket or NULL, and so does every client object. It is proved by `InitTypeOK` and `NextTypeOK`, one step per member.
- **`SocketTcpServer_proofs`** also proves `OneOwnerPerSocketHolds` and `NoStaleHandleHolds`, under `MoveIntoEmptyOnly`. `IInv` adds two facts:
  - `DeadNull`: a destroyed server holds NULL;
  - `ClientsOpen`: every socket a client object holds is open (the client of a failed accept holds none).

  The lemma `UnusedFree` says that an unused socket has no holder, so a constructor or `accept` that takes it creates no second owner.
- **`UniquePointer_proofs`**: `NoDanglingHolds` and `ExactlyOneOwnerHolds`. The strengthening is `DeadEmpty`: a destroyed pointer holds NULL. Without it, a constructor could appear to adopt a stale `px`.
- **`Logger_proofs`**: `LineFramingHolds` and `LoggerTypeCorrect`, under `LevelsChangeBetweenLines`. `IInv` adds two facts:
  - `AtLineStart`: `_newline` holds exactly when the output is empty or ends with a line end;
  - `OpenMidLine`: mid-line, output is not suppressed.

  The lemmas `HeaderFramed`, `TokenFramed` and `FormatStep` state what appending a header, a token or a line end does to `Framed`.
- **`FsmBase_proofs`**: `QueueAcceptedHolds`, `QueueDiscipline => (Spec => []QueueAccepted)`. `QueueDiscipline` is the program's build discipline:
  - rows are added only between registered states;
  - nothing is built while the engine runs;
  - `start` always checks determinism;
  - the start state has a handler.

  `MC_FsmStaleQueue` breaks the last condition and violates `QueueAccepted`; `fsm_core` satisfies all four. The inductive invariant `QInv` adds four facts to `TypeOK`:
  - `RowsRegistered`: every row's ends are registered states and its event is in the alphabet;
  - `QueuedInAlphabet`: every queued event is in the alphabet;
  - `StartRegistered`: the start state is a registered state with a handler;
  - `RunningValid`: while running, the current state is registered and has a handler, and the table is deterministic.

  The lemma `LookupRow` says that a successful lookup, possibly through a parent, returns a registered state. `QInv` was checked with TLC on `fsm_core` first.
- **`UniquePointer_proofs`** also proves `UniquePointerTypeCorrect`: `Spec => []TypeOK`, from the same `IInv`.
- **`FsmPair_proofs`**: `LockAccountingHolds`, `NoTornEngineHolds` and `FieldsWrittenUnderLockHolds` (`Spec => FieldsWrittenUnderLock`), from `PairAssumption` alone. `IInv` has these conjuncts:
  - `PairTypeOK`;
  - `AccountingC`: `LockAccounting` with `HeldCount` replaced by `Cnt`, an explicit sum over the call's two lock positions;
  - `OwnerHolds`: an owned mutex has positive depth;
  - `NoTornEngine`;
  - `Body2Done`: a thread between its two half-copies has already made the first half agree, so the second half makes both objects whole (`Body2Of`).

  `HeldCountCnt` shows that `HeldCount` equals `Cnt`, by cardinalities of `{}`, `{1}`, `{2}` and `1..2`. `AccountingIsC` then turns `AccountingC` into `LockAccounting`. `BodyOwns` shows that a thread in a body owns both of its objects; `Exclusive` follows: two such threads work on disjoint objects. The inductive step has one lemma per thread step:
  - `AcquireFirst`: the first mutex was free, because an owned mutex has depth > 0 yet this call holds nothing;
  - `AcquireSecond`: the second mutex is free, or is the first again (a = a);
  - `CopyFirst` and `CopySecond`: no other thread is halfway through the objects;
  - `ReleaseStep`: both depths drop to zero.

  `IInv` was checked with TLC on both `FsmPair` instances. `FieldsWrittenUnderLockHolds` follows from `IInv` and `BodyOwns`.
- **`FsmPair_proofs`** also proves `WaitsUpwardHolds`: `CopiesInAddressOrder => (Spec => []WaitsUpward)`. `CopiesInAddressOrder` says that every `Assign(x, y)` of a program has `Addr[x] <= Addr[y]`. `swap` orders its locks by itself; `copy` takes them in call order. The hypothesis is necessary: `fsm_pair_cross` breaks it and deadlocks. No new invariant is needed; `IInvWaitsUpward` derives the property from `IInv`:
  - if t waits for a mutex that u owns, u holds exactly one lock (`OwnerHolds`, `AccountingC`), so u is at `lock2` and holds its first mutex;
  - so t's rank is the address of u's first mutex, and u's rank is the address of its second;
  - `LockOrderUp` says that a call's first mutex has an address no higher than its second, and the two are different because u is blocked on one it does not own; `Addr` is injective, so the inequality is strict.
- **`FsmStopWait_proofs`**: `NoStrandedStopperHolds`, `StopWaitDiscipline => (WaitSpec => []NoStrandedStopper)`. `StopWaitDiscipline` has three parts. Runs break the first (the hazard on `halt()`) and the third; the second keeps the machine fixed while the client waits:
  - `start()` and `halt()` are not called while a client waits (`~InterruptWhileWaiting`); neither signals `m_stop_event`;
  - nothing is built while the engine runs;
  - no `addTransition` row leads into an id passed to `setErrorState`, so the error state is entered only through `toErrorState`, which signals (`fsm_stop_wait_error_row` breaks this part).

  The condition is sufficient, not necessary. Rows into the error state from states where `stop(false)` already succeeds do no harm, as `fsm_core`'s rows C -e1-> A and A -e1-> A show when used in this run. But a lookup can inherit a row from a parent state, so no simple condition on the constants captures exactly the harmless rows. The inductive invariant `SInv` adds five facts to `TypeOK`:
  - `SttFromRows`: every next state stored in `m_stt` is the target of a row;
  - `ErrorChosen`: the error state is unset or one of `ErrorIds`;
  - `RunningCurrent`: a running engine has a current state;
  - `WaiterType`;
  - `WaitSafe`: `NoStrandedStopper`, plus one fact for the handler phase. While the waiter sleeps and a handler runs, the current state is not the error state unless it is a stop state. Without it the invariant is not inductive: a successful `HandlerReturn` signals only for stop states.

  The lemmas `LookupStt` and `LookupFromRows` say that a successful lookup, possibly through a parent, returns a row's target. `WaitNextNext` shows that each step of `WaitSpec` is a step of `FsmBase`, so `NextTypeOK` and the step lemmas for `m_stt`, `m_error_state` and `current` (`SttStep`, `ErrorStep`, `RunningStep`) carry over; `WaitSafeStep` has one case per disjunct of `WaitNext`. `SInv` was checked with TLC on `fsm_stop_wait` first.

Run `tlapm <Module>_proofs.tla` to check them.

## Only model-checked

These results have no proof:

- **Liveness (`ErrorLeadsToStopped`, `HandlerEventConsumed`).** TLAPS does not reason about fairness or ENABLED.
- **`NoStrandedStopper` for machines outside `StopWaitDiscipline`.** An example is a machine that enters the error state by a row only from states where `stop(false)` already succeeds.
- **`NoWaitCycle`.** It holds only for some call programs (`fsm_pair_cross` deadlocks). `HasCycle` of `Graphs` is defined by a transitive closure computed by a recursive function over paths, and reasoning about it needs induction over data. What makes the graph acyclic is proved as `WaitsUpwardHolds`: ranks strictly increase along every edge. That a strictly increasing chain cannot close into a cycle is not proved. `FsmPairWait` also uses a tuple-pattern set filter that tlapm 1.4.5 does not parse.
- **Anything needing induction over the parent chain.**

## Not modelled, and the plan

PROJECT.json lists the components that are not modelled, each with its reason:

- the watchdog helper;
- the AVR and sensor declarations;
- `SharedPointerCount`;
- the ADC conversion;
- the tests;
- declaration-only headers.

Next steps:

1. a liveness property for the stop(true) client under weak fairness of the driver's step;
2. runs with `RegisterFirst = FALSE` and with `BuildWhileRunning = TRUE`;
3. action properties for `UniquePointer` and `SocketTcpServer` (ownership moves only by the calls that name both ends), with proofs from their `IInv`.
