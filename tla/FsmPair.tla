------------------------------- MODULE FsmPair -------------------------------
(***************************************************************************)
(* The operations of lwiot::detail_fsm::FsmBase that involve two engine    *)
(* objects (src/include/lwiot/avr/avrspibus.h): copy assignment, which     *)
(* calls copy(other); move assignment and the move constructor, which call *)
(* move(other), a swap of this object and other; and swap(a, b).  Each   *)
(* takes the m_lock of both objects, then copies or exchanges the fields. *)
(*                                                                         *)
(* Threads run fixed programs of such calls.  A lock is recursive          *)
(* (m_lock(true)): its owner may take it again.  The fields of an engine   *)
(* are abstracted to two halves, the ones copied or exchanged first        *)
(* (m_stt, m_events, m_states, m_stop_states) and the rest (m_start_state, *)
(* m_current, m_error_state, m_status, m_in_transition), each holding the *)
(* name of the engine whose contents it came from.  The body is two steps, *)
(* one per half, so another thread could see, or write, a half-done copy   *)
(* if the locks did not exclude it.                                        *)
(***************************************************************************)
EXTENDS Naturals, Sequences, FiniteSets

CONSTANTS
    Engines,   \* the FsmBase objects
    Threads,   \* the threads calling them
    Addr,      \* the address of each object: swap orders its locks by it
    Program,   \* the calls each thread makes, in order
    NoThread   \* owner of a free lock

\* One call: kind, the object it is called on (this, or a) and the other
\* object (other, or b).  The copy constructor calls copy(other) and the
\* move constructor move(other), so they are the calls "assign" and
\* "moveAssign" on an object no other thread uses yet.
Kinds == {"assign", "moveAssign", "swap"}
Call == [kind : Kinds, this : Engines, other : Engines]

ASSUME PairAssumption ==
    /\ NoThread \notin Threads
    /\ Addr \in [Engines -> Nat]
    /\ \A x, y \in Engines : Addr[x] = Addr[y] => x = y
    /\ Program \in [Threads -> Seq(Call)]

Stages == {"lock1", "lock2", "body1", "body2", "unlock"}

VARIABLES
    owner,   \* owner[e]: the thread holding e.m_lock, or NoThread
    depth,   \* depth[e]: how many times the owner has taken e.m_lock
    fields,  \* fields[e][h]: where half h of e's fields came from
    pc,      \* pc[t]: index in Program[t] of the call thread t is making
    stage    \* stage[t]: how far that call has got

vars == <<owner, depth, fields, pc, stage>>

\* The call thread t is making.
Op(t) == Program[t][pc[t]]

Active(t) == pc[t] \in 1..Len(Program[t])

\* Mutant: swap locks a and then b, whatever their addresses.
LockOrderAsCalled(c) == <<c.this, c.other>>

\* Mutant: copy locks this->m_lock only (twice, recursively).
LockOrderThisOnly(c) ==
    IF c.kind = "assign" THEN <<c.this, c.this>>
    ELSE IF Addr[c.this] < Addr[c.other] THEN <<c.this, c.other>>
    ELSE <<c.other, c.this>>

\* The order in which a call takes its two locks.  copy(other) holds
\* UniqueLocks on this->m_lock and then other.m_lock; swap(a, b) takes the
\* lock of the object at the lower address first; move(other) is
\* a swap of this object and other.
LockOrder(c) ==
    IF c.kind = "assign" \/ Addr[c.this] < Addr[c.other]
    THEN <<c.this, c.other>>
    ELSE <<c.other, c.this>>

\* The mutex can be taken by t: free, or already t's (it is recursive).
Lockable(e, t) == owner[e] \in {NoThread, t}

-----------------------------------------------------------------------------

Init ==
    /\ owner = [e \in Engines |-> NoThread]
    /\ depth = [e \in Engines |-> 0]
    /\ fields = [e \in Engines |-> <<e, e>>]
    /\ pc = [t \in Threads |-> 1]
    /\ stage = [t \in Threads |-> "lock1"]

\* Mutant: the mutex does not exclude: lock() returns at once even when
\* another thread holds it.
AcquireUnguarded(t, i, next) ==
    LET e == LockOrder(Op(t))[i]
    IN  /\ Active(t)
        /\ stage[t] = IF i = 1 THEN "lock1" ELSE "lock2"
        /\ owner' = [owner EXCEPT ![e] = t]
        /\ depth' = [depth EXCEPT ![e] = @ + 1]
        /\ stage' = [stage EXCEPT ![t] = next]
        /\ UNCHANGED <<fields, pc>>

\* Take the i-th lock of the current call, once the mutex is available.
Acquire(t, i, next) ==
    LET e == LockOrder(Op(t))[i]
    IN  /\ Active(t)
        /\ stage[t] = IF i = 1 THEN "lock1" ELSE "lock2"
        /\ Lockable(e, t)
        /\ owner' = [owner EXCEPT ![e] = t]
        /\ depth' = [depth EXCEPT ![e] = @ + 1]
        /\ stage' = [stage EXCEPT ![t] = next]
        /\ UNCHANGED <<fields, pc>>

\* Copy or exchange half h of the fields.  copy(other) assigns this's
\* fields from other's; swap exchanges them.
CopyHalf(t, h, next) ==
    LET c == Op(t)
    IN  /\ Active(t)
        /\ stage[t] = IF h = 1 THEN "body1" ELSE "body2"
        /\ fields' =
              IF c.kind = "assign"
              THEN [fields EXCEPT ![c.this][h] = fields[c.other][h]]
              ELSE [fields EXCEPT ![c.this][h] = fields[c.other][h],
                                  ![c.other][h] = fields[c.this][h]]
        /\ stage' = [stage EXCEPT ![t] = next]
        /\ UNCHANGED <<owner, depth, pc>>

\* Mutant: each object's count is decremented once, so the second, recursive
\* hold of a self-assignment is never given back.
ReleaseByObject(t) ==
    LET ord == LockOrder(Op(t))
        dep == [e \in Engines |->
                   IF e \in {ord[1], ord[2]} THEN depth[e] - 1 ELSE depth[e]]
    IN  /\ Active(t)
        /\ stage[t] = "unlock"
        /\ depth' = dep
        /\ owner' = [e \in Engines |->
                        IF e \in {ord[1], ord[2]} /\ dep[e] = 0 THEN NoThread
                        ELSE owner[e]]
        /\ pc' = [pc EXCEPT ![t] = @ + 1]
        /\ stage' = [stage EXCEPT ![t] = "lock1"]
        /\ UNCHANGED fields

\* Leave the call: both locks are released (UniqueLock destructors in
\* copy, the explicit unlocks in swap) and the thread moves to its next
\* call.  The two releases happen one after the other (when a = a the
\* second decrements what the first left).  Their order does not matter
\* to anyone waiting.
Release(t) ==
    LET ord == LockOrder(Op(t))
        lo  == ord[1]
        hi  == ord[2]
        dep == [[depth EXCEPT ![lo] = @ - 1] EXCEPT ![hi] = @ - 1]
    IN  /\ Active(t)
        /\ stage[t] = "unlock"
        /\ depth' = dep
        /\ owner' = [e \in Engines |->
                        IF e \in {lo, hi} /\ dep[e] = 0 THEN NoThread
                        ELSE owner[e]]
        /\ pc' = [pc EXCEPT ![t] = @ + 1]
        /\ stage' = [stage EXCEPT ![t] = "lock1"]
        /\ UNCHANGED fields

\* One step of thread t.
ThreadStep(t) ==
    \/ Acquire(t, 1, "lock2")
    \/ Acquire(t, 2, "body1")
    \/ CopyHalf(t, 1, "body2")
    \/ CopyHalf(t, 2, "unlock")
    \/ Release(t)

\* Every thread has returned from its last call.
Terminated == \A t \in Threads : ~Active(t)

Next ==
    \/ \E t \in Threads : ThreadStep(t)
    \/ Terminated /\ UNCHANGED vars

Spec == Init /\ [][Next]_vars

-----------------------------------------------------------------------------
(* Properties                                                              *)

\* How many times thread t holds e.m_lock in its current call: the locks
\* of LockOrder it has taken so far.
Taken(t) ==
    IF ~Active(t) THEN 0
    ELSE IF stage[t] = "lock1" THEN 0
    ELSE IF stage[t] = "lock2" THEN 1
    ELSE 2

HeldCount(t, e) == Cardinality({i \in 1..Taken(t) : LockOrder(Op(t))[i] = e})

\* The state of each recursive mutex matches the calls in progress: a lock
\* is owned by exactly the one thread whose call has taken it, as many
\* times as that call has taken it, and is free when no call holds it.
\* Self-assignment (a = a) takes the same mutex twice and must give it
\* back twice.
LockAccounting ==
    \A e \in Engines :
        /\ depth[e] = IF owner[e] = NoThread THEN 0
                      ELSE HeldCount(owner[e], e)
        /\ \A t \in Threads \ {owner[e]} : HeldCount(t, e) = 0

\* A thread inside copy or swap holds both m_locks, so no other thread
\* sees either object half-copied: every object that no call is halfway
\* through has both halves of its fields from the same engine.
NoTornEngine ==
    \A e \in Engines :
        (~\E t \in Threads : Active(t) /\ stage[t] = "body2"
                             /\ e \in {Op(t).this, Op(t).other})
        => fields[e][1] = fields[e][2]

\* The fields of an engine are written only under its m_lock: every step
\* that changes a field of e (an assignment in copy or an exchange in
\* swap) is a step of the thread that owns e.m_lock, and that thread keeps
\* the lock across the write.
FieldsWrittenUnderLock ==
    [][\A e \in Engines :
          fields'[e] # fields[e] =>
              /\ owner[e] \in Threads
              /\ owner'[e] = owner[e]
              /\ stage'[owner[e]] # stage[owner[e]]]_vars

\* t is blocked on a mutex that u holds (u may be t itself if the mutex
\* were not recursive).
WaitsFor(t, u) ==
    /\ Active(t)
    /\ \E i \in 1..2 :
          /\ stage[t] = IF i = 1 THEN "lock1" ELSE "lock2"
          /\ ~Lockable(LockOrder(Op(t))[i], t)
          /\ owner[LockOrder(Op(t))[i]] = u

\* The address of the mutex a thread blocked in lock() waits for.
WaitRank(t) == Addr[LockOrder(Op(t))[IF stage[t] = "lock1" THEN 1 ELSE 2]]

\* Along every chain of blocked threads, the address of the awaited mutex
\* strictly increases: when t waits for a mutex held by u and u itself
\* waits, u waits for a mutex at a higher address than t's.  swap takes
\* the lower address first, so a thread holding one lock and waiting for
\* another waits upward, and no chain of waits can close into a cycle.
WaitsUpward ==
    \A t, u, v \in Threads :
        WaitsFor(t, u) /\ WaitsFor(u, v) => WaitRank(t) < WaitRank(u)

=============================================================================
