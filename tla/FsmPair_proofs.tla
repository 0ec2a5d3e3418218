---------------------------- MODULE FsmPair_proofs ----------------------------
(***************************************************************************)
(* Proofs about the two-engine operations of FsmBase, for any engines,     *)
(* addresses, threads and programs: the recursive m_locks are accounted    *)
(* for exactly, and no engine is ever seen half copied.                    *)
(***************************************************************************)
EXTENDS FsmPair, FiniteSetTheorems, TLAPS

PairTypeOK ==
    /\ owner \in [Engines -> Threads \cup {NoThread}]
    /\ depth \in [Engines -> Nat]
    /\ fields \in [Engines -> Engines \X Engines]
    /\ pc \in [Threads -> Nat \ {0}]
    /\ stage \in [Threads -> Stages]

\* A held mutex has been taken at least once: Release frees a mutex when
\* its count drops to zero.
OwnerHolds == \A e \in Engines : owner[e] # NoThread => depth[e] > 0

\* What the first half of a copy or swap has done when the thread is about
\* to do the second: copy(other) has given this the first half of other,
\* which is whole; swap has exchanged the first halves of two whole
\* engines.
Body2Of(t) ==
    LET x == Op(t).this
        y == Op(t).other
    IN  IF Op(t).kind = "assign"
        THEN fields[x][1] = fields[y][2] /\ fields[y][1] = fields[y][2]
        ELSE fields[x][1] = fields[y][2] /\ fields[y][1] = fields[x][2]

Body2Done == \A t \in Threads : Active(t) /\ stage[t] = "body2" => Body2Of(t)


-----------------------------------------------------------------------------
(* The operators the proofs rest on                                        *)

\* HeldCount without the set: one for each of the call's two locks that
\* has been taken and is e.m_lock.
Cnt(t, e) ==
    (IF Taken(t) >= 1 /\ LockOrder(Op(t))[1] = e THEN 1 ELSE 0)
    + (IF Taken(t) >= 2 /\ LockOrder(Op(t))[2] = e THEN 1 ELSE 0)

\* The call a thread is making is one of the calls of its program.
LEMMA OpCall ==
    ASSUME PairTypeOK, NEW t \in Threads, Active(t)
    PROVE  Op(t) \in Call
BY PairAssumption DEF PairTypeOK, Active, Op

\* A call takes the locks of its two objects, in some order.
LEMMA LockOrderPair ==
    ASSUME NEW c \in Call
    PROVE  /\ LockOrder(c)[1] \in Engines /\ LockOrder(c)[2] \in Engines
           /\ {LockOrder(c)[1], LockOrder(c)[2]} = {c.this, c.other}
BY DEF LockOrder, Call

LEMMA TakenRange ==
    ASSUME NEW t \in Threads
    PROVE  /\ Taken(t) \in 0..2
           /\ Taken(t) = 0 <=> ~Active(t) \/ stage[t] = "lock1"
BY DEF Taken

\* HeldCount is Cnt, before and after a step: the set of positions of e
\* among the first n <= 2 locks is {}, {1}, {2} or 1..2.
LEMMA HeldCountCnt ==
    ASSUME NEW t \in Threads, NEW e \in Engines
    PROVE  /\ HeldCount(t, e) = Cnt(t, e)
           /\ HeldCount(t, e)' = Cnt(t, e)'
<1>1. HeldCount(t, e) = Cnt(t, e)
    <2> DEFINE n == Taken(t)
               ord == LockOrder(Op(t))
               S == {i \in 1..n : ord[i] = e}
    <2>1. n \in 0..2
        BY DEF Taken
    <2>2. Cardinality(S) = (IF n >= 1 /\ ord[1] = e THEN 1 ELSE 0)
                           + (IF n >= 2 /\ ord[2] = e THEN 1 ELSE 0)
        <3>1. CASE S = {}
            <4>1. ~(n >= 1 /\ ord[1] = e) /\ ~(n >= 2 /\ ord[2] = e)
                BY <2>1, <3>1
            <4>. QED
                BY <3>1, <4>1, FS_EmptySet
        <3>2. CASE S = {1}
            <4>1. n >= 1 /\ ord[1] = e /\ ~(n >= 2 /\ ord[2] = e)
                BY <2>1, <3>2
            <4>2. Cardinality({1}) = 1
                BY FS_Singleton
            <4>. QED
                BY <3>2, <4>1, <4>2
        <3>3. CASE S = {2}
            <4>1. ~(n >= 1 /\ ord[1] = e) /\ n >= 2 /\ ord[2] = e
                BY <2>1, <3>3
            <4>2. Cardinality({2}) = 1
                BY FS_Singleton
            <4>. QED
                BY <3>3, <4>1, <4>2
        <3>4. CASE S = 1..2
            <4>1. Cardinality(1..2) = IF 1 > 2 THEN 0 ELSE 2 - 1 + 1
                BY 1 \in Int, 2 \in Int, FS_Interval
            <4>2. n = 2 /\ ord[1] = e /\ ord[2] = e
                BY <2>1, <3>4
            <4>. QED
                BY <3>4, <4>1, <4>2
        <3>. QED
            BY <2>1, <3>1, <3>2, <3>3, <3>4
    <2>. QED
        BY <2>2 DEF HeldCount, Cnt
<1>2. HeldCount(t, e)' = Cnt(t, e)'
    <2> DEFINE n == Taken(t)'
               ord == LockOrder(Op(t))'
               S == {i \in 1..n : ord[i] = e}
    <2>1. n \in 0..2
        BY DEF Taken
    <2>2. Cardinality(S) = (IF n >= 1 /\ ord[1] = e THEN 1 ELSE 0)
                           + (IF n >= 2 /\ ord[2] = e THEN 1 ELSE 0)
        <3>1. CASE S = {}
            <4>1. ~(n >= 1 /\ ord[1] = e) /\ ~(n >= 2 /\ ord[2] = e)
                BY <2>1, <3>1
            <4>. QED
                BY <3>1, <4>1, FS_EmptySet
        <3>2. CASE S = {1}
            <4>1. n >= 1 /\ ord[1] = e /\ ~(n >= 2 /\ ord[2] = e)
                BY <2>1, <3>2
            <4>2. Cardinality({1}) = 1
                BY FS_Singleton
            <4>. QED
                BY <3>2, <4>1, <4>2
        <3>3. CASE S = {2}
            <4>1. ~(n >= 1 /\ ord[1] = e) /\ n >= 2 /\ ord[2] = e
                BY <2>1, <3>3
            <4>2. Cardinality({2}) = 1
                BY FS_Singleton
            <4>. QED
                BY <3>3, <4>1, <4>2
        <3>4. CASE S = 1..2
            <4>1. Cardinality(1..2) = IF 1 > 2 THEN 0 ELSE 2 - 1 + 1
                BY 1 \in Int, 2 \in Int, FS_Interval
            <4>2. n = 2 /\ ord[1] = e /\ ord[2] = e
                BY <2>1, <3>4
            <4>. QED
                BY <3>4, <4>1, <4>2
        <3>. QED
            BY <2>1, <3>1, <3>2, <3>3, <3>4
    <2>. QED
        BY <2>2 DEF HeldCount, Cnt
<1>. QED
    BY <1>1, <1>2

\* LockAccounting with Cnt for HeldCount.
AccountingC ==
    \A e \in Engines :
        /\ owner[e] = NoThread => depth[e] = 0
        /\ \A t \in Threads :
              /\ owner[e] = t => depth[e] = Cnt(t, e)
              /\ owner[e] # t => Cnt(t, e) = 0

\* LockAccounting is not inductive by itself: a thread that still owns a
\* mutex must have taken it (OwnerHolds), and the proof of a copy needs the
\* halves it has written (Body2Done).  Checked with TLC on the instances of
\* MC_FsmPair and MC_FsmPairCross.
IInv ==
    /\ PairTypeOK
    /\ AccountingC
    /\ OwnerHolds
    /\ NoTornEngine
    /\ Body2Done

LEMMA AccountingIsC ==
    ASSUME PairTypeOK, AccountingC PROVE LockAccounting
<1> SUFFICES ASSUME NEW e \in Engines
             PROVE  /\ depth[e] = IF owner[e] = NoThread THEN 0
                                  ELSE HeldCount(owner[e], e)
                    /\ \A t \in Threads \ {owner[e]} : HeldCount(t, e) = 0
    BY DEF LockAccounting
<1>1. \A t \in Threads : HeldCount(t, e) = Cnt(t, e)
    BY HeldCountCnt
<1>2. CASE owner[e] = NoThread
    BY <1>1, <1>2 DEF AccountingC
<1>3. CASE owner[e] # NoThread
    <2>1. owner[e] \in Threads
        BY <1>3 DEF PairTypeOK
    <2>. QED
        BY <1>1, <1>3, <2>1 DEF AccountingC
<1>. QED
    BY <1>2, <1>3

\* The engines a thread's current call works on.
Objs(t) == {Op(t).this, Op(t).other}

\* Stages at which a call holds both of its locks.
Holding == {"body1", "body2", "unlock"}

\* A thread past its second lock owns the m_lock of both objects.
LEMMA BodyOwns ==
    ASSUME PairTypeOK, AccountingC, NEW t \in Threads, Active(t),
           stage[t] \in Holding, NEW e \in Objs(t)
    PROVE  owner[e] = t
<1>1. Op(t) \in Call
    BY OpCall
<1>2. e \in {LockOrder(Op(t))[1], LockOrder(Op(t))[2]} /\ e \in Engines
    BY <1>1, LockOrderPair DEF Objs
<1>3. Cnt(t, e) >= 1
    BY <1>2 DEF Cnt, Taken, Holding
<1>. QED
    BY <1>2, <1>3 DEF AccountingC

\* Two threads past their second lock work on disjoint objects.
LEMMA Exclusive ==
    ASSUME PairTypeOK, AccountingC, NEW t \in Threads, NEW u \in Threads,
           t # u, Active(t), stage[t] \in Holding,
           Active(u), stage[u] \in Holding
    PROVE  Objs(t) \cap Objs(u) = {}
BY BodyOwns

\* Thread t takes a step and no other thread moves.
Frame(t) == \A u \in Threads \ {t} : pc'[u] = pc[u] /\ stage'[u] = stage[u]

LEMMA CntFrame ==
    ASSUME NEW t \in Threads, Frame(t), NEW u \in Threads \ {t},
           NEW e \in Engines
    PROVE  Cnt(u, e)' = Cnt(u, e)
BY DEF Frame, Cnt, Taken, Op, Active

\* A step of t that leaves the fields alone and neither enters nor leaves
\* the second half of a body keeps the two field invariants.
LEMMA FieldsFrame ==
    ASSUME NoTornEngine, Body2Done, UNCHANGED fields,
           NEW t \in Threads, Frame(t),
           stage[t] # "body2", stage'[t] # "body2"
    PROVE  NoTornEngine' /\ Body2Done'
<1>1. \A u \in Threads \ {t} :
          /\ Active(u)' = Active(u) /\ Op(u)' = Op(u)
          /\ stage'[u] = stage[u]
    BY DEF Frame, Active, Op
<1>. QED
    BY <1>1 DEF NoTornEngine, Body2Done, Body2Of

-----------------------------------------------------------------------------
(* The inductive step, one thread step at a time                           *)

\* Taking the first lock: the mutex was free (a held one would have been
\* taken at least once by its owner, but this call has taken nothing), and
\* now t holds it once.
LEMMA AcquireFirst ==
    ASSUME IInv, NEW t \in Threads, Acquire(t, 1, "lock2") PROVE IInv'
<1> DEFINE lo == LockOrder(Op(t))[1]
<1>1. /\ Active(t) /\ stage[t] = "lock1" /\ owner[lo] \in {NoThread, t}
      /\ owner' = [owner EXCEPT ![lo] = t]
      /\ depth' = [depth EXCEPT ![lo] = @ + 1]
      /\ stage' = [stage EXCEPT ![t] = "lock2"]
      /\ UNCHANGED <<fields, pc>>
    BY DEF Acquire, Lockable
<1>2. lo \in Engines
    BY <1>1, OpCall, LockOrderPair DEF IInv
<1>3. AccountingC
    BY DEF IInv
<1>4. \A x \in Engines : Cnt(t, x) = 0
    BY <1>1 DEF Cnt, Taken
<1>5. owner[lo] = NoThread
    BY <1>1, <1>2, <1>3, <1>4 DEF IInv, OwnerHolds, AccountingC
<1>6. Frame(t)
    BY <1>1 DEF IInv, PairTypeOK, Frame
<1>7. \A x \in Engines : Cnt(t, x)' = IF x = lo THEN 1 ELSE 0
    BY <1>1 DEF IInv, PairTypeOK, Cnt, Taken, Op, Active
<1>8. PairTypeOK'
    BY <1>1, <1>2 DEF IInv, PairTypeOK, Stages
<1>9. AccountingC'
    <2> SUFFICES ASSUME NEW x \in Engines, NEW u \in Threads
                 PROVE  /\ owner'[x] = NoThread => depth'[x] = 0
                        /\ owner'[x] = u => depth'[x] = Cnt(u, x)'
                        /\ owner'[x] # u => Cnt(u, x)' = 0
        BY DEF AccountingC
    <2>1. u # t => Cnt(u, x)' = Cnt(u, x)
        BY <1>6, CntFrame
    <2>2. CASE x = lo
        <3>1. owner'[x] = t /\ depth'[x] = 1
            BY <1>1, <1>3, <1>5, <2>2 DEF IInv, PairTypeOK, AccountingC
        <3>2. Cnt(t, x)' = 1
            BY <1>7, <2>2
        <3>3. u # t => Cnt(u, x)' = 0
            BY <1>3, <1>5, <2>1, <2>2, PairAssumption DEF AccountingC
        <3>. QED
            BY <3>1, <3>2, <3>3, PairAssumption
    <2>3. CASE x # lo
        <3>1. owner'[x] = owner[x] /\ depth'[x] = depth[x]
            BY <1>1, <2>3 DEF IInv, PairTypeOK
        <3>2. Cnt(t, x)' = 0 /\ Cnt(t, x) = 0
            BY <1>4, <1>7, <2>3
        <3>3. u # t => Cnt(u, x)' = Cnt(u, x)
            BY <2>1
        <3>. QED
            BY <1>3, <3>1, <3>2, <3>3 DEF AccountingC
    <2>. QED
        BY <2>2, <2>3
<1>10. OwnerHolds'
    BY <1>1, <1>2 DEF IInv, PairTypeOK, OwnerHolds
<1>11. NoTornEngine' /\ Body2Done'
    BY <1>1, <1>6, FieldsFrame DEF IInv, PairTypeOK
<1>. QED
    BY <1>8, <1>9, <1>10, <1>11 DEF IInv

\* Taking the second lock: when both objects are one (a = a) t already
\* holds the recursive mutex and takes it again; otherwise it was free.
LEMMA AcquireSecond ==
    ASSUME IInv, NEW t \in Threads, Acquire(t, 2, "body1") PROVE IInv'
<1> DEFINE lo == LockOrder(Op(t))[1]
           hi == LockOrder(Op(t))[2]
<1>1. /\ Active(t) /\ stage[t] = "lock2" /\ owner[hi] \in {NoThread, t}
      /\ owner' = [owner EXCEPT ![hi] = t]
      /\ depth' = [depth EXCEPT ![hi] = @ + 1]
      /\ stage' = [stage EXCEPT ![t] = "body1"]
      /\ UNCHANGED <<fields, pc>>
    BY DEF Acquire, Lockable
<1>2. lo \in Engines /\ hi \in Engines
    BY <1>1, OpCall, LockOrderPair DEF IInv
<1>3. AccountingC
    BY DEF IInv
<1>4. \A x \in Engines : Cnt(t, x) = IF x = lo THEN 1 ELSE 0
    BY <1>1 DEF Cnt, Taken
<1>5. owner[lo] = t
    BY <1>2, <1>3, <1>4 DEF AccountingC
<1>6. hi # lo => owner[hi] = NoThread
    BY <1>1, <1>2, <1>3, <1>4 DEF IInv, OwnerHolds, AccountingC
<1>7. Frame(t)
    BY <1>1 DEF IInv, PairTypeOK, Frame
<1>8. \A x \in Engines :
          Cnt(t, x)' = (IF x = lo THEN 1 ELSE 0) + (IF x = hi THEN 1 ELSE 0)
    BY <1>1 DEF IInv, PairTypeOK, Cnt, Taken, Op, Active
<1>9. PairTypeOK'
    BY <1>1, <1>2 DEF IInv, PairTypeOK, Stages
<1>10. AccountingC'
    <2> SUFFICES ASSUME NEW x \in Engines, NEW u \in Threads
                 PROVE  /\ owner'[x] = NoThread => depth'[x] = 0
                        /\ owner'[x] = u => depth'[x] = Cnt(u, x)'
                        /\ owner'[x] # u => Cnt(u, x)' = 0
        BY DEF AccountingC
    <2>1. u # t => Cnt(u, x)' = Cnt(u, x)
        BY <1>7, CntFrame
    <2>2. CASE x = hi
        <3>1. owner'[x] = t /\ depth'[x] = Cnt(t, x)'
            <4>1. CASE hi = lo
                BY <1>1, <1>3, <1>4, <1>5, <1>8, <2>2, <4>1
                DEF IInv, PairTypeOK, AccountingC
            <4>2. CASE hi # lo
                BY <1>1, <1>3, <1>4, <1>6, <1>8, <2>2, <4>2
                DEF IInv, PairTypeOK, AccountingC
            <4>. QED
                BY <4>1, <4>2
        <3>2. u # t => Cnt(u, x)' = 0
            <4>1. u # t => owner[x] # u
                BY <1>5, <1>6, <2>2, PairAssumption
            <4>. QED
                BY <1>3, <2>1, <4>1 DEF AccountingC
        <3>. QED
            BY <3>1, <3>2, PairAssumption
    <2>3. CASE x # hi
        <3>1. owner'[x] = owner[x] /\ depth'[x] = depth[x]
            BY <1>1, <2>3 DEF IInv, PairTypeOK
        <3>2. Cnt(t, x)' = Cnt(t, x)
            BY <1>4, <1>8, <2>3
        <3>3. u # t => Cnt(u, x)' = Cnt(u, x)
            BY <2>1
        <3>. QED
            BY <1>3, <3>1, <3>2, <3>3 DEF AccountingC
    <2>. QED
        BY <2>2, <2>3
<1>11. OwnerHolds'
    BY <1>1, <1>2 DEF IInv, PairTypeOK, OwnerHolds
<1>12. NoTornEngine' /\ Body2Done'
    BY <1>1, <1>7, FieldsFrame DEF IInv, PairTypeOK
<1>. QED
    BY <1>9, <1>10, <1>11, <1>12 DEF IInv

\* Copying the first half: t holds both locks, so no other thread is
\* halfway through either object and both are untorn before the copy;
\* afterwards Body2Of(t) records what the second half will restore.
LEMMA CopyFirst ==
    ASSUME IInv, NEW t \in Threads, CopyHalf(t, 1, "body2") PROVE IInv'
<1> DEFINE c == Op(t)
           x == c.this
           y == c.other
<1>1. /\ Active(t) /\ stage[t] = "body1"
      /\ fields' = IF c.kind = "assign"
                   THEN [fields EXCEPT ![x][1] = fields[y][1]]
                   ELSE [fields EXCEPT ![x][1] = fields[y][1],
                                       ![y][1] = fields[x][1]]
      /\ stage' = [stage EXCEPT ![t] = "body2"]
      /\ UNCHANGED <<owner, depth, pc>>
    BY DEF CopyHalf
<1>2. c \in Call /\ x \in Engines /\ y \in Engines
    BY <1>1, OpCall DEF IInv, Call
<1>3. Frame(t) /\ Op(t)' = c /\ Active(t)'
    BY <1>1 DEF IInv, PairTypeOK, Frame, Op, Active
<1>4. \A u \in Threads \ {t} :
          /\ Active(u)' = Active(u) /\ Op(u)' = Op(u)
          /\ stage'[u] = stage[u]
    BY <1>3 DEF Frame, Active, Op
<1>5. \A u \in Threads \ {t} :
          Active(u) /\ stage[u] = "body2" => Objs(u) \cap {x, y} = {}
    BY <1>1, Exclusive DEF IInv, Holding, Objs
<1>6. fields[x][1] = fields[x][2] /\ fields[y][1] = fields[y][2]
    BY <1>1, <1>2, <1>5 DEF IInv, NoTornEngine, Objs
<1>7. \A e \in Engines \ {x, y} : fields'[e] = fields[e]
    BY <1>1 DEF IInv, PairTypeOK
<1>8. PairTypeOK'
    BY <1>1, <1>2, <1>6 DEF IInv, PairTypeOK, Stages
<1>9. AccountingC'
    <2>1. \A e \in Engines : Cnt(t, e)' = Cnt(t, e)
        BY <1>1, <1>3 DEF IInv, PairTypeOK, Cnt, Taken
    <2>2. \A u \in Threads \ {t}, e \in Engines : Cnt(u, e)' = Cnt(u, e)
        BY <1>3, CntFrame
    <2>. QED
        BY <1>1, <2>1, <2>2 DEF IInv, AccountingC
<1>10. OwnerHolds'
    BY <1>1 DEF IInv, OwnerHolds
<1>11. NoTornEngine'
    <2> SUFFICES ASSUME NEW e \in Engines,
                        ~\E u \in Threads : Active(u)' /\ stage'[u] = "body2"
                                            /\ e \in {Op(u)'.this, Op(u)'.other}
                 PROVE  fields'[e][1] = fields'[e][2]
        BY DEF NoTornEngine
    <2>1. e \notin {x, y}
        BY <1>1, <1>3 DEF IInv, PairTypeOK
    <2>2. ~\E u \in Threads : Active(u) /\ stage[u] = "body2"
                              /\ e \in {Op(u).this, Op(u).other}
        BY <1>1, <1>4
    <2>. QED
        BY <1>7, <2>1, <2>2 DEF IInv, NoTornEngine
<1>12. Body2Done'
    <2> SUFFICES ASSUME NEW u \in Threads, Active(u)', stage'[u] = "body2"
                 PROVE  Body2Of(u)'
        BY DEF Body2Done
    <2>1. CASE u = t
        <3>1. CASE c.kind = "assign"
            <4>1. fields'[x][1] = fields[y][1]
                BY <1>1, <1>2, <3>1 DEF IInv, PairTypeOK
            <4>2. fields'[y] = IF x = y THEN fields'[x] ELSE fields[y]
                BY <1>1, <1>2, <3>1 DEF IInv, PairTypeOK
            <4>3. fields'[x][2] = fields[x][2]
                BY <1>1, <1>2, <3>1 DEF IInv, PairTypeOK
            <4>. QED
                BY <1>3, <1>6, <2>1, <3>1, <4>1, <4>2, <4>3 DEF Body2Of
        <3>2. CASE c.kind # "assign"
            <4>1. fields'[x] = IF x = y THEN fields[x]
                               ELSE <<fields[y][1], fields[x][2]>>
                BY <1>1, <1>2, <1>6, <3>2 DEF IInv, PairTypeOK
            <4>2. fields'[y] = IF x = y THEN fields[x]
                               ELSE <<fields[x][1], fields[y][2]>>
                BY <1>1, <1>2, <1>6, <3>2 DEF IInv, PairTypeOK
            <4>. QED
                BY <1>3, <1>6, <2>1, <3>2, <4>1, <4>2 DEF Body2Of
        <3>. QED
            BY <3>1, <3>2
    <2>2. CASE u # t
        <3>1. Active(u) /\ stage[u] = "body2" /\ Op(u)' = Op(u)
            BY <1>4, <2>2
        <3>2. Body2Of(u)
            BY <3>1 DEF IInv, Body2Done
        <3>3. Op(u) \in Call /\ Objs(u) \cap {x, y} = {}
            BY <1>5, <2>2, <3>1, OpCall DEF IInv
        <3>4. fields'[Op(u).this] = fields[Op(u).this]
              /\ fields'[Op(u).other] = fields[Op(u).other]
            BY <1>7, <3>3 DEF Objs, Call
        <3>. QED
            BY <3>1, <3>2, <3>4 DEF Body2Of
    <2>. QED
        BY <2>1, <2>2
<1>. QED
    BY <1>8, <1>9, <1>10, <1>11, <1>12 DEF IInv

\* Copying the second half: by Body2Of(t) both objects are whole again.
LEMMA CopySecond ==
    ASSUME IInv, NEW t \in Threads, CopyHalf(t, 2, "unlock") PROVE IInv'
<1> DEFINE c == Op(t)
           x == c.this
           y == c.other
<1>1. /\ Active(t) /\ stage[t] = "body2"
      /\ fields' = IF c.kind = "assign"
                   THEN [fields EXCEPT ![x][2] = fields[y][2]]
                   ELSE [fields EXCEPT ![x][2] = fields[y][2],
                                       ![y][2] = fields[x][2]]
      /\ stage' = [stage EXCEPT ![t] = "unlock"]
      /\ UNCHANGED <<owner, depth, pc>>
    BY DEF CopyHalf
<1>2. c \in Call /\ x \in Engines /\ y \in Engines
    BY <1>1, OpCall DEF IInv, Call
<1>3. Frame(t) /\ Op(t)' = c /\ Active(t)'
    BY <1>1 DEF IInv, PairTypeOK, Frame, Op, Active
<1>4. \A u \in Threads \ {t} :
          /\ Active(u)' = Active(u) /\ Op(u)' = Op(u)
          /\ stage'[u] = stage[u]
    BY <1>3 DEF Frame, Active, Op
<1>5. \A u \in Threads \ {t} :
          Active(u) /\ stage[u] = "body2" => Objs(u) \cap {x, y} = {}
    BY <1>1, Exclusive DEF IInv, Holding, Objs
<1>6. Body2Of(t)
    BY <1>1 DEF IInv, Body2Done
<1>7. \A e \in Engines \ {x, y} : fields'[e] = fields[e]
    BY <1>1 DEF IInv, PairTypeOK
<1>8. /\ fields'[x][1] = fields'[x][2] /\ fields'[y][1] = fields'[y][2]
      /\ fields'[x] \in Engines \X Engines /\ fields'[y] \in Engines \X Engines
    <2>0. fields[x] \in Engines \X Engines /\ fields[y] \in Engines \X Engines
        BY <1>2 DEF IInv, PairTypeOK
    <2>1. CASE c.kind = "assign"
        <3>1. fields'[x] = <<fields[x][1], fields[y][2]>>
            BY <2>0, <1>1, <1>2, <2>1 DEF IInv, PairTypeOK
        <3>2. fields'[y] = IF x = y THEN fields'[x] ELSE fields[y]
            BY <2>0, <1>1, <1>2, <2>1 DEF IInv, PairTypeOK
        <3>3. fields[x][1] = fields[y][2] /\ fields[y][1] = fields[y][2]
            BY <1>6, <2>1 DEF Body2Of
        <3>. QED
            BY <1>2, <3>1, <3>2, <3>3, <2>0
    <2>2. CASE c.kind # "assign"
        <3>1. fields'[x] = IF x = y THEN fields[x]
                           ELSE <<fields[x][1], fields[y][2]>>
            BY <2>0, <1>1, <1>2, <2>2 DEF IInv, PairTypeOK
        <3>2. fields'[y] = IF x = y THEN fields[x]
                           ELSE <<fields[y][1], fields[x][2]>>
            BY <2>0, <1>1, <1>2, <2>2 DEF IInv, PairTypeOK
        <3>3. fields[x][1] = fields[y][2] /\ fields[y][1] = fields[x][2]
            BY <1>6, <2>2 DEF Body2Of
        <3>. QED
            BY <1>2, <3>1, <3>2, <3>3, <2>0
    <2>. QED
        BY <2>1, <2>2
<1>9. PairTypeOK'
    BY <1>1, <1>2, <1>7, <1>8 DEF IInv, PairTypeOK, Stages
<1>10. AccountingC'
    <2>1. \A e \in Engines : Cnt(t, e)' = Cnt(t, e)
        BY <1>1, <1>3 DEF IInv, PairTypeOK, Cnt, Taken
    <2>2. \A u \in Threads \ {t}, e \in Engines : Cnt(u, e)' = Cnt(u, e)
        BY <1>3, CntFrame
    <2>. QED
        BY <1>1, <2>1, <2>2 DEF IInv, AccountingC
<1>11. OwnerHolds'
    BY <1>1 DEF IInv, OwnerHolds
<1>12. NoTornEngine'
    <2> SUFFICES ASSUME NEW e \in Engines,
                        ~\E u \in Threads : Active(u)' /\ stage'[u] = "body2"
                                            /\ e \in {Op(u)'.this, Op(u)'.other}
                 PROVE  fields'[e][1] = fields'[e][2]
        BY DEF NoTornEngine
    <2>1. CASE e \in {x, y}
        BY <1>8, <2>1
    <2>2. CASE e \notin {x, y}
        <3>1. ~\E u \in Threads : Active(u) /\ stage[u] = "body2"
                                  /\ e \in {Op(u).this, Op(u).other}
            BY <1>1, <1>4, <2>2
        <3>. QED
            BY <1>7, <2>2, <3>1 DEF IInv, NoTornEngine
    <2>. QED
        BY <2>1, <2>2
<1>13. Body2Done'
    <2> SUFFICES ASSUME NEW u \in Threads, Active(u)', stage'[u] = "body2"
                 PROVE  Body2Of(u)'
        BY DEF Body2Done
    <2>1. u # t
        BY <1>1 DEF IInv, PairTypeOK
    <2>2. Active(u) /\ stage[u] = "body2" /\ Op(u)' = Op(u)
        BY <1>4, <2>1
    <2>3. Body2Of(u)
        BY <2>2 DEF IInv, Body2Done
    <2>4. Op(u) \in Call /\ Objs(u) \cap {x, y} = {}
        BY <1>5, <2>1, <2>2, OpCall DEF IInv
    <2>5. fields'[Op(u).this] = fields[Op(u).this]
          /\ fields'[Op(u).other] = fields[Op(u).other]
        BY <1>7, <2>4 DEF Objs, Call
    <2>. QED
        BY <2>2, <2>3, <2>5 DEF Body2Of
<1>. QED
    BY <1>9, <1>10, <1>11, <1>12, <1>13 DEF IInv

\* Leaving the call: t owned both mutexes, each once per time its call took
\* it, so subtracting those takes them to zero and frees them; every other
\* mutex keeps its owner and depth.
LEMMA ReleaseStep ==
    ASSUME IInv, NEW t \in Threads, Release(t) PROVE IInv'
<1> DEFINE lo  == LockOrder(Op(t))[1]
           hi  == LockOrder(Op(t))[2]
           dep == [[depth EXCEPT ![lo] = @ - 1] EXCEPT ![hi] = @ - 1]
<1>1. /\ Active(t) /\ stage[t] = "unlock"
      /\ depth' = dep
      /\ owner' = [e \in Engines |->
                      IF e \in {lo, hi} /\ dep[e] = 0 THEN NoThread
                      ELSE owner[e]]
      /\ pc' = [pc EXCEPT ![t] = @ + 1]
      /\ stage' = [stage EXCEPT ![t] = "lock1"]
      /\ UNCHANGED fields
    BY DEF Release
<1>2. Op(t) \in Call /\ lo \in Engines /\ hi \in Engines /\ {lo, hi} = Objs(t)
    BY <1>1, OpCall, LockOrderPair DEF IInv, Objs
<1>3. owner[lo] = t /\ owner[hi] = t
    BY <1>1, <1>2, BodyOwns DEF IInv, Holding
<1>4. \A e \in Engines :
          Cnt(t, e) = (IF e = lo THEN 1 ELSE 0) + (IF e = hi THEN 1 ELSE 0)
    BY <1>1 DEF Cnt, Taken
<1>5. \A e \in Engines :
          dep[e] = depth[e] - (IF e = lo THEN 1 ELSE 0)
                            - (IF e = hi THEN 1 ELSE 0)
    <2>1. depth \in [Engines -> Nat]
        BY DEF IInv, PairTypeOK
    <2>2. CASE lo = hi
        BY <1>2, <2>1, <2>2
    <2>3. CASE lo # hi
        BY <1>2, <2>1, <2>3
    <2>. QED
        BY <2>2, <2>3
<1>6. dep[lo] = 0 /\ dep[hi] = 0
    <2>0. depth \in [Engines -> Nat]
        BY DEF IInv, PairTypeOK
    <2>1. AccountingC
        BY DEF IInv
    <2>2. depth[lo] = Cnt(t, lo) /\ depth[hi] = Cnt(t, hi)
        BY <1>2, <1>3, <2>1 DEF AccountingC
    <2>3. /\ Cnt(t, lo) = 1 + (IF lo = hi THEN 1 ELSE 0)
          /\ Cnt(t, hi) = (IF hi = lo THEN 1 ELSE 0) + 1
        BY <1>2, <1>4
    <2>4. /\ dep[lo] = depth[lo] - 1 - (IF lo = hi THEN 1 ELSE 0)
          /\ dep[hi] = depth[hi] - (IF hi = lo THEN 1 ELSE 0) - 1
        BY <1>2, <1>5, <2>0
    <2>5. CASE lo = hi
        <3>1. depth[lo] = 2 /\ dep[lo] = depth[lo] - 2
            BY <2>2, <2>3, <2>4, <2>5
        <3>. QED
            BY <1>2, <2>0, <2>5, <3>1
    <2>6. CASE lo # hi
        <3>1. depth[lo] = 1 /\ depth[hi] = 1
            BY <2>2, <2>3, <2>6
        <3>2. dep[lo] = depth[lo] - 1 /\ dep[hi] = depth[hi] - 1
            BY <1>2, <2>0, <2>4, <2>6
        <3>. QED
            BY <3>1, <3>2
    <2>. QED
        BY <2>5, <2>6
<1>7. \A e \in Engines \ {lo, hi} : dep[e] = depth[e] /\ owner'[e] = owner[e]
    BY <1>1, <1>2, <1>5 DEF IInv, PairTypeOK
<1>8. \A e \in {lo, hi} : owner'[e] = NoThread /\ depth'[e] = 0
    BY <1>1, <1>2, <1>6
<1>9. Frame(t) /\ \A e \in Engines : Cnt(t, e)' = 0
    BY <1>1 DEF IInv, PairTypeOK, Frame, Cnt, Taken
<1>10. PairTypeOK'
    <2>1. depth' \in [Engines -> Nat]
        BY <1>1, <1>2, <1>6, <1>7 DEF IInv, PairTypeOK
    <2>2. owner' \in [Engines -> Threads \cup {NoThread}]
        BY <1>1 DEF IInv, PairTypeOK
    <2>. QED
        BY <1>1, <2>1, <2>2 DEF IInv, PairTypeOK, Stages
<1>11. AccountingC'
    <2> SUFFICES ASSUME NEW x \in Engines, NEW u \in Threads
                 PROVE  /\ owner'[x] = NoThread => depth'[x] = 0
                        /\ owner'[x] = u => depth'[x] = Cnt(u, x)'
                        /\ owner'[x] # u => Cnt(u, x)' = 0
        BY DEF AccountingC
    <2>1. u # t => Cnt(u, x)' = Cnt(u, x)
        BY <1>9, CntFrame
    <2>2. CASE x \in {lo, hi}
        <3>1. u # t => Cnt(u, x) = 0
            BY <1>3, <2>2 DEF IInv, AccountingC
        <3>. QED
            BY <1>8, <1>9, <2>1, <2>2, <3>1, PairAssumption
    <2>3. CASE x \notin {lo, hi}
        <3>1. owner'[x] = owner[x] /\ depth'[x] = depth[x]
            BY <1>1, <1>7, <2>3
        <3>2. Cnt(t, x) = 0 /\ Cnt(t, x)' = 0
            BY <1>4, <1>9, <2>3
        <3>. QED
            BY <2>1, <3>1, <3>2 DEF IInv, AccountingC
    <2>. QED
        BY <2>2, <2>3
<1>12. OwnerHolds'
    BY <1>1, <1>7, <1>8, PairAssumption DEF IInv, OwnerHolds
<1>13. NoTornEngine' /\ Body2Done'
    BY <1>1, <1>9, FieldsFrame DEF IInv, PairTypeOK
<1>. QED
    BY <1>10, <1>11, <1>12, <1>13 DEF IInv

\* Stuttering, and the final steps once every thread has returned.
LEMMA StutterIInv ==
    ASSUME IInv, UNCHANGED vars PROVE IInv'
<1>1. UNCHANGED <<owner, depth, fields, pc, stage>>
    BY DEF vars
<1>2. \A t \in Threads : /\ Active(t)' = Active(t) /\ Op(t)' = Op(t)
                        /\ stage'[t] = stage[t]
    BY <1>1 DEF Active, Op
<1>3. \A t \in Threads, e \in Engines : Cnt(t, e)' = Cnt(t, e)
    BY <1>1, <1>2 DEF Cnt, Taken
<1>4. PairTypeOK' /\ OwnerHolds'
    BY <1>1 DEF IInv, PairTypeOK, OwnerHolds
<1>5. AccountingC'
    BY <1>1, <1>3 DEF IInv, AccountingC
<1>6. NoTornEngine' /\ Body2Done'
    BY <1>1, <1>2 DEF IInv, NoTornEngine, Body2Done, Body2Of
<1>. QED
    BY <1>4, <1>5, <1>6 DEF IInv

-----------------------------------------------------------------------------
(* The invariants                                                          *)

\* Initially no lock is held, no call has started and every object holds
\* its own fields.
LEMMA InitIInv == Init => IInv
<1> SUFFICES ASSUME Init PROVE IInv
    OBVIOUS
<1>1. PairTypeOK
    BY PairAssumption DEF Init, PairTypeOK, Stages
<1>2. \A t \in Threads, e \in Engines : Cnt(t, e) = 0
    BY DEF Init, Cnt, Taken
<1>3. AccountingC
    BY <1>2, PairAssumption DEF Init, AccountingC
<1>4. OwnerHolds /\ NoTornEngine /\ Body2Done
    BY DEF Init, OwnerHolds, NoTornEngine, Body2Done
<1>. QED
    BY <1>1, <1>3, <1>4 DEF IInv

LEMMA NextIInv == IInv /\ [Next]_vars => IInv'
<1> SUFFICES ASSUME IInv, [Next]_vars PROVE IInv'
    OBVIOUS
<1>1. CASE \E t \in Threads : ThreadStep(t)
    <2> PICK t \in Threads : ThreadStep(t)
        BY <1>1
    <2>. QED
        BY AcquireFirst, AcquireSecond, CopyFirst, CopySecond, ReleaseStep
        DEF ThreadStep
<1>2. CASE UNCHANGED vars
    BY <1>2, StutterIInv
<1>. QED
    BY <1>1, <1>2 DEF Next

\* The recursive m_lock of every engine is held by exactly the thread whose
\* copy, move or swap call has taken it, as many times as that call took it
\* (twice for self-assignment a = a), and is free when no call holds it:
\* no interleaving of these calls leaves a mutex locked or unlocks a mutex
\* some other call still holds.
THEOREM LockAccountingHolds == Spec => []LockAccounting
<1>1. IInv => LockAccounting
    BY AccountingIsC DEF IInv
<1>. QED
    BY InitIInv, NextIInv, <1>1, PTL DEF Spec

\* While one thread is halfway through copying or exchanging the fields
\* of two engines, no other thread's copy, move or swap writes or reads
\* them, so every engine no call is halfway through is whole.
THEOREM NoTornEngineHolds == Spec => []NoTornEngine
<1>1. IInv => NoTornEngine
    BY DEF IInv
<1>. QED
    BY InitIInv, NextIInv, <1>1, PTL DEF Spec

-----------------------------------------------------------------------------
(* Fields are written under the lock                                       *)

\* The step relation of FieldsWrittenUnderLock.
FieldWriteStep ==
    \A e \in Engines :
        fields'[e] # fields[e] =>
            /\ owner[e] \in Threads
            /\ owner'[e] = owner[e]
            /\ stage'[owner[e]] # stage[owner[e]]

\* Only the two half-copies write fields, and only those of the call's
\* own objects, whose mutexes the writing thread holds (BodyOwns).
LEMMA NextFieldWrite ==
    ASSUME IInv, [Next]_vars PROVE [FieldWriteStep]_vars
<1>1. ASSUME NEW t \in Threads, ThreadStep(t) PROVE FieldWriteStep
    <2> SUFFICES ASSUME NEW e \in Engines, fields'[e] # fields[e]
                 PROVE  /\ owner[e] \in Threads
                        /\ owner'[e] = owner[e]
                        /\ stage'[owner[e]] # stage[owner[e]]
        BY DEF FieldWriteStep
    <2>1. CASE Acquire(t, 1, "lock2") \/ Acquire(t, 2, "body1") \/ Release(t)
        BY <2>1 DEF Acquire, Release
    <2>2. CASE CopyHalf(t, 1, "body2") \/ CopyHalf(t, 2, "unlock")
        <3>1. /\ Active(t) /\ stage[t] \in {"body1", "body2"}
              /\ stage'[t] # stage[t] /\ UNCHANGED owner
            BY <2>2 DEF CopyHalf, IInv, PairTypeOK
        <3>2. e \in Objs(t)
            BY <2>2 DEF CopyHalf, Objs, IInv, PairTypeOK
        <3>3. owner[e] = t
            BY <3>1, <3>2, BodyOwns DEF IInv, Holding
        <3>. QED
            BY <3>1, <3>3
    <2>. QED
        BY <1>1, <2>1, <2>2 DEF ThreadStep
<1>2. CASE UNCHANGED vars
    BY <1>2
<1>. QED
    BY <1>1, <1>2 DEF Next

\* Every step that changes a field of an engine (an assignment in
\* FsmBase::copy or an exchange in swap) is taken by the thread that owns
\* that engine's m_lock, and it still owns the lock after the write.
THEOREM FieldsWrittenUnderLockHolds == Spec => FieldsWrittenUnderLock
<1>1. IInv /\ [Next]_vars => [FieldWriteStep]_vars
    BY NextFieldWrite
<1>. QED
    BY InitIInv, NextIInv, <1>1, PTL DEF Spec, FieldsWrittenUnderLock,
       FieldWriteStep

-----------------------------------------------------------------------------
(* Waits go upward in the address order                                    *)

\* The program makes every copy assignment a = b with &a <= &b, so that
\* copy's lock order (this, then other) agrees with swap's (lower address
\* first).  MC_FsmPair does; MC_FsmPairCross, with a = b and b = a, does not.
CopiesInAddressOrder ==
    \A t \in Threads : \A i \in 1..Len(Program[t]) :
        Program[t][i].kind = "assign" =>
            Addr[Program[t][i].this] <= Addr[Program[t][i].other]

\* Under that discipline every call takes its locks in address order.
LEMMA LockOrderUp ==
    ASSUME CopiesInAddressOrder, PairTypeOK, NEW t \in Threads, Active(t)
    PROVE  Addr[LockOrder(Op(t))[1]] <= Addr[LockOrder(Op(t))[2]]
<1>1. Op(t) \in Call /\ Op(t) = Program[t][pc[t]]
      /\ pc[t] \in 1..Len(Program[t])
    BY OpCall DEF Op, Active
<1>2. Addr[Op(t).this] \in Nat /\ Addr[Op(t).other] \in Nat
    BY <1>1, PairAssumption DEF Call
<1>3. CASE Op(t).kind = "assign"
    BY <1>1, <1>3 DEF CopiesInAddressOrder, LockOrder
<1>4. CASE Op(t).kind # "assign"
    BY <1>2, <1>4 DEF LockOrder
<1>. QED
    BY <1>3, <1>4

\* A thread u that holds the mutex t waits for, and itself waits, has
\* taken exactly its first lock and waits for its second, a different
\* mutex at a higher address.
LEMMA IInvWaitsUpward ==
    ASSUME IInv, CopiesInAddressOrder, NEW t \in Threads, NEW u \in Threads,
           NEW v \in Threads, WaitsFor(t, u), WaitsFor(u, v)
    PROVE  WaitRank(t) < WaitRank(u)
<1> DEFINE e == LockOrder(Op(t))[IF stage[t] = "lock1" THEN 1 ELSE 2]
           f == LockOrder(Op(u))[IF stage[u] = "lock1" THEN 1 ELSE 2]
<1>1. /\ Active(t) /\ stage[t] \in {"lock1", "lock2"}
      /\ owner[e] = u
    BY DEF WaitsFor
<1>2. /\ Active(u) /\ stage[u] \in {"lock1", "lock2"}
      /\ owner[f] \notin {NoThread, u}
    BY DEF WaitsFor, Lockable
<1>3. Op(t) \in Call /\ Op(u) \in Call /\ e \in Engines /\ f \in Engines
    BY <1>1, <1>2, OpCall, LockOrderPair DEF IInv
<1>4. Cnt(u, e) >= 1
    <2>1. depth[e] > 0 /\ depth[e] = Cnt(u, e)
        BY <1>1, <1>3, PairAssumption DEF IInv, OwnerHolds, AccountingC
    <2>. QED
        BY <2>1 DEF Cnt
<1>5. stage[u] = "lock2" /\ e = LockOrder(Op(u))[1]
    BY <1>2, <1>4 DEF Cnt, Taken
<1>6. f = LockOrder(Op(u))[2] /\ f # e
    BY <1>1, <1>2, <1>5
<1>7. Addr[e] <= Addr[f] /\ Addr[e] \in Nat /\ Addr[f] \in Nat
    BY <1>2, <1>3, <1>5, <1>6, LockOrderUp, PairAssumption DEF IInv
<1>8. Addr[e] # Addr[f]
    BY <1>3, <1>6, PairAssumption
<1>. QED
    BY <1>7, <1>8 DEF WaitRank

\* When every copy assignment a = b is made with &a <= &b, the threads
\* blocked in copy, move and swap wait upward in the address order: when t
\* waits for u's mutex and u waits too, u waits at a higher address.  So no
\* chain of waits closes into a cycle, and the calls cannot deadlock.
THEOREM WaitsUpwardHolds ==
    CopiesInAddressOrder => (Spec => []WaitsUpward)
<1> SUFFICES ASSUME CopiesInAddressOrder PROVE Spec => []WaitsUpward
    OBVIOUS
<1>1. IInv => WaitsUpward
    BY IInvWaitsUpward DEF WaitsUpward
<1>. QED
    BY InitIInv, NextIInv, <1>1, PTL DEF Spec

=============================================================================
