----------------------------- MODULE FsmPairWait -----------------------------
(***************************************************************************)
(* The wait-for graph of the threads of FsmPair: who is blocked on whose   *)
(* m_lock (WaitsFor, in FsmPair).  Kept apart from FsmPair because it    *)
(* needs the Graphs module.                                                *)
(***************************************************************************)
EXTENDS FsmPair, Graphs

\* No set of threads waits on each other's m_lock in a cycle, and no
\* thread on itself: the lock orders of copy, move and swap, with the
\* recursive mutex, never deadlock the calls.
NoWaitCycle ==
    ~HasCycle([node |-> Threads,
               edge |-> {<<t, u>> \in Threads \X Threads : WaitsFor(t, u)}])

=============================================================================
