------------------------- MODULE UniquePointer_proofs -------------------------
(***************************************************************************)
(* Proofs that UniquePointer never leaves a pointer to a deleted object    *)
(* and that every live object has exactly one owner, for any number of     *)
(* pointers and objects.                                                   *)
(***************************************************************************)
EXTENDS UniquePointer, TLAPS

\* A destroyed (or never constructed) UniquePointer holds NULL: destroy()
\* sets px = NULL, and the copy constructor and operator= write px only
\* into live pointers.
DeadEmpty == \A p \in Ptrs : ~live[p] => px[p] = Null

\* The two properties are inductive together, given the types and
\* DeadEmpty: a constructor adopts px from a live pointer or the client,
\* never from storage that was destroyed.
IInv == TypeOK /\ NoDangling /\ ExactlyOneOwner /\ DeadEmpty

LEMMA InitIInv == Init => IInv
BY UniquePointerAssumption
   DEF Init, IInv, TypeOK, NoDangling, ExactlyOneOwner, DeadEmpty, Heap

LEMMA NextIInv == IInv /\ [Next]_vars => IInv'
<1> SUFFICES ASSUME IInv, [Next]_vars PROVE IInv'
    OBVIOUS
<1> USE UniquePointerAssumption DEF IInv, TypeOK, NoDangling,
                                   ExactlyOneOwner, DeadEmpty, Heap
<1>1. ASSUME NEW o \in Objs, New(o) PROVE IInv'
    BY <1>1 DEF New
<1>2. ASSUME NEW o \in Objs, DeleteRaw(o) PROVE IInv'
    BY <1>2 DEF DeleteRaw, Delete
<1>3. ASSUME NEW p \in Ptrs, ConstructEmpty(p) PROVE IInv'
    BY <1>3 DEF ConstructEmpty
<1>4. ASSUME NEW p \in Ptrs, Reset(p) PROVE IInv'
    BY <1>4 DEF Reset, Delete
<1>5. ASSUME NEW p \in Ptrs, Release(p) PROVE IInv'
    BY <1>5 DEF Release
<1>6. ASSUME NEW p \in Ptrs, Destroy(p) PROVE IInv'
    BY <1>6 DEF Destroy, Delete
<1>7. ASSUME NEW p \in Ptrs, NEW o \in Objs, ConstructFrom(p, o)
      PROVE IInv'
    BY <1>7 DEF ConstructFrom
<1>8. ASSUME NEW p \in Ptrs, NEW o \in Objs \cup {Null}, ResetTo(p, o)
      PROVE IInv'
    BY <1>8 DEF ResetTo, Delete
<1>9. ASSUME NEW p \in Ptrs, NEW q \in Ptrs, Copy(p, q) PROVE IInv'
    BY <1>9 DEF Copy
<1>10. ASSUME NEW p \in Ptrs, NEW q \in Ptrs, Assign(p, q) PROVE IInv'
    BY <1>10 DEF Assign, Delete
<1>11. ASSUME NEW p \in Ptrs, NEW q \in Ptrs, Swap(p, q) PROVE IInv'
    BY <1>11 DEF Swap
<1>12. CASE UNCHANGED vars
    BY <1>12 DEF vars
<1>. QED
    BY <1>1, <1>2, <1>3, <1>4, <1>5, <1>6, <1>7, <1>8, <1>9, <1>10, <1>11,
       <1>12 DEF Next

\* Reset, assignment, release and destruction never leave a live
\* UniquePointer or the client pointing at a deleted object.
THEOREM NoDanglingHolds == Spec => []NoDangling
<1>1. IInv => NoDangling
    BY DEF IInv
<1>. QED
    BY InitIInv, NextIInv, <1>1, PTL DEF Spec

\* Copy construction and assignment transfer ownership: no object is
\* owned twice (no double delete) and no live object is owned by nobody
\* (no leak).
THEOREM ExactlyOneOwnerHolds == Spec => []ExactlyOneOwner
<1>1. IInv => ExactlyOneOwner
    BY DEF IInv
<1>. QED
    BY InitIInv, NextIInv, <1>1, PTL DEF Spec

\* Every pointer field and the heap keep their types through any sequence
\* of constructions, resets, releases, assignments, swaps and deletions.
THEOREM UniquePointerTypeCorrect == Spec => []TypeOK
<1>1. IInv => TypeOK
    BY DEF IInv
<1>. QED
    BY InitIInv, NextIInv, <1>1, PTL DEF Spec

=============================================================================
