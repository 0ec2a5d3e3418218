---------------------------- MODULE UniquePointer ----------------------------
(***************************************************************************)
(* lwiot::UniquePointer<T> (src/include/lwiot/uniquepointer.h): a pointer *)
(* that owns the object it points to and deletes it when it is destroyed,  *)
(* reset or assigned over.  Copying transfers ownership: the copy          *)
(* constructor takes px from its (const) source and sets the source's px   *)
(* to NULL.                                                                *)
(*                                                                         *)
(* Ptrs are the storage of the UniquePointer objects of a program (each    *)
(* constructed, destroyed and possibly constructed again), Objs the heap   *)
(* objects they may own.  The program's raw pointers are part of the       *)
(* environment: an object made by                                          *)
(* new, or given up by release(), is held raw by the client until it is    *)
(* adopted by a UniquePointer or deleted.  Heap addresses are not reused,  *)
(* so a pointer to a deleted object stays recognisable.                    *)
(***************************************************************************)

CONSTANTS
    Ptrs,   \* the UniquePointer objects
    Objs,   \* the heap objects of type T
    Null    \* the null pointer

ASSUME UniquePointerAssumption == Null \notin Objs

Heap == {"unused", "alive", "deleted"}

VARIABLES
    live,   \* live[p]: p has been constructed and not yet destroyed
    px,     \* px[p]: the pointer p holds
    heap,   \* heap[o]: whether o has been allocated and deleted
    raw     \* the objects the client holds by raw pointer only

vars == <<live, px, heap, raw>>

\* delete px: deleting NULL is a no-op.
Delete(o) == IF o = Null THEN heap ELSE [heap EXCEPT ![o] = "deleted"]

Init ==
    /\ live = [p \in Ptrs |-> FALSE]
    /\ px = [p \in Ptrs |-> Null]
    /\ heap = [o \in Objs |-> "unused"]
    /\ raw = {}

-----------------------------------------------------------------------------
(* The client's raw pointers                                               *)

\* new T: the client holds the new object by raw pointer.
New(o) ==
    /\ heap[o] = "unused"
    /\ heap' = [heap EXCEPT ![o] = "alive"]
    /\ raw' = raw \cup {o}
    /\ UNCHANGED <<live, px>>

\* delete of a raw pointer the client holds.
DeleteRaw(o) ==
    /\ o \in raw
    /\ heap' = Delete(o)
    /\ raw' = raw \ {o}
    /\ UNCHANGED <<live, px>>

-----------------------------------------------------------------------------
(* Member functions                                                        *)

\* UniquePointer(): px(NULL).
ConstructEmpty(p) ==
    /\ ~live[p]
    /\ live' = [live EXCEPT ![p] = TRUE]
    /\ UNCHANGED <<px, heap, raw>>

\* explicit UniquePointer(T *p): adopt a raw pointer.
ConstructFrom(p, o) ==
    /\ ~live[p]
    /\ o \in raw
    /\ live' = [live EXCEPT ![p] = TRUE]
    /\ px' = [px EXCEPT ![p] = o]
    /\ raw' = raw \ {o}
    /\ UNCHANGED heap

\* Mutant: a copy constructor that shares px instead of taking it.
CopyShares(p, q) ==
    /\ ~live[p] /\ live[q] /\ p # q
    /\ live' = [live EXCEPT ![p] = TRUE]
    /\ px' = [px EXCEPT ![p] = px[q]]
    /\ UNCHANGED <<heap, raw>>

\* UniquePointer(const UniquePointer &ptr) and the converting constructor:
\* px(ptr.px), then ptr.px = NULL through a const_cast.
Copy(p, q) ==
    /\ ~live[p] /\ live[q] /\ p # q
    /\ live' = [live EXCEPT ![p] = TRUE]
    /\ px' = [px EXCEPT ![p] = px[q], ![q] = Null]
    /\ UNCHANGED <<heap, raw>>

\* operator=(UniquePointer ptr): the by-value parameter is copy
\* constructed from q (taking q's object), swapped with p, and destroyed
\* at the end, deleting what p held before.  For p = q the parameter takes
\* p's object and gives it straight back.
Assign(p, q) ==
    LET tmp == px[q]
        px1 == [px EXCEPT ![q] = Null]
        old == px1[p]
    IN  /\ live[p] /\ live[q]
        /\ px' = [px1 EXCEPT ![p] = tmp]
        /\ heap' = Delete(old)
        /\ UNCHANGED <<live, raw>>

\* Mutant: destroy() without px = NULL.
ResetKeepsPointer(p) ==
    /\ live[p]
    /\ heap' = Delete(px[p])
    /\ UNCHANGED <<live, px, raw>>

\* reset(): destroy(), which deletes px and sets it to NULL.
Reset(p) ==
    /\ live[p]
    /\ heap' = Delete(px[p])
    /\ px' = [px EXCEPT ![p] = Null]
    /\ UNCHANGED <<live, raw>>

\* reset(T *p): adopt a raw pointer (or NULL) after destroy().  Its
\* precondition p != px is only an assertion; the client passes pointers
\* it holds raw, which no UniquePointer holds.
ResetTo(p, o) ==
    /\ live[p]
    /\ o \in raw \cup {Null}
    /\ heap' = Delete(px[p])
    /\ px' = [px EXCEPT ![p] = o]
    /\ raw' = raw \ {o}
    /\ UNCHANGED live

\* swap(lhs)
Swap(p, q) ==
    /\ live[p] /\ live[q]
    /\ px' = [px EXCEPT ![p] = px[q], ![q] = px[p]]
    /\ UNCHANGED <<live, heap, raw>>

\* release(): px = NULL without deleting; the client, who read get()
\* before, now holds the object raw.
Release(p) ==
    /\ live[p]
    /\ px' = [px EXCEPT ![p] = Null]
    /\ raw' = IF px[p] = Null THEN raw ELSE raw \cup {px[p]}
    /\ UNCHANGED <<live, heap>>

\* ~UniquePointer(): destroy().
Destroy(p) ==
    /\ live[p]
    /\ live' = [live EXCEPT ![p] = FALSE]
    /\ heap' = Delete(px[p])
    /\ px' = [px EXCEPT ![p] = Null]
    /\ UNCHANGED raw

Next ==
    \/ \E o \in Objs : New(o) \/ DeleteRaw(o)
    \/ \E p \in Ptrs :
          \/ ConstructEmpty(p) \/ Reset(p) \/ Release(p) \/ Destroy(p)
          \/ \E o \in Objs : ConstructFrom(p, o)
          \/ \E o \in Objs \cup {Null} : ResetTo(p, o)
          \/ \E q \in Ptrs : Copy(p, q) \/ Assign(p, q) \/ Swap(p, q)

Spec == Init /\ [][Next]_vars

-----------------------------------------------------------------------------
(* Properties                                                              *)

\* Type invariant: every pointer, object and raw pointer has the type the
\* code gives it.
TypeOK ==
    /\ live \in [Ptrs -> BOOLEAN]
    /\ px \in [Ptrs -> Objs \cup {Null}]
    /\ heap \in [Objs -> Heap]
    /\ raw \subseteq Objs

\* No live UniquePointer, and no raw pointer of the client, points to a
\* deleted object: reset, assignment and destruction never leave a pointer
\* behind to what they deleted, so no dereference or later delete of it
\* happens.
NoDangling ==
    /\ \A p \in Ptrs : live[p] /\ px[p] # Null => heap[px[p]] = "alive"
    /\ \A o \in raw : heap[o] = "alive"

\* Every allocated, undeleted object has exactly one owner, a live
\* UniquePointer or the client's raw pointer: copies and assignments
\* transfer ownership without sharing it (no double delete) and without
\* dropping it (no leak).
ExactlyOneOwner ==
    /\ \A o \in Objs :
          heap[o] = "alive" => o \in raw \/ \E p \in Ptrs : live[p] /\ px[p] = o
    /\ \A p, q \in Ptrs :
          live[p] /\ live[q] /\ p # q /\ px[p] = px[q] => px[p] = Null
    /\ \A p \in Ptrs : live[p] => px[p] \notin raw

=============================================================================
