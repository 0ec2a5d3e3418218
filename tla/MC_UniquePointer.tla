--------------------------- MODULE MC_UniquePointer ---------------------------
(***************************************************************************)
(* Three UniquePointer objects and three heap objects.                   *)
(***************************************************************************)
EXTENDS UniquePointer

CONSTANTS p1, p2, p3, o1, o2, o3

=============================================================================
