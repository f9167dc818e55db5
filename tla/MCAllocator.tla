------------------------------ MODULE MCAllocator ------------------------------
(***************************************************************************)
(* A pool of three elements, of which element 0 is in use from the start,    *)
(* on a volume that can grow once by two.                                   *)
(***************************************************************************)
EXTENDS Allocator

MCInitAllocated == {0}

================================================================================
