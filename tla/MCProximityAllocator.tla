------------------------ MODULE MCProximityAllocator ------------------------
(***************************************************************************)
(* Six pages of two units, so that a page holds one slice or two.  The     *)
(* range of the first origin ends inside a page, that of the second at the *)
(* last address; they overlap without being equal.  Handles are plain      *)
(* model values: TLC cannot use their symmetry where liveness is checked.  *)
(***************************************************************************)
EXTENDS AllocatorInv
=============================================================================
