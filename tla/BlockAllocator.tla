--------------------------- MODULE BlockAllocator ---------------------------
(***************************************************************************)
(* What the allocator promises to the detours that use it: blocks of       *)
(* memory that nobody else uses, that start in reach of the address they   *)
(* were asked for, and that stay where they are until they are given back. *)
(* Nothing is said of pools, pages or the search for them.                 *)
(***************************************************************************)
EXTENDS Naturals

CONSTANTS Addr, MaxDistance, Origins, Sizes, Handles

VARIABLES
  foreign,  \* the addresses the program uses itself
  block     \* the block behind each handle: [origin, start, size], or Nothing

vars == <<foreign, block>>

Nothing == [origin |-> 0, start |-> 0, size |-> 0]

Cells(b)        == b.start .. b.start + b.size - 1
Reaches(a, o)   == a < o + MaxDistance /\ o <= a + MaxDistance
Unused(h)       == Addr \ (foreign \cup UNION {Cells(block[g]) : g \in Handles \ {h}})

Init == foreign \subseteq Addr /\ block = [h \in Handles |-> Nothing]

Allocate(h) ==
  /\ block[h] = Nothing
  /\ \E o \in Origins, a \in Addr, n \in Sizes :
       LET b == [origin |-> o, start |-> a, size |-> n] IN
       /\ block' = [block EXCEPT ![h] = b]
       /\ Reaches(a, o)
       /\ Cells(b) \subseteq Unused(h)
  /\ UNCHANGED foreign

GiveBack(h) ==
  /\ block[h] # Nothing
  /\ block' = [block EXCEPT ![h] = Nothing]
  /\ UNCHANGED foreign

Next == \E h \in Handles : Allocate(h) \/ GiveBack(h)

Spec == Init /\ [][Next]_vars
=============================================================================
