------------------------------ MODULE MCDetour ------------------------------
(***************************************************************************)
(* Small instances of Detour, in two layouts of the patched code.          *)
(*   Chain: d1 and d2 overlap in a cell and span two pages (a hot patch    *)
(*     that reaches into its neighbour); d3 hooks the start of d1's target *)
(*     again and its trampoline relocates cells that both others patch; d4 *)
(*     hooks another function, on the page d2 reaches into, and so it runs *)
(*     beside any of the others.                                           *)
(*   Split: d1 and d2 hook the same function, all on one page.             *)
(***************************************************************************)
EXTENDS DetourInv, TLC

CONSTANTS d1, d2, d3, d4, c1, c2, c3, c4, p1, p2

ThreadSymmetry == Permutations(Threads)

ChainAreas   == (d1 :> {c1, c2}) @@ (d2 :> {c2, c3}) @@ (d3 :> {c1})
                  @@ (d4 :> {c4})
ChainPrologs == (d1 :> {c1, c2}) @@ (d2 :> {c2, c3}) @@ (d3 :> {c1, c2})
                  @@ (d4 :> {c4})
ChainArea    == [d \in Detours |-> ChainAreas[d]]
ChainProlog  == [d \in Detours |-> ChainPrologs[d]]

SplitAreas   == (d1 :> {c1, c2}) @@ (d2 :> {c1})
SplitPrologs == (d1 :> {c1, c2}) @@ (d2 :> {c1, c2})
SplitArea    == [d \in Detours |-> SplitAreas[d]]
SplitProlog  == [d \in Detours |-> SplitPrologs[d]]

TwoPages == [c \in Cells |-> IF c \in {c1, c2} THEN p1 ELSE p2]
OnePage  == [c \in Cells |-> p1]
=============================================================================
