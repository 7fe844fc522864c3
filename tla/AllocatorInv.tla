---------------------------- MODULE AllocatorInv ----------------------------
(***************************************************************************)
(* The inductive invariant behind the allocator's properties.              *)
(***************************************************************************)
EXTENDS ProximityAllocator

\* The null page is never mapped, and the origins stay in the program's code.
PlaceInv ==
  /\ layout[0] = "free"
  /\ \A o \in Origins : layout[PageAt(o)] = "code"

\* The pools of the list are on pages of their own.
PoolInv ==
  /\ \A i \in 1 .. Len(pools) : layout[PageAt(pools[i])] = "pool"
  /\ \A i, j \in 1 .. Len(pools) : i # j => pools[i] # pools[j]

\* A slice that is out is in a pool of the list.
InPool(h) == \E i \in 1 .. Len(pools) : Cells(h) \subseteq PoolCells(pools[i])

HandleInv ==
  \A h \in Handles :
    IF mem[h].state = "none" THEN mem[h] = Absent
    ELSE mem[h].origin \in Origins /\ mem[h].size \in Sizes /\ InPool(h)

\* Two slices that are out have no byte in common.
ApartInv ==
  \A g, h \in Handles :
    g # h /\ mem[g].state # "none" /\ mem[h].state # "none" => Cells(g) \cap Cells(h) = {}

\* A search stands at the origin or at the start of a page, and has tried the
\* free pages that it has left behind and no other.
SearchInv ==
  LET s == search IN
  Locked =>
    /\ s.origin \in Origins /\ s.size \in Sizes
    /\ s.current = s.origin \/ \E p \in 0 .. PageCount : s.current = PageSize * p
    /\ s.dir = "after" =>
         /\ s.origin <= s.current
         /\ s.tried = {a \in UnmappedIn(s.origin) : s.origin <= a /\ a < s.current}
    /\ s.dir = "before" =>
         /\ s.current <= s.origin
         /\ s.tried = {a \in UnmappedIn(s.origin) : s.origin <= a \/ s.current < a}

AllocatorInvariant ==
  TypeOK /\ PlaceInv /\ PoolInv /\ HandleInv /\ ApartInv /\ SearchInv
=============================================================================
