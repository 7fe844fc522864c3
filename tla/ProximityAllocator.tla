------------------------- MODULE ProximityAllocator -------------------------
(***************************************************************************)
(* The allocator of executable memory close to an address                  *)
(* (src/src/alloc): a list of page-sized pools, each cut into slices, and  *)
(* a search of the address space for a free page to map the next pool on.  *)
(*                                                                         *)
(* An allocation holds the allocator's mutex, and so does the search: each *)
(* query of the address space is a step of it.  The drop of a handle is    *)
(* two steps: `release' under the mutex, and then the slice goes back to   *)
(* its pool without it, in the middle of a search too.  The address space  *)
(* is small and its pages are mapped in every possible way.                *)
(***************************************************************************)
EXTENDS Naturals, Sequences, SequencesExt

CONSTANTS
  PageCount,     \* pages of the address space
  PageSize,      \* units of memory in a page
  MaxDistance,   \* ProximityAllocator::max_distance
  Origins,       \* addresses that memory is asked near to
  Sizes,         \* sizes that are asked for
  Handles,       \* ExecutableMemory values
  MmapFails      \* may the system refuse to map a free page, or to answer a query?

Pages == 0 .. PageCount - 1
End   == PageCount * PageSize
Addr  == 0 .. End - 1

\* A page has more than one unit, and no function starts at the last address.
ASSUME AllocatorAssumption ==
  /\ PageCount \in Nat \ {0} /\ PageSize \in Nat \ {0, 1} /\ MaxDistance \in Nat
  /\ Origins \subseteq Addr \ {End - 1}
  /\ Sizes \subseteq 1 .. PageSize
  /\ MmapFails \in BOOLEAN

VARIABLES
  layout,  \* what each page holds: nothing, code, data or a pool
  pools,   \* ProximityAllocator::pools, each by the address of its page
  mem,     \* the handles: state, origin, start and size
  search   \* allocate_pool's search: its request, FreeRegionIter::current, and
           \* the addresses that allocate_fixed_pool was called with in vain

vars == <<layout, pools, mem, search>>

PageAt(a) == a \div PageSize
Starts    == {PageSize * p : p \in Pages}

Absent  == [state |-> "none", origin |-> 0, start |-> 0, size |-> 0]
HandleType == [state : {"none", "live", "releasing"}, origin : Origins \cup {0},
               start : Addr, size : Sizes \cup {0}]

NoSearch == [dir |-> "none", origin |-> 0, size |-> 0, current |-> 0, tried |-> {}]
SearchType == [dir : {"none", "after", "before"}, origin : Origins \cup {0},
               size : Sizes \cup {0}, current : 0 .. End, tried : SUBSET Starts]

TypeOK ==
  /\ layout \in [Pages -> {"free", "code", "data", "pool"}]
  /\ pools \in Seq(Starts)
  /\ mem \in [Handles -> HandleType]
  /\ search \in SearchType

\* Any layout in which every origin is in code; page 0 is never mapped.
Init ==
  /\ layout \in [Pages -> {"free", "code", "data"}]
  /\ layout[0] = "free"
  /\ \A o \in Origins : layout[PageAt(o)] = "code"
  /\ pools = <<>>
  /\ mem = [h \in Handles |-> Absent]
  /\ search = NoSearch

-----------------------------------------------------------------------------
(***************************************************************************)
(* region::query (external): the page is free, or it is one of a run of    *)
(* pages alike, from lo to hi, that ends where the pages differ.           *)
(***************************************************************************)
Free(a)  == layout[PageAt(a)] = "free"

Region(p, lo, hi) ==
  /\ lo <= p /\ p <= hi
  /\ \A q \in lo .. hi : layout[q] = layout[p]
  /\ \A q \in Pages : q + 1 = lo \/ q = hi + 1 => layout[q] # layout[p]

-----------------------------------------------------------------------------
(***************************************************************************)
(* SlicePool (external): first fit in a page, gaps merge when freed.       *)
(***************************************************************************)
Cells(h)  == mem[h].start .. mem[h].start + mem[h].size - 1
Taken     == UNION {Cells(h) : h \in {g \in Handles : mem[g].state # "none"}}
PoolCells(pool) == pool .. pool + PageSize - 1
Fits(pool, size) ==
  {a \in PoolCells(pool) : /\ a + size <= pool + PageSize
                           /\ (a .. a + size - 1) \cap Taken = {}}

First(S) == {i \in S : \A j \in S : i <= j}

-----------------------------------------------------------------------------
(***************************************************************************)
(* ProximityAllocator::allocate                                            *)
(***************************************************************************)
Monus(a, b) == IF a > b THEN a - b ELSE 0

\* allocate's memory_range, with its saturating bounds.
MemoryRange(origin) ==
  {a \in Addr : Monus(origin, MaxDistance) <= a
                /\ a < origin + MaxDistance /\ a < End - 1}

Locked == search.dir # "none"

Live(origin, start, size) ==
  [state |-> "live", origin |-> origin, start |-> start, size |-> size]

\* Mutant of InRange: the end of the pool is not tested.
InRange_LowerOnly(pool, origin) == pool \in MemoryRange(origin)

\* is_pool_in_range: the first and the last byte of the pool.
InRange(pool, origin) ==
  pool \in MemoryRange(origin) /\ pool + PageSize - 1 \in MemoryRange(origin)

\* The pools that allocate_memory can take a slice from.
Eligible(origin, size) ==
  {i \in 1 .. Len(pools) : InRange(pools[i], origin) /\ Fits(pools[i], size) # {}}

\* allocate_memory: the first of them in the list, and the first room in it.
AllocateMemory(h, origin, size) ==
  /\ ~Locked /\ mem[h].state = "none"
  /\ \E i \in First(Eligible(origin, size)) : \E a \in First(Fits(pools[i], size)) :
       mem' = [mem EXCEPT ![h] = Live(origin, a, size)]
  /\ UNCHANGED <<layout, pools, search>>

\* allocate_pool is called when there is none: the search starts after the origin.
AllocatePool(h, origin, size) ==
  /\ ~Locked /\ mem[h].state = "none"
  /\ Eligible(origin, size) = {}
  /\ search' = [dir |-> "after", origin |-> origin, size |-> size,
                current |-> origin, tried |-> {}]
  /\ UNCHANGED <<layout, pools, mem>>

-----------------------------------------------------------------------------
(***************************************************************************)
(* FreeRegionIter::next, and what allocate_pool does with what it yields   *)
(***************************************************************************)
\* Mutant of Within: the search does not end at the null page.
Within_Zero == search.current \in MemoryRange(search.origin)

\* The condition of the loop.
Within == search.current > 0 /\ search.current \in MemoryRange(search.origin)

\* The next address after the one that is yielded.
Adjust(dir, a) == IF dir = "after" THEN a + PageSize ELSE Monus(a, PageSize)

\* Mutants of Beyond: a mapped region is left by a page from where the search
\* is, not by its end; the page that comes before a mapped region is skipped;
\* downwards the search goes to the first page of the region and no further.
Beyond_Unaligned(lo, hi) == Adjust(search.dir, search.current)
Beyond_Skips(lo, hi) ==
  IF search.dir = "after" THEN PageSize * (hi + 1) ELSE Monus(PageSize * lo, 2 * PageSize)
Beyond_Lower(lo, hi) ==
  IF search.dir = "after" THEN PageSize * (hi + 1) ELSE PageSize * lo

\* region.upper(), or a page less than region.lower().
Beyond(lo, hi) ==
  IF search.dir = "after" THEN PageSize * (hi + 1) ELSE Monus(PageSize * lo, PageSize)

\* A mapped region: the loop goes on beyond it.
SkipRegion ==
  /\ Locked /\ Within /\ ~Free(search.current)
  /\ \E lo, hi \in Pages :
       /\ Region(PageAt(search.current), lo, hi)
       /\ search' = [search EXCEPT !.current = Beyond(lo, hi)]
  /\ UNCHANGED <<layout, pools, mem>>

\* allocate_fixed_pool: a free page becomes a pool, and its first slice is the
\* allocation.  The query that found it and the mapping are one step: nobody
\* else maps pages in this model.
MapPool(h) ==
  LET a == search.current IN
  /\ Locked /\ Within /\ Free(a) /\ mem[h].state = "none"
  /\ layout' = [layout EXCEPT ![PageAt(a)] = "pool"]
  /\ pools' = Append(pools, a)
  /\ mem' = [mem EXCEPT ![h] = Live(search.origin, a, search.size)]
  /\ search' = NoSearch

\* The system refuses to map the page: the next one that is yielded is tried.
MapRefused ==
  /\ MmapFails /\ Locked /\ Within /\ Free(search.current)
  /\ search' = [search EXCEPT !.tried = @ \cup {search.current},
                              !.current = Adjust(search.dir, @)]
  /\ UNCHANGED <<layout, pools, mem>>

\* The chain: when the addresses after the origin are used up, those before it.
ChainBefore ==
  /\ search.dir = "after" /\ ~Within
  /\ search' = [search EXCEPT !.dir = "before", !.current = search.origin]
  /\ UNCHANGED <<layout, pools, mem>>

\* OutOfMemory when these are used up as well; or the error of a query.
AllocateFails ==
  /\ Locked
  /\ (search.dir = "before" /\ ~Within) \/ (MmapFails /\ Within)
  /\ search' = NoSearch
  /\ UNCHANGED <<layout, pools, mem>>

-----------------------------------------------------------------------------
(***************************************************************************)
(* The drop of an ExecutableMemory                                         *)
(***************************************************************************)
\* The pools whose bytes hold an address (the expect panics if there is none).
PoolsOf(a) == {i \in 1 .. Len(pools) : a \in PoolCells(pools[i])}

\* Mutant of Release: the pool goes with any of its allocations.
Release_Eager(h) ==
  /\ ~Locked /\ mem[h].state = "live"
  /\ \E i \in First(PoolsOf(mem[h].start)) : pools' = RemoveAt(pools, i)
  /\ mem' = [mem EXCEPT ![h].state = "releasing"]
  /\ UNCHANGED <<layout, search>>

\* release: the pool is removed if its length, in bytes, is one.
Release(h) ==
  /\ ~Locked /\ mem[h].state = "live"
  /\ \E i \in First(PoolsOf(mem[h].start)) :
       pools' = IF PageSize = 1 THEN RemoveAt(pools, i) ELSE pools
  /\ mem' = [mem EXCEPT ![h].state = "releasing"]
  /\ UNCHANGED <<layout, search>>

\* The field `data' is dropped after the handle's own drop.
FreeSlice(h) ==
  /\ mem[h].state = "releasing"
  /\ mem' = [mem EXCEPT ![h] = Absent]
  /\ UNCHANGED <<layout, pools, search>>

Next ==
  \/ \E h \in Handles :
       \/ \E o \in Origins, n \in Sizes : AllocateMemory(h, o, n) \/ AllocatePool(h, o, n)
       \/ MapPool(h) \/ Release(h) \/ FreeSlice(h)
  \/ SkipRegion \/ MapRefused \/ ChainBefore \/ AllocateFails

Spec == Init /\ [][Next]_vars

\* A turn of the search whose queries are answered: that one of them fails is
\* possible at any time, and assumed of none.
SearchStep ==
  \/ SkipRegion \/ ChainBefore
  \/ MapRefused \/ \E h \in Handles : MapPool(h)
  \/ ~Within /\ AllocateFails

\* The thread that searches keeps running; nothing is assumed of the clients.
FairSpec == Spec /\ WF_vars(SearchStep)

-----------------------------------------------------------------------------
(***************************************************************************)
(* Properties                                                              *)
(***************************************************************************)
\* The allocator implements BlockAllocator: whichever pool serves a request,
\* one mapped for another origin included, and whatever happens between the
\* release of a handle and the return of its slice, a block starts in reach
\* of its origin and is shared with no other handle and not with the program
\* (allocate_memory's range test, allocate_fixed_pool, ExecutableMemory's drop).
Promised ==
  INSTANCE BlockAllocator WITH
    foreign <- {a \in Addr : layout[PageAt(a)] \in {"code", "data"}},
    block   <- [h \in Handles |-> [origin |-> mem[h].origin,
                                  start  |-> mem[h].start, size |-> mem[h].size]]
GivesBlocks == Promised!Spec

\* Each allocation lies in one pool of the list, on a page that was mapped
\* for it, also while its handle is being dropped: what release looks for is
\* always there (release's expect).
EachInItsPool ==
  /\ \A h \in Handles : mem[h].state # "none" =>
       \E i \in 1 .. Len(pools) : /\ Cells(h) \subseteq PoolCells(pools[i])
                                  /\ layout[PageAt(pools[i])] = "pool"
  /\ \A i, j \in 1 .. Len(pools) : i # j => pools[i] # pools[j]

\* When the search gives up it has tried every free page of the range but the
\* null page, whatever the regions in between look like, and it never tries a
\* page a second time: OutOfMemory is the truth (search.rs: the jumps over
\* mapped regions, and where the two directions start and end).
UnmappedIn(origin) == {a \in Starts \cap MemoryRange(origin) : a # 0 /\ Free(a)}

SearchIsComplete ==
  /\ search.dir = "before" /\ ~Within => search.tried = UnmappedIn(search.origin)
  /\ Locked /\ Within => search.current \notin search.tried

\* Every turn of the search brings it closer to its end: upwards to the end of
\* the address space, and from the origin down to the null page, over regions
\* of every size, refused pages and the change of direction, and whatever is
\* freed meanwhile (FreeRegionIter::next, where saturating_sub stays at 0).
Left ==
  IF search.dir = "after" THEN (End - search.current) + End + 1 ELSE search.current

SearchAdvances ==
  [][Locked /\ Locked' /\ search' # search => Left' < Left]_vars

\* A search ends, with a pool or without one, and with it the wait for the
\* allocator's mutex, which is held all the while, as POOL is by Detour::new
\* (the loop of FreeRegionIter::next and allocate_pool's chain).
SearchEnds == Locked ~> ~Locked

\* "Release the pool if the associated allocation is unique" (proximity.rs:51):
\* a pool outlives the last of its allocations never.
UniquePoolReleased ==
  \A i \in 1 .. Len(pools) : \E h \in Handles :
    mem[h].state # "none" /\ mem[h].start \in PoolCells(pools[i])
=============================================================================
