-------------------------- MODULE AllocatorProofs --------------------------
(***************************************************************************)
(* What the allocator guarantees, for every size of the address space, of  *)
(* a page and of the reach, every layout and any number of handles.        *)
(***************************************************************************)
EXTENDS AllocatorInv, TLAPS

USE AllocatorAssumption

-----------------------------------------------------------------------------
(***************************************************************************)
(* Pages and addresses                                                     *)
(***************************************************************************)
\* The page of an address holds it.
LEMMA PageHolds ==
  ASSUME NEW a \in Nat
  PROVE  /\ PageAt(a) \in Nat
         /\ PageSize * PageAt(a) <= a /\ a < PageSize * PageAt(a) + PageSize
  BY DEF PageAt

\* Pages do not overlap.
LEMMA PagesApart ==
  ASSUME NEW p \in Nat, NEW q \in Nat, p < q
  PROVE  PageSize * p + PageSize <= PageSize * q
<1>1. PICK k \in Nat : q = p + 1 + k
  <2>1. q - p - 1 \in Nat /\ q = p + 1 + (q - p - 1)
    OBVIOUS
  <2> QED BY <2>1
<1>2. PageSize * q = PageSize * p + PageSize + PageSize * k
  BY <1>1
<1>3. PageSize * k >= 0 /\ PageSize * k \in Nat /\ PageSize * p \in Nat
  OBVIOUS
<1> QED BY <1>2, <1>3

\* An address is on one page only.
LEMMA PageUnique ==
  ASSUME NEW p \in Nat, NEW a \in Nat, PageSize * p <= a, a < PageSize * p + PageSize
  PROVE  PageAt(a) = p
<1>1. /\ PageAt(a) \in Nat /\ PageSize * PageAt(a) \in Nat /\ PageSize * p \in Nat
      /\ PageSize * PageAt(a) <= a /\ a < PageSize * PageAt(a) + PageSize
  BY PageHolds
<1>2. CASE p < PageAt(a)
  BY <1>1, <1>2, PagesApart
<1>3. CASE PageAt(a) < p
  BY <1>1, <1>3, PagesApart
<1> QED BY <1>1, <1>2, <1>3

\* The addresses of the address space are on its pages.
LEMMA AddrOnPage ==
  ASSUME NEW a \in Addr
  PROVE  a \in Nat /\ PageAt(a) \in Pages
<1>1. a \in Nat /\ a < PageSize * PageCount /\ PageSize * PageCount \in Nat
  BY DEF Addr, End
<1>2. PageAt(a) \in Nat /\ PageSize * PageAt(a) \in Nat /\ PageSize * PageAt(a) <= a
  BY <1>1, PageHolds
<1>3. CASE PageAt(a) > PageCount - 1
  <2>1. PageAt(a) = PageCount \/ PageCount < PageAt(a)
    BY <1>2, <1>3
  <2>2. PageCount < PageAt(a) => PageSize * PageCount <= PageSize * PageAt(a)
    BY <1>1, <1>2, PagesApart
  <2> QED BY <1>1, <1>2, <2>1, <2>2
<1> QED BY <1>1, <1>2, <1>3 DEF Pages

\* Where a page starts, and that the addresses from there on are its own.
LEMMA StartOfPage ==
  ASSUME NEW s \in Starts
  PROVE  /\ s \in Addr /\ s \in Nat /\ PageAt(s) \in Pages /\ s = PageSize * PageAt(s)
         /\ s + PageSize <= End
         /\ \A x \in PoolCells(s) : x \in Addr /\ PageAt(x) = PageAt(s)
<1>1. PICK p \in Pages : s = PageSize * p
  BY DEF Starts
<1>2. p \in Nat /\ s \in Nat /\ End \in Nat /\ End = PageSize * PageCount
  BY <1>1 DEF Pages, End
<1>3. s + PageSize <= End
  <2>1. p < PageCount
    BY DEF Pages
  <2> QED BY <1>1, <1>2, <2>1, PagesApart
<1>4. \A x \in PoolCells(s) : x \in Addr /\ PageAt(x) = p
  <2> SUFFICES ASSUME NEW x \in PoolCells(s) PROVE x \in Addr /\ PageAt(x) = p
    OBVIOUS
  <2>1. x \in Nat /\ s <= x /\ x < s + PageSize
    BY <1>2 DEF PoolCells
  <2>2. x \in Addr
    BY <1>2, <1>3, <2>1 DEF Addr
  <2> QED BY <1>1, <1>2, <2>1, <2>2, PageUnique
<1>5. s \in PoolCells(s)
  BY <1>2 DEF PoolCells
<1> QED BY <1>1, <1>2, <1>3, <1>4, <1>5

\* Two starts of pages are in the order of their pages.
LEMMA StartsOrdered ==
  ASSUME NEW p \in Nat, NEW q \in Nat
  PROVE  /\ PageSize * p < PageSize * q <=> p < q
         /\ PageSize * p \in Nat /\ PageSize * q \in Nat
<1>1. PageSize * p \in Nat /\ PageSize * q \in Nat
  OBVIOUS
<1>2. p < q => PageSize * p + PageSize <= PageSize * q
  BY PagesApart
<1>3. q < p => PageSize * q + PageSize <= PageSize * p
  BY PagesApart
<1>4. p = q => PageSize * p = PageSize * q
  OBVIOUS
<1>5. p < q \/ q < p \/ p = q
  OBVIOUS
<1> HIDE DEF Pages
<1> QED BY <1>1, <1>2, <1>3, <1>4, <1>5

\* The last page ends where the address space does.
LEMMA EndOfPages ==
  ASSUME NEW p \in 0 .. PageCount
  PROVE  p \in Nat /\ PageSize * p \in 0 .. End
<1>1. p \in Nat /\ PageSize * p \in Nat /\ End \in Nat /\ End = PageSize * PageCount
  BY DEF End
<1>2. p < PageCount \/ p = PageCount
  OBVIOUS
<1>3. p < PageCount => PageSize * p < PageSize * PageCount
  BY <1>1, StartsOrdered
<1> QED BY <1>1, <1>2, <1>3

-----------------------------------------------------------------------------
(***************************************************************************)
(* The parts of the invariant that a step leaves alone                     *)
(***************************************************************************)
\* The pools and the slices do not notice a step of the search.
LEMMA SearchFrame ==
  ASSUME AllocatorInvariant, UNCHANGED <<layout, pools, mem>>,
         search' \in SearchType, SearchInv'
  PROVE  AllocatorInvariant'
<1>1. TypeOK'
  BY DEF AllocatorInvariant, TypeOK
<1>2. PlaceInv' /\ PoolInv'
  BY DEF AllocatorInvariant, PlaceInv, PoolInv
<1>3. HandleInv' /\ ApartInv'
  BY DEF AllocatorInvariant, HandleInv, ApartInv, InPool, Cells
<1> QED BY <1>1, <1>2, <1>3 DEF AllocatorInvariant

\* The pools and the search do not notice that a slice changes hands.
LEMMA SliceFrame ==
  ASSUME AllocatorInvariant, UNCHANGED <<layout, pools, search>>,
         mem' \in [Handles -> HandleType], HandleInv', ApartInv'
  PROVE  AllocatorInvariant'
<1>1. TypeOK'
  BY DEF AllocatorInvariant, TypeOK
<1>2. PlaceInv' /\ PoolInv'
  BY DEF AllocatorInvariant, PlaceInv, PoolInv
<1>3. SearchInv'
  BY DEF AllocatorInvariant, SearchInv, Locked, UnmappedIn, Free
<1> QED BY <1>1, <1>2, <1>3 DEF AllocatorInvariant

-----------------------------------------------------------------------------
(***************************************************************************)
(* allocate: from a pool, or the start of a search                         *)
(***************************************************************************)
\* A slice that fits in a pool is in it, and apart from those that are out.
LEMMA FitsApart ==
  ASSUME NEW s \in Starts, NEW n \in Sizes, NEW a \in Fits(s, n)
  PROVE  /\ a \in Addr /\ (a .. a + n - 1) \subseteq PoolCells(s)
         /\ \A g \in Handles : mem[g].state # "none" => (a .. a + n - 1) \cap Cells(g) = {}
<1>1. s \in Nat /\ n \in Nat /\ a \in PoolCells(s) /\ a + n <= s + PageSize
  BY StartOfPage DEF Fits
<1>2. a \in Addr
  BY <1>1, StartOfPage
<1>3. (a .. a + n - 1) \subseteq PoolCells(s)
  BY <1>1 DEF PoolCells
<1>4. (a .. a + n - 1) \cap Taken = {}
  BY DEF Fits
<1>5. \A g \in Handles : mem[g].state # "none" => Cells(g) \subseteq Taken
  BY DEF Taken
<1> QED BY <1>2, <1>3, <1>4, <1>5

\* allocate_memory keeps the invariant.
LEMMA AllocateMemoryKeeps ==
  ASSUME AllocatorInvariant, NEW h \in Handles, NEW o \in Origins, NEW n \in Sizes,
         AllocateMemory(h, o, n)
  PROVE  AllocatorInvariant'
<1>0. PICK i \in 1 .. Len(pools) :
         \E a \in Fits(pools[i], n) : mem' = [mem EXCEPT ![h] = Live(o, a, n)]
  BY DEF AllocateMemory, First, Eligible
<1>1. PICK a \in Fits(pools[i], n) : mem' = [mem EXCEPT ![h] = Live(o, a, n)]
  BY <1>0
<1>2. pools[i] \in Starts /\ mem \in [Handles -> HandleType]
  BY DEF AllocatorInvariant, TypeOK
<1>3. /\ a \in Addr /\ (a .. a + n - 1) \subseteq PoolCells(pools[i])
      /\ \A g \in Handles : mem[g].state # "none" => (a .. a + n - 1) \cap Cells(g) = {}
  BY <1>2, FitsApart
<1>4. UNCHANGED <<layout, pools, search>>
  BY DEF AllocateMemory
<1>5. mem' \in [Handles -> HandleType]
  BY <1>1, <1>2, <1>3 DEF HandleType, Live
<1>6. \A g \in Handles : g # h => mem'[g] = mem[g] /\ Cells(g)' = Cells(g)
  BY <1>1, <1>2 DEF Cells
<1>7. mem'[h] = Live(o, a, n) /\ Cells(h)' = a .. a + n - 1
  BY <1>1, <1>2 DEF Cells, Live
<1>8. HandleInv'
  <2> SUFFICES ASSUME NEW g \in Handles
               PROVE  IF mem'[g].state = "none" THEN mem'[g] = Absent
                      ELSE mem'[g].origin \in Origins /\ mem'[g].size \in Sizes /\ InPool(g)'
    BY DEF HandleInv
  <2>1. CASE g = h
    BY <1>3, <1>4, <1>7, <2>1 DEF InPool, Live
  <2>2. CASE g # h
    BY <1>4, <1>6, <2>2 DEF InPool, AllocatorInvariant, HandleInv
  <2> QED BY <2>1, <2>2
<1>9. ApartInv'
  <2> SUFFICES ASSUME NEW f \in Handles, NEW g \in Handles, f # g,
                      mem'[f].state # "none", mem'[g].state # "none"
               PROVE  Cells(f)' \cap Cells(g)' = {}
    BY DEF ApartInv
  <2>1. CASE f # h /\ g # h
    BY <1>6, <2>1 DEF ApartInv, AllocatorInvariant
  <2>2. CASE f = h
    BY <1>3, <1>6, <1>7, <2>2
  <2>3. CASE g = h
    BY <1>3, <1>6, <1>7, <2>3
  <2> QED BY <2>1, <2>2, <2>3
<1> QED BY <1>4, <1>5, <1>8, <1>9, SliceFrame

\* A search starts with nothing tried.
LEMMA AllocatePoolKeeps ==
  ASSUME AllocatorInvariant, NEW h \in Handles, NEW o \in Origins, NEW n \in Sizes,
         AllocatePool(h, o, n)
  PROVE  AllocatorInvariant'
<1>1. /\ search' = [dir |-> "after", origin |-> o, size |-> n, current |-> o, tried |-> {}]
      /\ UNCHANGED <<layout, pools, mem>>
  BY DEF AllocatePool
<1>2. o \in Nat /\ o \in 0 .. End
  BY DEF Addr, End
<1>3. search' \in SearchType
  BY <1>1, <1>2 DEF SearchType
<1>4. {a \in UnmappedIn(o)' : o <= a /\ a < o} = {}
  <2>1. \A a \in UnmappedIn(o)' : a \in Nat
    BY DEF UnmappedIn, MemoryRange, Addr
  <2> QED BY <1>2, <2>1
<1>5. SearchInv'
  BY <1>1, <1>2, <1>4 DEF SearchInv
<1> QED BY <1>1, <1>3, <1>5, SearchFrame

-----------------------------------------------------------------------------
(***************************************************************************)
(* The search                                                              *)
(***************************************************************************)
\* What is known of the state of a search: where it stands and what it looks for.
LEMMA SearchFacts ==
  ASSUME AllocatorInvariant, Locked
  PROVE  /\ search \in SearchType /\ search.origin \in Origins /\ search.size \in Sizes
         /\ search.origin \in Addr /\ search.origin \in Nat /\ search.origin # End - 1
         /\ search.origin # 0 /\ ~Free(search.origin)
         /\ search.current \in Nat /\ End \in Nat
         /\ \A a \in UnmappedIn(search.origin) :
              a \in Starts /\ a \in Nat /\ a # 0 /\ Free(a) /\ a \in MemoryRange(search.origin)
<1>1. /\ search \in SearchType /\ search.origin \in Origins /\ search.size \in Sizes
  BY DEF AllocatorInvariant, TypeOK, SearchInv
<1>2. End \in Nat /\ search.origin \in Addr /\ search.origin # End - 1
  BY <1>1 DEF End
<1>3. search.origin \in Nat /\ search.current \in Nat
  BY <1>1, <1>2 DEF Addr, SearchType
<1>4. ~Free(search.origin)
  BY <1>1 DEF AllocatorInvariant, PlaceInv, Free
<1>5. search.origin # 0
  <2>1. PageAt(0) = 0
    BY PageUnique
  <2>2. Free(0)
    BY <2>1 DEF AllocatorInvariant, PlaceInv, Free
  <2> QED BY <1>4, <2>2
<1>6. \A a \in UnmappedIn(search.origin) :
        a \in Starts /\ a \in Nat /\ a # 0 /\ Free(a) /\ a \in MemoryRange(search.origin)
  BY StartOfPage DEF UnmappedIn
<1> QED BY <1>1, <1>2, <1>3, <1>4, <1>5, <1>6

\* Two pages start a page apart or more.
LEMMA StartsApart ==
  ASSUME NEW a \in Starts, NEW c \in Starts
  PROVE  a = c \/ a + PageSize <= c \/ c + PageSize <= a
<1>1. /\ PageAt(a) \in Nat /\ a = PageSize * PageAt(a) /\ a \in Nat
      /\ PageAt(c) \in Nat /\ c = PageSize * PageAt(c) /\ c \in Nat
  BY StartOfPage DEF Pages
<1>2. PageAt(a) < PageAt(c) => a + PageSize <= c
  BY <1>1, PagesApart
<1>3. PageAt(c) < PageAt(a) => c + PageSize <= a
  BY <1>1, PagesApart
<1>4. PageAt(a) = PageAt(c) => a = c
  BY <1>1
<1> QED BY <1>1, <1>2, <1>3, <1>4

\* No free page is in the region of a mapped one.
LEMMA RegionIsMapped ==
  ASSUME AllocatorInvariant, NEW c \in Addr, ~Free(c), NEW lo \in Pages, NEW hi \in Pages,
         Region(PageAt(c), lo, hi), NEW a \in Starts, Free(a)
  PROVE  PageAt(a) < lo \/ hi < PageAt(a)
<1>1. PageAt(a) \in Nat /\ lo \in Nat /\ hi \in Nat
  BY StartOfPage DEF Pages
<1>2. PageAt(a) \notin lo .. hi
  BY DEF Free, Region
<1> QED BY <1>1, <1>2

\* Upwards, the search leaves a region without leaving out a free page.
LEMMA SkipUp ==
  ASSUME AllocatorInvariant, NEW c \in Addr, ~Free(c), NEW lo \in Pages, NEW hi \in Pages,
         Region(PageAt(c), lo, hi)
  PROVE  /\ c < PageSize * (hi + 1)
         /\ \A a \in Starts : Free(a) /\ a < PageSize * (hi + 1) => a < c
<1>1. /\ c \in Nat /\ PageAt(c) \in Nat /\ lo \in Nat /\ hi \in Nat /\ hi + 1 \in Nat
      /\ PageSize * PageAt(c) \in Nat /\ PageSize * (hi + 1) \in Nat
      /\ PageSize * PageAt(c) <= c /\ c < PageSize * PageAt(c) + PageSize
  BY AddrOnPage, PageHolds DEF Pages
<1>2. lo <= PageAt(c) /\ PageAt(c) < hi + 1
  BY <1>1 DEF Region
<1>3. c < PageSize * (hi + 1)
  BY <1>1, <1>2, PagesApart
<1>4. ASSUME NEW a \in Starts, Free(a), a < PageSize * (hi + 1)
      PROVE  a < c
  <2>1. PageAt(a) \in Nat /\ a \in Nat /\ a = PageSize * PageAt(a)
    BY StartOfPage DEF Pages
  <2>2. PageAt(a) < hi + 1
    BY <1>1, <1>4, <2>1, StartsOrdered
  <2>3. PageAt(a) < PageAt(c)
    BY <1>1, <1>2, <1>4, <2>1, <2>2, RegionIsMapped
  <2>4. a + PageSize <= PageSize * PageAt(c)
    BY <1>1, <2>1, <2>3, PagesApart
  <2> QED BY <1>1, <2>1, <2>4
<1> QED BY <1>3, <1>4

\* And so it does downwards.
LEMMA SkipDown ==
  ASSUME AllocatorInvariant, NEW c \in Addr, ~Free(c), NEW lo \in Pages, NEW hi \in Pages,
         Region(PageAt(c), lo, hi)
  PROVE  /\ Monus(PageSize * lo, PageSize) <= c
         /\ \A a \in Starts : Free(a) /\ a # 0 /\ Monus(PageSize * lo, PageSize) < a => c < a
<1>1. /\ c \in Nat /\ PageAt(c) \in Nat /\ lo \in Nat /\ hi \in Nat
      /\ PageSize * PageAt(c) \in Nat /\ PageSize * lo \in Nat
      /\ PageSize * PageAt(c) <= c /\ c < PageSize * PageAt(c) + PageSize
  BY AddrOnPage, PageHolds DEF Pages
<1>2. lo <= PageAt(c) /\ PageAt(c) <= hi
  BY DEF Region
<1>3. PageSize * lo <= c
  BY <1>1, <1>2, StartsOrdered
<1>4. Monus(PageSize * lo, PageSize) <= c
  BY <1>1, <1>3 DEF Monus
<1>5. ASSUME NEW a \in Starts, Free(a), a # 0, Monus(PageSize * lo, PageSize) < a
      PROVE  c < a
  <2>1. PageAt(a) \in Nat /\ a \in Nat /\ a = PageSize * PageAt(a)
    BY StartOfPage DEF Pages
  <2>2. ~(PageAt(a) < lo)
    <3>1. PageAt(a) < lo => a + PageSize <= PageSize * lo
      BY <1>1, <2>1, PagesApart
    <3> QED BY <1>1, <1>5, <2>1, <3>1 DEF Monus
  <2>3. PageAt(c) < PageAt(a)
    BY <1>1, <1>2, <1>5, <2>1, <2>2, RegionIsMapped
  <2>4. PageSize * PageAt(c) + PageSize <= a
    BY <1>1, <2>1, <2>3, PagesApart
  <2> QED BY <1>1, <2>1, <2>4
<1> QED BY <1>4, <1>5

\* Below the start of a page is the start of the page before it, or nothing.
LEMMA PageBelow ==
  ASSUME NEW p \in 0 .. PageCount
  PROVE  \E q \in 0 .. PageCount : Monus(PageSize * p, PageSize) = PageSize * q
<1>1. p \in Nat /\ PageSize * p \in Nat /\ PageSize * 0 = 0
  OBVIOUS
<1>2. CASE p = 0
  BY <1>1, <1>2 DEF Monus
<1>3. CASE p # 0
  <2>1. p - 1 \in 0 .. PageCount /\ PageSize * p = PageSize * (p - 1) + PageSize
    BY <1>3
  <2>2. PageSize * (p - 1) \in Nat
    BY <2>1
  <2>3. Monus(PageSize * p, PageSize) = PageSize * (p - 1)
    BY <1>1, <2>1, <2>2 DEF Monus
  <2> QED BY <2>1, <2>3
<1> QED BY <1>2, <1>3

\* A step over a mapped region: what has been left behind is what was.
LEMMA SkipRegionKeeps ==
  ASSUME AllocatorInvariant, SkipRegion
  PROVE  AllocatorInvariant'
<1> DEFINE c == search.current
           o == search.origin
<1>1. PICK lo \in Pages, hi \in Pages :
        /\ Region(PageAt(c), lo, hi)
        /\ search' = [search EXCEPT !.current = Beyond(lo, hi)]
  BY DEF SkipRegion
<1>2. Locked /\ Within /\ ~Free(c) /\ UNCHANGED <<layout, pools, mem>>
  BY DEF SkipRegion
<1>3. /\ search \in SearchType /\ o \in Origins /\ search.size \in Sizes /\ o \in Nat
      /\ c \in Nat /\ End \in Nat
      /\ \A a \in UnmappedIn(o) : a \in Starts /\ a \in Nat /\ a # 0 /\ Free(a)
  BY <1>2, SearchFacts
<1>4. c \in Addr
  BY <1>2 DEF Within, MemoryRange
<1>5. lo \in 0 .. PageCount /\ hi + 1 \in 0 .. PageCount /\ lo \in Nat /\ hi \in Nat
  BY DEF Pages
<1>6. \E p \in 0 .. PageCount : Beyond(lo, hi) = PageSize * p
  BY <1>5, PageBelow DEF Beyond
<1>7. Beyond(lo, hi) \in 0 .. End
  BY <1>6, EndOfPages
<1>8. /\ search'.dir = search.dir /\ search'.origin = o /\ search'.size = search.size
      /\ search'.tried = search.tried /\ search'.current = Beyond(lo, hi)
      /\ search' \in SearchType
  BY <1>1, <1>3, <1>7 DEF SearchType
<1>9. UnmappedIn(o)' = UnmappedIn(o)
  BY <1>2, <1>8 DEF UnmappedIn, Free
<1>10. CASE search.dir = "after"
  <2>1. o <= c /\ search.tried = {a \in UnmappedIn(o) : o <= a /\ a < c}
    BY <1>2, <1>10 DEF AllocatorInvariant, SearchInv
  <2>2. Beyond(lo, hi) = PageSize * (hi + 1) /\ Beyond(lo, hi) \in Nat
    BY <1>7, <1>10 DEF Beyond
  <2>3. /\ c < Beyond(lo, hi)
        /\ \A a \in Starts : Free(a) /\ a < Beyond(lo, hi) => a < c
    BY <1>1, <1>2, <1>4, <2>2, SkipUp
  <2>4. \A a \in UnmappedIn(o) : a < Beyond(lo, hi) <=> a < c
    BY <1>3, <2>2, <2>3
  <2>5. search.tried = {a \in UnmappedIn(o) : o <= a /\ a < Beyond(lo, hi)}
    BY <2>1, <2>4
  <2>6. o <= Beyond(lo, hi)
    BY <1>3, <2>1, <2>2, <2>3
  <2>7. SearchInv'
    BY <1>3, <1>6, <1>8, <1>9, <1>10, <2>5, <2>6 DEF SearchInv
  <2> QED BY <1>2, <1>8, <2>7, SearchFrame
<1>11. CASE search.dir = "before"
  <2>1. c <= o /\ search.tried = {a \in UnmappedIn(o) : o <= a \/ c < a}
    BY <1>2, <1>11 DEF AllocatorInvariant, SearchInv
  <2>2. Beyond(lo, hi) = Monus(PageSize * lo, PageSize) /\ Beyond(lo, hi) \in Nat
    BY <1>7, <1>11 DEF Beyond
  <2>3. /\ Beyond(lo, hi) <= c
        /\ \A a \in Starts : Free(a) /\ a # 0 /\ Beyond(lo, hi) < a => c < a
    BY <1>1, <1>2, <1>4, <2>2, SkipDown
  <2>4. \A a \in UnmappedIn(o) : Beyond(lo, hi) < a <=> c < a
    BY <1>3, <2>2, <2>3
  <2>5. search.tried = {a \in UnmappedIn(o) : o <= a \/ Beyond(lo, hi) < a}
    BY <2>1, <2>4
  <2>6. Beyond(lo, hi) <= o
    BY <1>3, <2>1, <2>2, <2>3
  <2>7. SearchInv'
    BY <1>3, <1>6, <1>8, <1>9, <1>11, <2>5, <2>6 DEF SearchInv
  <2> QED BY <1>2, <1>8, <2>7, SearchFrame
<1> QED BY <1>2, <1>3, <1>10, <1>11 DEF SearchType, Locked

\* The address that a search yields is the start of a page it has not tried.
LEMMA YieldsStart ==
  ASSUME AllocatorInvariant, Locked, Within, Free(search.current)
  PROVE  /\ search.current \in Starts
         /\ search.current \in UnmappedIn(search.origin)
         /\ \E p \in Pages : search.current = PageSize * p
<1>1. search.current \in Addr /\ search.current # 0
  BY DEF Within, MemoryRange
<1>2. search.current # search.origin
  BY SearchFacts
<1>3. PICK p \in 0 .. PageCount : search.current = PageSize * p
  BY <1>2 DEF AllocatorInvariant, SearchInv
<1>4. p # PageCount
  BY <1>1, <1>3 DEF Addr, End
<1>5. p \in Pages
  BY <1>4 DEF Pages
<1> QED BY <1>1, <1>3, <1>5 DEF Starts, UnmappedIn, Within

\* A page that the system refuses is counted as tried, and the search goes on.
LEMMA MapRefusedKeeps ==
  ASSUME AllocatorInvariant, MapRefused
  PROVE  AllocatorInvariant'
<1> DEFINE c == search.current
           o == search.origin
           d == Adjust(search.dir, c)
<1>1. Locked /\ Within /\ Free(c) /\ UNCHANGED <<layout, pools, mem>>
  BY DEF MapRefused
<1>2. search' = [search EXCEPT !.tried = search.tried \cup {c}, !.current = d]
  BY DEF MapRefused
<1>3. /\ search \in SearchType /\ o \in Origins /\ search.size \in Sizes /\ o \in Nat
      /\ c \in Nat /\ End \in Nat
      /\ \A a \in UnmappedIn(o) : a \in Starts /\ a \in Nat /\ a # 0 /\ Free(a)
  BY <1>1, SearchFacts
<1>4. c \in Starts /\ c \in UnmappedIn(o) /\ c # 0
  BY <1>1, <1>3, YieldsStart
<1>5. PICK p \in Pages : c = PageSize * p
  BY <1>1, YieldsStart
<1>6. p \in 0 .. PageCount /\ p + 1 \in 0 .. PageCount /\ PageSize * (p + 1) = c + PageSize
  BY <1>5 DEF Pages
<1>7. \E q \in 0 .. PageCount : d = PageSize * q
  BY <1>5, <1>6, PageBelow DEF Adjust
<1>8. d \in 0 .. End
  BY <1>7, EndOfPages
<1> HIDE DEF d
<1>9. /\ search'.dir = search.dir /\ search'.origin = o /\ search'.size = search.size
      /\ search'.tried = search.tried \cup {c} /\ search'.current = d
      /\ search' \in SearchType
  BY <1>2, <1>3, <1>4, <1>8 DEF SearchType
<1>10. UnmappedIn(o)' = UnmappedIn(o)
  BY <1>1, <1>9 DEF UnmappedIn, Free
<1>11. \A a \in UnmappedIn(o) : a = c \/ a + PageSize <= c \/ c + PageSize <= a
  BY <1>3, <1>4, StartsApart
<1>12. CASE search.dir = "after"
  <2>1. o <= c /\ search.tried = {a \in UnmappedIn(o) : o <= a /\ a < c}
    BY <1>1, <1>12 DEF AllocatorInvariant, SearchInv
  <2>2. d = c + PageSize
    BY <1>12 DEF d, Adjust
  <2>3. \A a \in UnmappedIn(o) : a < d <=> a < c \/ a = c
    BY <1>3, <1>11, <2>2
  <2>4. search.tried \cup {c} = {a \in UnmappedIn(o) : o <= a /\ a < d}
    BY <1>4, <2>1, <2>3
  <2>5. o <= d
    BY <1>3, <2>1, <2>2
  <2>6. SearchInv'
    BY <1>3, <1>7, <1>9, <1>10, <1>12, <2>4, <2>5 DEF SearchInv
  <2> QED BY <1>1, <1>9, <2>6, SearchFrame
<1>13. CASE search.dir = "before"
  <2>1. c <= o /\ search.tried = {a \in UnmappedIn(o) : o <= a \/ c < a}
    BY <1>1, <1>13 DEF AllocatorInvariant, SearchInv
  <2>2. d = IF c > PageSize THEN c - PageSize ELSE 0
    BY <1>13 DEF d, Adjust, Monus
  <2>3. \A a \in UnmappedIn(o) : d < a <=> c < a \/ a = c
    BY <1>3, <1>4, <1>11, <2>2
  <2>4. search.tried \cup {c} = {a \in UnmappedIn(o) : o <= a \/ d < a}
    BY <1>4, <2>1, <2>3
  <2>5. d <= o
    BY <1>3, <2>1, <2>2
  <2>6. SearchInv'
    BY <1>3, <1>7, <1>9, <1>10, <1>13, <2>4, <2>5 DEF SearchInv
  <2> QED BY <1>1, <1>9, <2>6, SearchFrame
<1> QED BY <1>1, <1>3, <1>12, <1>13 DEF SearchType, Locked

\* When the search turns round it has left behind all that is after the origin.
LEMMA ChainBeforeKeeps ==
  ASSUME AllocatorInvariant, ChainBefore
  PROVE  AllocatorInvariant'
<1> DEFINE c == search.current
           o == search.origin
<1>1. Locked /\ search.dir = "after" /\ ~Within /\ UNCHANGED <<layout, pools, mem>>
  BY DEF ChainBefore, Locked
<1>2. search' = [search EXCEPT !.dir = "before", !.current = o]
  BY DEF ChainBefore
<1>3. /\ search \in SearchType /\ o \in Origins /\ search.size \in Sizes /\ o \in Nat
      /\ c \in Nat /\ End \in Nat /\ o # 0 /\ o \in Addr
      /\ \A a \in UnmappedIn(o) : a \in Nat /\ a \in MemoryRange(o)
  BY <1>1, SearchFacts
<1>4. o <= c /\ search.tried = {a \in UnmappedIn(o) : o <= a /\ a < c}
  BY <1>1 DEF AllocatorInvariant, SearchInv
<1>5. c \notin MemoryRange(o)
  BY <1>1, <1>3, <1>4 DEF Within
<1>6. \A a \in UnmappedIn(o) : a < c
  <2>1. \A a \in MemoryRange(o) : a < o + MaxDistance /\ a < End - 1
    BY DEF MemoryRange
  <2>2. Monus(o, MaxDistance) <= c
    BY <1>3, <1>4 DEF Monus
  <2>3. c >= o + MaxDistance \/ c >= End - 1
    BY <1>3, <1>5, <2>2 DEF MemoryRange, Addr
  <2> QED BY <1>3, <2>1, <2>3
<1>7. /\ search'.dir = "before" /\ search'.origin = o /\ search'.size = search.size
      /\ search'.tried = search.tried /\ search'.current = o
  BY <1>2, <1>3 DEF SearchType
<1>8. search' \in SearchType
  <2>1. o \in 0 .. End
    BY <1>3 DEF Addr
  <2> QED BY <1>2, <1>3, <2>1 DEF SearchType
<1>9. UnmappedIn(o)' = UnmappedIn(o)
  BY <1>1, <1>7 DEF UnmappedIn, Free
<1>10. search.tried = {a \in UnmappedIn(o) : o <= a \/ o < a}
  BY <1>3, <1>4, <1>6
<1>11. SearchInv'
  BY <1>3, <1>7, <1>9, <1>10 DEF SearchInv
<1> QED BY <1>1, <1>8, <1>11, SearchFrame

\* A search that fails leaves nothing behind.
LEMMA AllocateFailsKeeps ==
  ASSUME AllocatorInvariant, AllocateFails
  PROVE  AllocatorInvariant'
<1>1. search' = NoSearch /\ UNCHANGED <<layout, pools, mem>>
  BY DEF AllocateFails
<1>2. search' \in SearchType
  BY <1>1 DEF SearchType, NoSearch, End
<1>3. SearchInv'
  BY <1>1 DEF SearchInv, Locked, NoSearch
<1> QED BY <1>1, <1>2, <1>3, SearchFrame

-----------------------------------------------------------------------------
(***************************************************************************)
(* The new pool, and the end of a slice                                    *)
(***************************************************************************)
\* A page that is free becomes a pool with one slice in it.
LEMMA MapPoolKeeps ==
  ASSUME AllocatorInvariant, NEW h \in Handles, MapPool(h)
  PROVE  AllocatorInvariant'
<1> DEFINE a == search.current
           n == search.size
<1>1. Locked /\ Within /\ Free(a)
  BY DEF MapPool
<1>2. /\ layout' = [layout EXCEPT ![PageAt(a)] = "pool"] /\ pools' = Append(pools, a)
      /\ mem' = [mem EXCEPT ![h] = Live(search.origin, a, n)] /\ search' = NoSearch
  BY DEF MapPool
<1>3. a \in Starts /\ a # 0 /\ search.origin \in Origins /\ n \in Sizes
  BY <1>1, YieldsStart, SearchFacts DEF Within
<1>4. /\ a \in Addr /\ a \in Nat /\ PageAt(a) \in Pages /\ a = PageSize * PageAt(a)
      /\ \A x \in PoolCells(a) : PageAt(x) = PageAt(a)
  BY <1>3, StartOfPage
<1>5. /\ layout \in [Pages -> {"free", "code", "data", "pool"}]
      /\ pools \in Seq(Starts) /\ mem \in [Handles -> HandleType]
  BY DEF AllocatorInvariant, TypeOK
<1> HIDE DEF a, n
<1>6. /\ Len(pools') = Len(pools) + 1 /\ pools'[Len(pools) + 1] = a
      /\ \A i \in 1 .. Len(pools) : pools'[i] = pools[i] /\ pools[i] \in Starts
      /\ Len(pools) \in Nat
  BY <1>2, <1>3, <1>5
<1>7. TypeOK'
  <2>1. search' \in SearchType
    BY <1>2 DEF SearchType, NoSearch, End
  <2>2. mem' \in [Handles -> HandleType]
    BY <1>2, <1>3, <1>4, <1>5 DEF HandleType, Live
  <2>3. pools' \in Seq(Starts)
    BY <1>2, <1>3, <1>5
  <2>4. layout' \in [Pages -> {"free", "code", "data", "pool"}]
    BY <1>2, <1>5
  <2> QED BY <2>1, <2>2, <2>3, <2>4 DEF TypeOK
<1>8. \A p \in Pages : p # PageAt(a) => layout'[p] = layout[p]
  BY <1>2, <1>5
<1>9. layout'[PageAt(a)] = "pool" /\ layout[PageAt(a)] = "free"
  BY <1>1, <1>2, <1>4, <1>5 DEF Free, a
<1>10. PlaceInv'
  <2>1. PageAt(a) # 0
    BY <1>3, <1>4
  <2>2. \A o \in Origins : PageAt(o) \in Pages /\ layout[PageAt(o)] = "code"
    BY AddrOnPage DEF AllocatorInvariant, PlaceInv
  <2>3. 0 \in Pages /\ layout[0] = "free"
    BY DEF AllocatorInvariant, PlaceInv, Pages
  <2> QED BY <1>8, <1>9, <2>1, <2>2, <2>3 DEF PlaceInv
<1>11. \A i \in 1 .. Len(pools) :
         PageAt(pools[i]) \in Pages /\ layout[PageAt(pools[i])] = "pool" /\ pools[i] # a
  BY <1>6, <1>9, StartOfPage DEF AllocatorInvariant, PoolInv
<1>12. PoolInv'
  <2>1. \A i \in 1 .. Len(pools') : i \in 1 .. Len(pools) \/ i = Len(pools) + 1
    BY <1>6
  <2>2. \A i \in 1 .. Len(pools') : layout'[PageAt(pools'[i])] = "pool"
    BY <1>6, <1>8, <1>9, <1>11, <2>1
  <2>3. \A i, j \in 1 .. Len(pools') : i # j => pools'[i] # pools'[j]
    BY <1>6, <1>11, <2>1 DEF AllocatorInvariant, PoolInv
  <2> QED BY <2>2, <2>3 DEF PoolInv
<1>13. \A g \in Handles : g # h => mem'[g] = mem[g] /\ Cells(g)' = Cells(g)
  BY <1>2, <1>5 DEF Cells
<1>14. mem'[h] = Live(search.origin, a, n) /\ Cells(h)' = a .. a + n - 1
  BY <1>2, <1>5 DEF Cells, Live
<1>15. (a .. a + n - 1) \subseteq PoolCells(a)
  <2>1. n \in Nat /\ n <= PageSize
    BY <1>3
  <2> QED BY <1>4, <2>1 DEF PoolCells
<1>16. HandleInv'
  <2> SUFFICES ASSUME NEW g \in Handles
               PROVE  IF mem'[g].state = "none" THEN mem'[g] = Absent
                      ELSE mem'[g].origin \in Origins /\ mem'[g].size \in Sizes /\ InPool(g)'
    BY DEF HandleInv
  <2>1. CASE g = h
    <3>1. Len(pools) + 1 \in 1 .. Len(pools')
      BY <1>6
    <3>2. InPool(g)'
      BY <1>6, <1>14, <1>15, <2>1, <3>1 DEF InPool
    <3> QED BY <1>3, <1>14, <2>1, <3>2 DEF Live
  <2>2. CASE g # h
    <3>1. \A i \in 1 .. Len(pools) : i \in 1 .. Len(pools')
      BY <1>6
    <3>2. InPool(g) => InPool(g)'
      BY <1>6, <1>13, <2>2, <3>1 DEF InPool
    <3> QED BY <1>13, <2>2, <3>2 DEF AllocatorInvariant, HandleInv
  <2> QED BY <2>1, <2>2
<1>17. ApartInv'
  <2>1. \A g \in Handles : g # h /\ mem[g].state # "none" => Cells(g) \cap (a .. a + n - 1) = {}
    <3> SUFFICES ASSUME NEW g \in Handles, mem[g].state # "none",
                        NEW x \in Cells(g), x \in a .. a + n - 1
                 PROVE  FALSE
      OBVIOUS
    <3>1. PICK i \in 1 .. Len(pools) : Cells(g) \subseteq PoolCells(pools[i])
      BY DEF AllocatorInvariant, HandleInv, InPool
    <3>2. PageAt(x) = PageAt(pools[i])
      BY <1>6, <3>1, StartOfPage
    <3>3. PageAt(x) = PageAt(a)
      BY <1>4, <1>15
    <3> QED BY <1>9, <1>11, <3>2, <3>3
  <2> SUFFICES ASSUME NEW f \in Handles, NEW g \in Handles, f # g,
                      mem'[f].state # "none", mem'[g].state # "none"
               PROVE  Cells(f)' \cap Cells(g)' = {}
    BY DEF ApartInv
  <2>2. CASE f # h /\ g # h
    BY <1>13, <2>2 DEF ApartInv, AllocatorInvariant
  <2>3. CASE f = h
    BY <1>13, <1>14, <2>1, <2>3
  <2>4. CASE g = h
    BY <1>13, <1>14, <2>1, <2>4
  <2> QED BY <2>2, <2>3, <2>4
<1>18. SearchInv'
  BY <1>2 DEF SearchInv, Locked, NoSearch
<1> QED BY <1>7, <1>10, <1>12, <1>16, <1>17, <1>18 DEF AllocatorInvariant

\* release leaves the pool where it is: a page has more than one byte.
LEMMA ReleaseKeeps ==
  ASSUME AllocatorInvariant, NEW h \in Handles, Release(h)
  PROVE  AllocatorInvariant'
<1>1. mem \in [Handles -> HandleType] /\ mem[h].state = "live"
  BY DEF AllocatorInvariant, TypeOK, Release
<1>2. mem' = [mem EXCEPT ![h].state = "releasing"] /\ UNCHANGED <<layout, pools, search>>
  BY DEF Release
<1>3. mem' \in [Handles -> HandleType]
  BY <1>1, <1>2 DEF HandleType
<1>4. \A g \in Handles :
        /\ mem'[g].origin = mem[g].origin /\ mem'[g].start = mem[g].start
        /\ mem'[g].size = mem[g].size /\ Cells(g)' = Cells(g)
        /\ mem'[g].state = "none" <=> mem[g].state = "none"
        /\ mem'[g].state = "none" => mem'[g] = mem[g]
  BY <1>1, <1>2 DEF Cells, HandleType
<1>5. HandleInv'
  BY <1>2, <1>4 DEF AllocatorInvariant, HandleInv, InPool
<1>6. ApartInv'
  BY <1>4 DEF AllocatorInvariant, ApartInv
<1> QED BY <1>2, <1>3, <1>5, <1>6, SliceFrame

\* The slice goes back to its pool.
LEMMA FreeSliceKeeps ==
  ASSUME AllocatorInvariant, NEW h \in Handles, FreeSlice(h)
  PROVE  AllocatorInvariant'
<1>1. mem \in [Handles -> HandleType]
  BY DEF AllocatorInvariant, TypeOK
<1>2. mem' = [mem EXCEPT ![h] = Absent] /\ UNCHANGED <<layout, pools, search>>
  BY DEF FreeSlice
<1>3. mem' \in [Handles -> HandleType]
  <2>1. 0 \in Addr
    <3>1. End \in Nat /\ End >= 1
      <4>1. 0 < PageCount
        OBVIOUS
      <4>2. PageSize * 0 + PageSize <= PageSize * PageCount
        BY <4>1, PagesApart
      <4> QED BY <4>2 DEF End
    <3> QED BY <3>1 DEF Addr
  <2>2. Absent \in HandleType
    BY <2>1 DEF Absent, HandleType
  <2> QED BY <1>1, <1>2, <2>2
<1>4. \A g \in Handles : g # h => mem'[g] = mem[g] /\ Cells(g)' = Cells(g)
  BY <1>1, <1>2 DEF Cells
<1>5. mem'[h] = Absent /\ mem'[h].state = "none"
  BY <1>1, <1>2 DEF Absent
<1>6. HandleInv'
  BY <1>2, <1>4, <1>5 DEF AllocatorInvariant, HandleInv, InPool
<1>7. ApartInv'
  BY <1>4, <1>5 DEF AllocatorInvariant, ApartInv
<1> QED BY <1>2, <1>3, <1>6, <1>7, SliceFrame

-----------------------------------------------------------------------------
(***************************************************************************)
(* The invariant and what follows from it                                  *)
(***************************************************************************)
\* The allocator starts without pools, slices or a search.
LEMMA AllocatorInit == Init => AllocatorInvariant
<1> SUFFICES ASSUME Init PROVE AllocatorInvariant
  OBVIOUS
<1>1. End \in Nat /\ 0 \in Addr
  <2>1. 0 < PageCount
    OBVIOUS
  <2>2. PageSize * 0 + PageSize <= PageSize * PageCount
    BY <2>1, PagesApart
  <2> QED BY <2>2 DEF End, Addr
<1>2. TypeOK
  BY <1>1 DEF Init, TypeOK, SearchType, NoSearch, HandleType, Absent
<1>3. PlaceInv /\ PoolInv
  BY DEF Init, PlaceInv, PoolInv
<1>4. HandleInv /\ ApartInv
  BY DEF Init, HandleInv, ApartInv, Absent
<1>5. SearchInv
  BY DEF Init, SearchInv, Locked, NoSearch
<1> QED BY <1>2, <1>3, <1>4, <1>5 DEF AllocatorInvariant

\* Every step keeps the invariant.
LEMMA AllocatorNext == AllocatorInvariant /\ [Next]_vars => AllocatorInvariant'
<1> SUFFICES ASSUME AllocatorInvariant, [Next]_vars PROVE AllocatorInvariant'
  OBVIOUS
<1>1. ASSUME NEW h \in Handles, NEW o \in Origins, NEW n \in Sizes, AllocateMemory(h, o, n)
      PROVE  AllocatorInvariant'
  BY <1>1, AllocateMemoryKeeps
<1>2. ASSUME NEW h \in Handles, NEW o \in Origins, NEW n \in Sizes, AllocatePool(h, o, n)
      PROVE  AllocatorInvariant'
  BY <1>2, AllocatePoolKeeps
<1>3. ASSUME NEW h \in Handles, MapPool(h) PROVE AllocatorInvariant'
  BY <1>3, MapPoolKeeps
<1>4. ASSUME NEW h \in Handles, Release(h) PROVE AllocatorInvariant'
  BY <1>4, ReleaseKeeps
<1>5. ASSUME NEW h \in Handles, FreeSlice(h) PROVE AllocatorInvariant'
  BY <1>5, FreeSliceKeeps
<1>6. CASE SkipRegion
  BY <1>6, SkipRegionKeeps
<1>7. CASE MapRefused
  BY <1>7, MapRefusedKeeps
<1>8. CASE ChainBefore
  BY <1>8, ChainBeforeKeeps
<1>9. CASE AllocateFails
  BY <1>9, AllocateFailsKeeps
<1>10. CASE UNCHANGED vars
  <2>1. UNCHANGED <<layout, pools, mem>> /\ search' = search
    BY <1>10 DEF vars
  <2>2. search' \in SearchType /\ SearchInv'
    BY <2>1 DEF AllocatorInvariant, TypeOK, SearchInv, Locked, UnmappedIn, Free
  <2> QED BY <2>1, <2>2, SearchFrame
<1> QED
  BY <1>1, <1>2, <1>3, <1>4, <1>5, <1>6, <1>7, <1>8, <1>9, <1>10 DEF Next

\* The invariant of the allocator holds in every state it reaches: slices are
\* in pools of the list and apart, pools are on pages of their own, and a
\* search has tried what it has left behind (alloc/proximity.rs, search.rs).
THEOREM AllocatorInductive == Spec => []AllocatorInvariant
  BY AllocatorInit, AllocatorNext, PTL DEF Spec

\* Pools start where pages do, and what is asked for, tried and handed out is
\* within the address space (ProximityAllocator, FreeRegionIter).
THEOREM AllocatorTypeCorrect == Spec => []TypeOK
<1>1. AllocatorInvariant => TypeOK
  BY DEF AllocatorInvariant
<1> QED BY <1>1, AllocatorInductive, PTL

\* Each allocation lies in one pool of the list, also while its handle is being
\* dropped: release finds what it looks for (release's expect never panics).
THEOREM SlicesInPools == Spec => []EachInItsPool
<1>1. AllocatorInvariant => EachInItsPool
  BY DEF AllocatorInvariant, EachInItsPool, HandleInv, InPool, PoolInv
<1> QED BY <1>1, AllocatorInductive, PTL

\* A search that gives up has tried every free page of the range but the null
\* page, and none twice, whatever the layout (FreeRegionIter::next).
THEOREM OutOfMemoryIsTrue == Spec => []SearchIsComplete
<1>1. AllocatorInvariant => SearchIsComplete
  <2> SUFFICES ASSUME AllocatorInvariant, Locked PROVE SearchIsComplete
    BY DEF SearchIsComplete, Locked
  <2> DEFINE c == search.current
             o == search.origin
  <2>1. /\ o \in Addr /\ o \in Nat /\ o # End - 1 /\ ~Free(o) /\ c \in Nat /\ End \in Nat
        /\ \A a \in UnmappedIn(o) : a \in Nat /\ a # 0 /\ Free(a) /\ a \in MemoryRange(o)
    BY SearchFacts
  <2>2. search.dir \in {"after", "before"}
    BY DEF AllocatorInvariant, TypeOK, SearchType, Locked
  <2>3. ASSUME search.dir = "before", ~Within PROVE search.tried = UnmappedIn(o)
    <3>1. c <= o /\ search.tried = {a \in UnmappedIn(o) : o <= a \/ c < a}
      BY <2>3 DEF AllocatorInvariant, SearchInv
    <3>2. CASE c = 0
      <4>1. \A a \in UnmappedIn(o) : c < a
        BY <2>1, <3>2
      <4> QED BY <3>1, <4>1
    <3>3. CASE c \notin MemoryRange(o)
      <4>1. c \in Addr /\ o < End - 1
        BY <2>1, <3>1 DEF Addr
      <4>2. c < Monus(o, MaxDistance) \/ c >= o + MaxDistance
        BY <2>1, <3>1, <3>3, <4>1 DEF MemoryRange, Monus
      <4>3. \A a \in UnmappedIn(o) : Monus(o, MaxDistance) <= a /\ a < o + MaxDistance
        BY <2>1 DEF MemoryRange
      <4>4. \A a \in UnmappedIn(o) : o <= a \/ c < a
        BY <2>1, <3>1, <4>2, <4>3 DEF Monus
      <4> QED BY <3>1, <4>4
    <3> QED BY <2>1, <2>3, <3>2, <3>3 DEF Within
  <2>4. ASSUME Within PROVE c \notin search.tried
    <3>1. CASE search.dir = "after"
      BY <2>1, <3>1 DEF AllocatorInvariant, SearchInv
    <3>2. CASE search.dir = "before"
      <4>1. c <= o /\ search.tried = {a \in UnmappedIn(o) : o <= a \/ c < a}
        BY <3>2 DEF AllocatorInvariant, SearchInv
      <4>2. c \in search.tried => c = o /\ Free(c)
        BY <2>1, <4>1
      <4> QED BY <2>1, <4>2
    <3> QED BY <2>2, <3>1, <3>2
  <2> QED BY <2>3, <2>4 DEF SearchIsComplete
<1> QED BY <1>1, AllocatorInductive, PTL

\* Below a mapped region, or at the null page, is further down.
LEMMA FurtherDown ==
  ASSUME NEW c \in Nat, c > 0, NEW a \in Nat, a <= c
  PROVE  Monus(a, PageSize) \in Nat /\ Monus(a, PageSize) < c
BY DEF Monus

\* Every turn of the search brings it closer to its end (FreeRegionIter::next):
\* up to the end of the address space, and from the origin down to the null page,
\* over regions of any size, refused pages and the change of direction.
THEOREM SearchProgresses == Spec => SearchAdvances
<1> DEFINE Advances == Locked /\ Locked' /\ search' # search => Left' < Left
           c == search.current
<1>1. AllocatorInvariant /\ [Next]_vars => Advances
  <2> SUFFICES ASSUME AllocatorInvariant, [Next]_vars, Locked, Locked', search' # search
               PROVE  Left' < Left
    OBVIOUS
  <2>1. /\ search \in SearchType /\ c \in Nat /\ c <= End /\ End \in Nat
        /\ search.origin \in Nat /\ search.origin < End
    <3>1. search \in SearchType /\ c \in Nat /\ End \in Nat /\ search.origin \in Addr
      BY SearchFacts
    <3> QED BY <3>1 DEF SearchType, Addr
  <2>2. search.dir \in {"after", "before"}
    BY <2>1 DEF SearchType, Locked
  <2>3. ASSUME NEW n \in Nat, n <= End, search' = [search EXCEPT !.current = n],
               search.dir = "after" => c < n, search.dir = "before" => n < c
        PROVE  Left' < Left
    BY <2>1, <2>2, <2>3 DEF Left, SearchType
  <2>4. CASE SkipRegion
    <3>1. PICK lo \in Pages, hi \in Pages :
            /\ Region(PageAt(c), lo, hi)
            /\ search' = [search EXCEPT !.current = Beyond(lo, hi)]
      BY <2>4 DEF SkipRegion
    <3>2. Within /\ ~Free(c)
      BY <2>4 DEF SkipRegion
    <3>3. c \in Addr /\ c > 0
      BY <3>2 DEF Within, MemoryRange
    <3>4. lo \in 0 .. PageCount /\ hi + 1 \in 0 .. PageCount /\ lo \in Nat
      BY DEF Pages
    <3>5. CASE search.dir = "after"
      <4>1. Beyond(lo, hi) = PageSize * (hi + 1)
        BY <3>5 DEF Beyond
      <4>2. PageSize * (hi + 1) \in Nat /\ PageSize * (hi + 1) <= End
        BY <2>1, <3>4, EndOfPages
      <4>3. c < PageSize * (hi + 1)
        BY <3>1, <3>2, <3>3, SkipUp
      <4> QED BY <2>3, <3>1, <3>5, <4>1, <4>2, <4>3
    <3>6. CASE search.dir = "before"
      <4>1. Beyond(lo, hi) = Monus(PageSize * lo, PageSize)
        BY <3>6 DEF Beyond
      <4>2. PageSize * lo \in Nat /\ PageSize * lo <= c
        <5>1. /\ PageAt(c) \in Nat /\ lo <= PageAt(c)
              /\ PageSize * PageAt(c) \in Nat /\ PageSize * PageAt(c) <= c
          BY <3>1, <3>3, AddrOnPage, PageHolds DEF Region, Pages
        <5>2. PageSize * lo \in Nat /\ PageSize * lo <= PageSize * PageAt(c)
          BY <3>4, <5>1, EndOfPages, StartsOrdered
        <5> QED BY <2>1, <5>1, <5>2
      <4>3. Monus(PageSize * lo, PageSize) \in Nat /\ Monus(PageSize * lo, PageSize) < c
        BY <2>1, <3>3, <4>2, FurtherDown
      <4> QED BY <2>1, <2>3, <3>1, <3>6, <4>1, <4>3
    <3> QED BY <2>2, <3>5, <3>6
  <2>5. CASE MapRefused
    <3>1. /\ Within /\ Free(c)
          /\ search' = [search EXCEPT !.tried = @ \cup {c}, !.current = Adjust(search.dir, c)]
      BY <2>5 DEF MapRefused
    <3>2. c > 0
      BY <3>1 DEF Within
    <3>3. /\ search'.dir = search.dir
          /\ search'.current = IF search.dir = "after" THEN c + PageSize
                               ELSE Monus(c, PageSize)
      BY <2>1, <3>1 DEF SearchType, Adjust
    <3>4. Monus(c, PageSize) \in Nat /\ Monus(c, PageSize) < c
      BY <2>1, <3>2, FurtherDown
    <3> QED BY <2>1, <2>2, <3>3, <3>4, AllocatorAssumption DEF Left
  <2>6. CASE ChainBefore
    <3>1. search.dir = "after" /\ search'.dir = "before" /\ search'.current = search.origin
      BY <2>1, <2>6 DEF ChainBefore, SearchType
    <3> QED BY <2>1, <3>1 DEF Left
  <2>7. SkipRegion \/ MapRefused \/ ChainBefore
    <3>1. \A h \in Handles : ~MapPool(h) /\ ~Release(h) /\ ~FreeSlice(h)
      BY DEF MapPool, Release, FreeSlice, NoSearch, Locked
    <3>2. \A h \in Handles, o \in Origins, n \in Sizes :
            ~AllocateMemory(h, o, n) /\ ~AllocatePool(h, o, n)
      BY DEF AllocateMemory, AllocatePool
    <3>3. ~AllocateFails
      BY DEF AllocateFails, NoSearch, Locked
    <3>4. ~UNCHANGED vars
      BY DEF vars
    <3> QED BY <3>1, <3>2, <3>3, <3>4 DEF Next
  <2> QED BY <2>4, <2>5, <2>6, <2>7
<1>2. Spec => [][Advances]_vars
  BY <1>1, AllocatorInductive, PTL DEF Spec
<1> QED BY <1>2 DEF SearchAdvances

-----------------------------------------------------------------------------
(***************************************************************************)
(* The allocator implements BlockAllocator                                 *)
(***************************************************************************)
ForeignBytes == {a \in Addr : layout[PageAt(a)] \in {"code", "data"}}
Blocks == [h \in Handles |-> [origin |-> mem[h].origin,
                             start |-> mem[h].start, size |-> mem[h].size]]

\* A slice of a pool that is in reach, apart from the others, is a block.
LEMMA NewBlock ==
  ASSUME AllocatorInvariant, NEW h \in Handles, NEW o \in Origins, NEW a \in Addr,
         NEW n \in Sizes, NEW s \in Starts,
         mem[h].state = "none", layout[PageAt(s)] \in {"pool", "free"},
         (a .. a + n - 1) \subseteq PoolCells(s),
         \A g \in Handles : mem[g].state # "none" => (a .. a + n - 1) \cap Cells(g) = {},
         Monus(o, MaxDistance) <= a, a < o + MaxDistance,
         mem' = [mem EXCEPT ![h] = Live(o, a, n)], ForeignBytes' = ForeignBytes
  PROVE  Promised!Allocate(h)
<1> DEFINE b == [origin |-> o, start |-> a, size |-> n]
<1>1. mem \in [Handles -> HandleType] /\ o \in Nat /\ a \in Nat
  BY DEF AllocatorInvariant, TypeOK, Addr
<1>2. Blocks[h] = Promised!Nothing
  BY DEF AllocatorInvariant, HandleInv, Blocks, Promised!Nothing, Absent
<1>3. Promised!Reaches(a, o)
  BY <1>1 DEF Promised!Reaches, Monus
<1>4. Blocks' = [Blocks EXCEPT ![h] = b]
  BY <1>1 DEF Blocks, Live
<1>5. \A g \in Handles : Promised!Cells(Blocks[g]) = Cells(g)
  BY DEF Blocks, Promised!Cells, Cells
<1>6. \A g \in Handles : mem[g].state = "none" => Cells(g) = {}
  <2>1. \A g \in Handles : mem[g].state = "none" => Cells(g) = 0 .. 0 + 0 - 1
    BY DEF AllocatorInvariant, HandleInv, Absent, Cells
  <2>2. 0 .. 0 + 0 - 1 = {}
    OBVIOUS
  <2> QED BY <2>1, <2>2
<1>7. \A x \in a .. a + n - 1 : x \in Addr /\ x \notin ForeignBytes
  BY StartOfPage DEF ForeignBytes
<1>8. Promised!Cells(b) = a .. a + n - 1
  BY DEF Promised!Cells
<1>9. Promised!Cells(b) \subseteq Promised!Unused(h)
  <2>1. Promised!Unused(h)
          = Addr \ (ForeignBytes \cup UNION {Promised!Cells(Blocks[g]) : g \in Handles \ {h}})
    BY DEF Promised!Unused, ForeignBytes, Blocks
  <2>2. \A g \in Handles : (a .. a + n - 1) \cap Cells(g) = {}
    BY <1>6
  <2> QED BY <1>5, <1>7, <1>8, <2>1, <2>2
<1> QED
  BY <1>2, <1>3, <1>4, <1>9 DEF Promised!Allocate, Blocks, ForeignBytes

\* The allocator implements BlockAllocator: every block it hands out starts in
\* reach of its origin, whichever pool it is from, is nobody else's while it is
\* held, and is given back once (allocate, ExecutableMemory's drop).
THEOREM ImplementsBlocks == Spec => GivesBlocks
<1>1. Init => Promised!Init
  BY DEF Init, Promised!Init, Promised!Nothing, Absent
<1>2. AllocatorInvariant /\ [Next]_vars => [Promised!Next]_Promised!vars
  <2> SUFFICES ASSUME AllocatorInvariant, [Next]_vars
               PROVE  [Promised!Next]_Promised!vars
    OBVIOUS
  <2>1. mem \in [Handles -> HandleType] /\ pools \in Seq(Starts)
        /\ layout \in [Pages -> {"free", "code", "data", "pool"}]
    BY DEF AllocatorInvariant, TypeOK
  <2>2. ASSUME ForeignBytes' = ForeignBytes, Blocks' = Blocks
        PROVE  [Promised!Next]_Promised!vars
    BY <2>2 DEF Promised!vars, ForeignBytes, Blocks
  <2>3. layout' = layout => ForeignBytes' = ForeignBytes
    BY DEF ForeignBytes
  <2>4. mem' = mem => Blocks' = Blocks
    BY DEF Blocks
  <2>5. ASSUME NEW h \in Handles, NEW o \in Origins, NEW n \in Sizes, AllocateMemory(h, o, n)
        PROVE  Promised!Next
    <3>1. PICK i \in 1 .. Len(pools) :
            /\ InRange(pools[i], o)
            /\ \E a \in Fits(pools[i], n) : mem' = [mem EXCEPT ![h] = Live(o, a, n)]
      BY <2>5 DEF AllocateMemory, First, Eligible
    <3>2. PICK a \in Fits(pools[i], n) : mem' = [mem EXCEPT ![h] = Live(o, a, n)]
      BY <3>1
    <3>3. pools[i] \in Starts /\ layout[PageAt(pools[i])] = "pool"
      BY <2>1 DEF AllocatorInvariant, PoolInv
    <3>4. /\ a \in Addr /\ (a .. a + n - 1) \subseteq PoolCells(pools[i])
          /\ \A g \in Handles : mem[g].state # "none" => (a .. a + n - 1) \cap Cells(g) = {}
      BY <3>3, FitsApart
    <3>5. Monus(o, MaxDistance) <= a /\ a < o + MaxDistance
      <4>1. o \in Nat /\ pools[i] \in Nat /\ a \in pools[i] .. pools[i] + PageSize - 1
        BY <3>3, StartOfPage DEF Fits, PoolCells, Addr
      <4>2. /\ Monus(o, MaxDistance) <= pools[i]
            /\ pools[i] + PageSize - 1 < o + MaxDistance
        BY <3>1 DEF InRange, MemoryRange
      <4>3. Monus(o, MaxDistance) \in Nat
        BY <4>1 DEF Monus
      <4> QED BY <4>1, <4>2, <4>3
    <3>6. mem[h].state = "none" /\ ForeignBytes' = ForeignBytes
      BY <2>3, <2>5 DEF AllocateMemory
    <3> QED BY <3>2, <3>3, <3>4, <3>5, <3>6, NewBlock DEF Promised!Next
  <2>6. ASSUME NEW h \in Handles, MapPool(h) PROVE Promised!Next
    <3> DEFINE a == search.current
               o == search.origin
               n == search.size
    <3>1. /\ Locked /\ Within /\ Free(a) /\ mem[h].state = "none"
          /\ layout' = [layout EXCEPT ![PageAt(a)] = "pool"]
          /\ mem' = [mem EXCEPT ![h] = Live(o, a, n)]
      BY <2>6 DEF MapPool
    <3>2. a \in Starts /\ o \in Origins /\ n \in Sizes /\ o \in Nat
      BY <3>1, YieldsStart, SearchFacts
    <3>3. /\ a \in Addr /\ a \in Nat /\ PageAt(a) \in Pages
          /\ \A x \in PoolCells(a) : PageAt(x) = PageAt(a)
      BY <3>2, StartOfPage
    <3>4. layout[PageAt(a)] = "free"
      BY <3>1 DEF Free
    <3>5. Monus(o, MaxDistance) <= a /\ a < o + MaxDistance
      BY <3>1 DEF Within, MemoryRange
    <3> HIDE DEF a, o, n
    <3>6. (a .. a + n - 1) \subseteq PoolCells(a)
      <4>1. \A m \in Sizes : m \in Nat /\ m <= PageSize
        OBVIOUS
      <4> QED BY <3>2, <3>3, <4>1 DEF PoolCells
    <3>7. \A g \in Handles : mem[g].state # "none" => (a .. a + n - 1) \cap Cells(g) = {}
      <4> SUFFICES ASSUME NEW g \in Handles, mem[g].state # "none",
                          NEW x \in Cells(g), x \in a .. a + n - 1
                   PROVE  FALSE
        OBVIOUS
      <4>1. PICK i \in 1 .. Len(pools) : Cells(g) \subseteq PoolCells(pools[i])
        BY DEF AllocatorInvariant, HandleInv, InPool
      <4>2. pools[i] \in Starts /\ layout[PageAt(pools[i])] = "pool"
        BY <2>1 DEF AllocatorInvariant, PoolInv
      <4>3. PageAt(x) = PageAt(pools[i])
        BY <4>1, <4>2, StartOfPage
      <4>4. PageAt(x) = PageAt(a)
        BY <3>3, <3>6
      <4> QED BY <3>4, <4>2, <4>3, <4>4
    <3>8. ForeignBytes' = ForeignBytes
      <4>1. \A p \in Pages : layout'[p] \in {"code", "data"} <=> layout[p] \in {"code", "data"}
        BY <2>1, <3>1, <3>3, <3>4
      <4>2. \A x \in Addr : PageAt(x) \in Pages
        BY AddrOnPage
      <4> QED BY <4>1, <4>2 DEF ForeignBytes
    <3>9. Promised!Allocate(h)
      BY <3>1, <3>2, <3>3, <3>4, <3>5, <3>6, <3>7, <3>8, NewBlock
    <3> QED BY <3>9 DEF Promised!Next
  <2>7. ASSUME NEW h \in Handles, Release(h) PROVE [Promised!Next]_Promised!vars
    <3>1. layout' = layout /\ mem' = [mem EXCEPT ![h].state = "releasing"]
      BY <2>7 DEF Release
    <3>2. \A g \in Handles : /\ mem'[g].origin = mem[g].origin
                             /\ mem'[g].start = mem[g].start /\ mem'[g].size = mem[g].size
      BY <2>1, <3>1 DEF HandleType
    <3>3. Blocks' = Blocks
      BY <3>2 DEF Blocks
    <3> QED BY <2>2, <2>3, <3>1, <3>3
  <2>8. ASSUME NEW h \in Handles, FreeSlice(h) PROVE Promised!Next
    <3>1. /\ layout' = layout /\ mem[h].state = "releasing"
          /\ mem' = [mem EXCEPT ![h] = Absent]
      BY <2>8 DEF FreeSlice
    <3>2. Blocks' = [Blocks EXCEPT ![h] = Promised!Nothing]
      BY <2>1, <3>1 DEF Blocks, Promised!Nothing, Absent
    <3>3. mem[h].size \in Sizes
      BY <3>1 DEF AllocatorInvariant, HandleInv
    <3>4. Blocks[h] # Promised!Nothing
      <4>1. Blocks[h].size # 0
        BY <3>3 DEF Blocks
      <4> QED BY <4>1 DEF Promised!Nothing
    <3>5. ForeignBytes' = ForeignBytes
      BY <2>3, <3>1
    <3>6. Promised!GiveBack(h)
      BY <3>2, <3>4, <3>5 DEF Promised!GiveBack, Blocks, ForeignBytes
    <3> QED BY <3>6 DEF Promised!Next
  <2>9. CASE layout' = layout /\ mem' = mem
    BY <2>2, <2>3, <2>4, <2>9
  <2>10. \/ layout' = layout /\ mem' = mem
         \/ \E h \in Handles : MapPool(h) \/ Release(h) \/ FreeSlice(h)
         \/ \E h \in Handles, o \in Origins, n \in Sizes : AllocateMemory(h, o, n)
    BY DEF Next, vars, AllocatePool, SkipRegion, MapRefused, ChainBefore, AllocateFails
  <2> QED BY <2>5, <2>6, <2>7, <2>8, <2>9, <2>10
<1> QED
  BY <1>1, <1>2, AllocatorInductive, PTL DEF Spec, GivesBlocks, Promised!Spec
=============================================================================
