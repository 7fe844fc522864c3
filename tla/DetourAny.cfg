CONSTANTS
  d1 = d1  d2 = d2  d3 = d3  d4 = d4
  c1 = c1  c2 = c2  c3 = c3  c4 = c4
  p1 = p1  p2 = p2
  Threads = {t1, t2}
  Detours = {d1, d2}
  Cells = {c1, c2, c3}
  Pages = {p1, p2}
  PageOf <- TwoPages
  Area <- ChainArea
  Prolog <- ChainProlog
  Far = {d1}
  Capacity = 3
  Failures = {"decode", "alloc", "emit", "patch", "protect"}
  Coherent = FALSE
  DebugAssertions = TRUE
  ClientNests = FALSE
  Orig = Orig
  NoThread = NoThread
  NoDetour = NoDetour
SPECIFICATION FairSpec
INVARIANTS
  TypeOK
  WriteNeverFaults
  PagesRestoredAtRest
  SnapshotsAgree
  ICacheCoherentAtRest
  NothingLeaks
PROPERTIES
  FlagFollowsCode
  PoisonFreezesCode
  DropLeavesJump
  PoolReleased
  PoisonedReturns
