CONSTANTS
  d1 = d1  d2 = d2  d3 = d3  d4 = d4
  c1 = c1  c2 = c2  c3 = c3  c4 = c4
  p1 = p1  p2 = p2
  Threads = {t1}
  Detours = {d1}
  Cells = {c1, c2}
  Pages = {p1}
  PageOf <- OnePage
  Area <- SplitArea
  Prolog <- SplitProlog
  Far = {}
  Capacity = 1
  Failures = {}
  Coherent = TRUE
  DebugAssertions = FALSE
  ClientNests = FALSE
  Orig = Orig
  NoThread = NoThread
  NoDetour = NoDetour
SPECIFICATION Spec
INVARIANT DropDisables
