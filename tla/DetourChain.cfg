CONSTANTS
  d1 = d1  d2 = d2  d3 = d3  d4 = d4
  c1 = c1  c2 = c2  c3 = c3  c4 = c4
  p1 = p1  p2 = p2
  Threads = {t1, t2}
  Detours = {d1, d2, d3, d4}
  Cells = {c1, c2, c3, c4}
  Pages = {p1, p2}
  PageOf <- TwoPages
  Area <- ChainArea
  Prolog <- ChainProlog
  Far = {d1, d4}
  Capacity = 6
  Failures = {"decode", "alloc", "emit", "patch", "protect"}
  Coherent = FALSE
  DebugAssertions = FALSE
  ClientNests = TRUE
  Orig = Orig
  NoThread = NoThread
  NoDetour = NoDetour
SPECIFICATION Spec
SYMMETRY ThreadSymmetry
INVARIANTS
  Faithful
  SavedStaysValid
  JumpsLeadHome
