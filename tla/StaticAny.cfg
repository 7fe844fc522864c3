CONSTANTS
  Threads = {t1, t2, t3}
  Closures = {f1, f2, f3}
  Boxes = {b1, b2}
  NewFails = TRUE
  Null = Null
SPECIFICATION FairSpec
INVARIANTS
  TypeOK
  PublishedAlive
  OneWinner
  ClosureAccounted
  NoUseAfterFree
  HookedHasClosure
PROPERTY InitializeEnds
CHECK_DEADLOCK FALSE
