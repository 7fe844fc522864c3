CONSTANTS
  Threads = {t1, t2}
  Closures = {f1, f2}
  Boxes = {b1}
  NewFails = FALSE
  Null = Null
SPECIFICATION Spec
SYMMETRY Symmetry
INVARIANT ReplacedSafely
CHECK_DEADLOCK FALSE
