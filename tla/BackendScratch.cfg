CONSTANTS
  Caller = Caller
  Lost = Lost
  DETOUR_RANGE = 256
  Page = 16
  Relocatable = FALSE
  Cases <- TailCallCases
SPECIFICATION Spec
CHECK_DEADLOCK FALSE
INVARIANT ScratchKept
