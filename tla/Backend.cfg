CONSTANTS
  Caller = Caller
  Lost = Lost
  DETOUR_RANGE = 256
  Page = 16
  Relocatable = TRUE
  Cases <- MCCases
SPECIFICATION Spec
CHECK_DEADLOCK FALSE
INVARIANTS
  TypeOK
  HookLeadsToDetour
  NeighboursKept
PROPERTY RunsAsOriginal
