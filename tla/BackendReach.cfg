CONSTANTS
  Caller = Caller
  Lost = Lost
  DETOUR_RANGE = 256
  Page = 16
  Relocatable = FALSE
  Cases <- ReachCases
SPECIFICATION Spec
CHECK_DEADLOCK FALSE
INVARIANT HookLeadsToDetour
