CONSTANTS
  PageCount = 6
  PageSize = 2
  MaxDistance = 5
  Origins = {4, 7}
  Sizes = {1, 2}
  Handles = {h1}
  MmapFails = FALSE
SPECIFICATION Spec
INVARIANT UniquePoolReleased
