CONSTANTS
  PageCount = 6
  PageSize = 2
  MaxDistance = 5
  Origins = {4, 7}
  Sizes = {1, 2}
  Handles = {h1, h2, h3}
  MmapFails = TRUE
SPECIFICATION FairSpec
INVARIANTS
  TypeOK
  EachInItsPool
  SearchIsComplete
PROPERTIES
  GivesBlocks
  SearchAdvances
  SearchEnds
