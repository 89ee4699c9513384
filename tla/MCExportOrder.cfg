SPECIFICATION Spec
CHECK_DEADLOCK FALSE
CONSTANTS
  w1 = w1
  w2 = w2
  c1 = c1
  c2 = c2
  r1 = r1
  Writers = {w1, w2}
  Batch <- OneEach
  Limit = 1
  SortBy = "created_at"
  MaxOpen = 2
  Creators = {}
  Readers = {r1}
  Reads = {"export"}
  DedupeCache = FALSE
  MaxSeeds = 1
  MaxFaults = 0
INVARIANTS
  ExportIsExhaustive
