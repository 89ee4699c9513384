SPECIFICATION Spec
CHECK_DEADLOCK FALSE
SYMMETRY ServerSymmetry
CONSTANTS
  w1 = w1
  w2 = w2
  c1 = c1
  c2 = c2
  r1 = r1
  Writers = {w1, w2}
  Batch <- OneEach
  Limit = 1
  SortBy = "id"
  MaxOpen = 2
  Creators = {c1, c2}
  Readers = {r1}
  Reads = {"ready", "status", "documents", "map", "export"}
  DedupeCache = TRUE
  MaxSeeds = 2
  MaxFaults = 1
INVARIANTS
  TypeOK
  ConnsMatch
  StuckMeansSeedsWait
  InOrder
  ExportIsExhaustive
PROPERTIES
  SeedsWaitLasts
