SPECIFICATION Spec
CHECK_DEADLOCK FALSE
SYMMETRY WorkerSymmetry
CONSTANTS
  j1 = j1
  j2 = j2
  a = a
  b = b
  c = c
  d = d
  e = e
  w1 = w1
  w2 = w2
  s1 = s1
  NoJob = NoJob
  NoUrl = NoUrl
  NoId = NoId
  Jobs = {j1}
  Urls = {a}
  Request <- BatchA
  Canon <- MCCanon
  MaxTaskId = 3
  MaxFaults = 0
  Limits = {}
  DedupeCache = FALSE
  Workers = {w1, w2}
  Links <- NoLinks
  SitemapLinks <- NoLinks
  Nofollow = {}
  Redirect <- NoRedirect
  MaxRetries = 1
  MaxTasks = 0
  IncludeSitemaps = FALSE
  RespectNofollow = FALSE
  HeartbeatsKeepUp = FALSE
  Sweepers = {}
INVARIANTS
  FinishedIsDrained
