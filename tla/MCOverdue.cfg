SPECIFICATION FairSpec
CHECK_DEADLOCK FALSE
CONSTANTS
  j1 = j1
  j2 = j2
  a = a
  b = b
  c = c
  d = d
  e = e
  w1 = w1
  w2 = w2
  s1 = s1
  NoJob = NoJob
  NoUrl = NoUrl
  NoId = NoId
  Jobs = {j1}
  Urls = {a}
  Request <- BatchA
  Canon <- MCCanon
  MaxTaskId = 3
  MaxFaults = 1
  Limits = {"max_duration"}
  DedupeCache = FALSE
  Workers = {w1}
  Links <- NoLinks
  SitemapLinks <- NoLinks
  Nofollow = {}
  Redirect <- NoRedirect
  MaxRetries = 1
  MaxTasks = 0
  IncludeSitemaps = FALSE
  RespectNofollow = FALSE
  HeartbeatsKeepUp = TRUE
  Sweepers = {}
PROPERTIES
  OverdueIsCancelled
