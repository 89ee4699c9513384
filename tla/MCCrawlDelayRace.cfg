SPECIFICATION Spec
CONSTANTS
  w1 = w1
  w2 = w2
  plain = plain
  hidden = hidden
  alt = alt
  other = other
  host1 = host1
  host2 = host2
  port80 = port80
  port8080 = port8080
  site2 = site2
  HostOf <- MCHostOf
  OriginOf <- MCOriginOf
  Rules <- MCRules
  Answers <- MCAnswers
  CrawlDelay <- MCCrawlDelay
  Urls = {plain, hidden, alt, other}
  defaultDelay = 1
  MaxDelay = 2
  failOpen = FALSE
  RobotsSettings = {TRUE}
  MaxConc = 1
  Rps = 2
  Workers = {w1, w2}
  IncludeSitemaps = FALSE
PROPERTIES
  CrawlDelayKept
