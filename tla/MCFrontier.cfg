SPECIFICATION Spec
CHECK_DEADLOCK FALSE
CONSTANTS
  Schemes = {"", "http", "https", "ftp"}
  Ports = {"", "80", "443", "8080"}
  Labels <- MCLabels
  Segments <- MCSegments
  Lower <- MCLower
  Ext <- MCExt
  IndexFiles = {"index.html"}
  AllowedSchemes = {"http", "https"}
  BlockExtensions = {".pdf"}
  StripQuery = TRUE
  Seeds <- MCSeeds
  Pages <- MCPages
  Sitemaps <- MCSitemaps
  Sites <- MCSites
  Loc <- MCLoc
  SameDomain = TRUE
  SitemapLimit = 3
  MaxNested = 2
  MaxDepth = 2
  MaxFailures = 1
INVARIANTS
  TypeOK
  LinksAreCanonical
  StaysOnSite
  SitemapsAreBounded
  SitemapsAreFollowed
