---------------------------- MODULE LinkFrontier ----------------------------
(***************************************************************************)
(* The links a crawl goes along: collectLinks, filterLinks,                *)
(* discoverSitemapLinks and fetchSitemapURLs of internal/worker/worker.go, *)
(* for the pages of one job that lead from the seed to one another.        *)
(*                                                                         *)
(* The call stack of fetchSitemapURLs is the variable stack.  What a call  *)
(* has collected it always returns, so that all of it is appended to raw   *)
(* at once, and remaining is limit - Len(raw) at every level.              *)
(***************************************************************************)
EXTENDS UrlForms

CONSTANTS
  Seeds,          \* external: the URLs a job may start from
  Pages,          \* external: the sequences of links a page may have
  Sitemaps,       \* external: URLs of sitemaps
  Sites,          \* external: which of them a robots.txt names, and their documents
  Loc,            \* per <loc> of a urlset, a sitemap's perhaps, the URL it is
  SameDomain,     \* same_domain of the job
  SitemapLimit,   \* crawl.sitemap_url_limit
  MaxNested,      \* crawl.sitemap_max_nested
  MaxDepth,       \* max_depth of the job
  MaxFailures     \* bound: sitemaps that cannot be fetched

Document ==
  [kind : {"urlset"}, locs : Seq(DOMAIN Loc)] \union
  [kind : {"index"}, locs : Seq(Sitemaps)] \union
  [kind : {"neither"}]

ASSUME SitesAssumption ==
  /\ Seeds \subseteq Url
  /\ Pages \subseteq Seq(Url)
  /\ \A x \in Sites : /\ x.robots \in Seq(Sitemaps) /\ DOMAIN x.content = Sitemaps
                      /\ \A s \in Sitemaps : x.content[s] \in Document
  /\ \A l \in DOMAIN Loc : Loc[l] \in Url
  /\ SameDomain \in BOOLEAN
  /\ SitemapLimit \in Int /\ MaxNested \in Int
  /\ MaxDepth \in Nat /\ MaxFailures \in Nat

\* What discoverSitemapLinks makes of settings that are not positive.
limit    == IF SitemapLimit <= 0 THEN 1000 ELSE SitemapLimit
maxDepth == IF MaxNested <= 0 THEN 1 ELSE MaxNested

VARIABLES
  seed,   \* the seed of the job
  site,   \* what is served of its site
  page,   \* RequestedURL of the task at hand
  depth,  \* its depth
  pc,
  links,  \* the links collected of it
  stack,  \* per call of fetchSitemapURLs, its depth and the <loc>s it has yet to see
  asked,  \* the sitemaps fetched, with the depth of the call
  lost,   \* those that could not be fetched
  raw,    \* the <loc>s of pages collected
  seen    \* the <loc>s, of pages and of sitemaps alike, not to be taken again

vars == <<seed, site, page, depth, pc, links, stack, asked, lost, raw, seen>>
walk == <<stack, asked, lost, raw, seen>>

Init ==
  /\ seed \in Seeds /\ site \in Sites /\ page = seed /\ depth = 0
  /\ pc = "read" /\ links = <<>>
  /\ stack = <<>> /\ asked = <<>> /\ lost = {} /\ raw = <<>> /\ seen = {}

TypeOK ==
  /\ seed \in Seeds /\ site \in Sites /\ page \in Url /\ depth \in 0 .. MaxDepth
  /\ pc \in {"read", "sitemaps", "collected"}
  /\ links \in Seq(Url)
  /\ stack \in Seq([depth : 0 .. maxDepth, locs : Seq(Sitemaps)])
  /\ asked \in Seq([map : Sitemaps, depth : 1 .. maxDepth]) /\ lost \subseteq Sitemaps
  /\ raw \in Seq(DOMAIN Loc) /\ Len(raw) <= limit
  /\ seen \subseteq Sitemaps \union DOMAIN Loc

-----------------------------------------------------------------------------
\* collectLinks filters the links of the page; with include_sitemaps the seed's go on
\* to the sitemaps.
ReadPage ==
  /\ pc = "read"
  /\ \E rawLinks \in Pages : links' = Unique(filterLinks(page, rawLinks, SameDomain))
  /\ IF depth = 0
     THEN pc' = "sitemaps" /\ stack' = <<[depth |-> 0, locs |-> site.robots]>>
     ELSE pc' = "collected" /\ UNCHANGED stack
  /\ UNCHANGED <<seed, site, page, depth, asked, lost, raw, seen>>

Top == Last(stack)

\* The stack after the call on top of it has looked at one <loc>.
Advanced == Append(Front(stack), [Top EXCEPT !.locs = Tail(@)])

InLoop == pc = "sitemaps" /\ stack # <<>> /\ Top.locs # <<>> /\ Len(raw) < limit

\* Mutant: a <loc> of an index that was seen is fetched again.
Skipped_Never(s) == FALSE

\* Only the <loc>s of an index are looked up in seen, not the sitemaps of robots.txt.
Skipped(s) == Top.depth > 0 /\ s \in seen

Marked(s) == IF Top.depth > 0 THEN seen \union {s} ELSE seen

\* A <loc> that was seen is skipped, one that is nested too deep is not fetched.
PassOver ==
  /\ InLoop
  /\ LET s == Head(Top.locs) IN
       /\ Skipped(s) \/ Top.depth + 1 > maxDepth
       /\ seen' = Marked(s)
  /\ stack' = Advanced
  /\ UNCHANGED <<seed, site, page, depth, pc, links, asked, lost, raw>>

\* Mutant: the error of a nested sitemap ends the loop.
FetchFails_Breaks ==
  /\ InLoop /\ Cardinality(lost) < MaxFailures
  /\ LET s == Head(Top.locs) IN
       /\ ~Skipped(s) /\ Top.depth + 1 <= maxDepth
       /\ seen' = Marked(s)
       /\ asked' = Append(asked, [map |-> s, depth |-> Top.depth + 1])
       /\ lost' = lost \union {s}
  /\ stack' = Append(Front(stack), [Top EXCEPT !.locs = <<>>])
  /\ UNCHANGED <<seed, site, page, depth, pc, links, raw>>

FetchFails ==
  /\ InLoop /\ Cardinality(lost) < MaxFailures
  /\ LET s == Head(Top.locs) IN
       /\ ~Skipped(s) /\ Top.depth + 1 <= maxDepth
       /\ seen' = Marked(s)
       /\ asked' = Append(asked, [map |-> s, depth |-> Top.depth + 1])
       /\ lost' = lost \union {s}
  /\ stack' = Advanced
  /\ UNCHANGED <<seed, site, page, depth, pc, links, raw>>

\* Mutant: the whole of a urlset is taken.
NewLocs_NoLimit(locs, already) == Unique(Select(locs, {i \in DOMAIN locs : locs[i] \notin already}))

\* The <loc>s of a urlset that were not seen, up to the limit.
NewLocs(locs, already) ==
  LET new == Unique(Select(locs, {i \in DOMAIN locs : locs[i] \notin already}))
  IN  SubSeq(new, 1, IF Len(new) < limit - Len(raw) THEN Len(new) ELSE limit - Len(raw))

\* A urlset is collected, an index is entered, and anything else is passed over.
FetchSitemap ==
  /\ InLoop
  /\ LET s == Head(Top.locs)
         new == IF site.content[s].kind = "urlset" THEN NewLocs(site.content[s].locs, Marked(s)) ELSE <<>>
     IN  /\ ~Skipped(s) /\ Top.depth + 1 <= maxDepth
         /\ asked' = Append(asked, [map |-> s, depth |-> Top.depth + 1])
         /\ raw' = raw \o new
         /\ seen' = Marked(s) \union ToSet(new)
         /\ stack' = IF site.content[s].kind = "index"
                     THEN Append(Advanced, [depth |-> Top.depth + 1, locs |-> site.content[s].locs])
                     ELSE Advanced
  /\ UNCHANGED <<seed, site, page, depth, pc, links, lost>>

\* The end of the loop: no <loc> is left, or the limit is reached.
Return ==
  /\ pc = "sitemaps" /\ stack # <<>> /\ ~InLoop
  /\ stack' = Front(stack)
  /\ UNCHANGED <<seed, site, page, depth, pc, links, asked, lost, raw, seen>>

\* appendUniqueLinks: those of the sitemaps come after those of the page.
Collected ==
  /\ pc = "sitemaps" /\ stack = <<>>
  /\ pc' = "collected"
  /\ links' = Unique(links \o filterLinks(page, [i \in DOMAIN raw |-> Loc[raw[i]]], SameDomain))
  /\ UNCHANGED <<seed, site, page, depth, walk>>

\* One of the links becomes a task, which a worker takes; what the walk through the
\* sitemaps left is of no more use.
FollowLink ==
  /\ pc = "collected" /\ depth < MaxDepth
  /\ \E i \in DOMAIN links : page' = links[i]
  /\ depth' = depth + 1
  /\ pc' = "read" /\ links' = <<>>
  /\ asked' = <<>> /\ lost' = {} /\ raw' = <<>> /\ seen' = {}
  /\ UNCHANGED <<seed, site, stack>>

Next == ReadPage \/ PassOver \/ FetchFails \/ FetchSitemap \/ Return \/ Collected \/ FollowLink

Spec == Init /\ [][Next]_vars

-----------------------------------------------------------------------------
(* What is promised.                                                       *)

\* Links are in canonical form, which Canonicalize leaves as it is, and each occurs
\* once: what the tables compare URLs by (worker.go:572-615, urlutil.go:13-28).
LinksAreCanonical ==
  /\ \A i \in DOMAIN links : Canonicalize(links[i]) = links[i]
  /\ \A i, j \in DOMAIN links : links[i] = links[j] => i = j

\* With same_domain the crawl stays on the host of the seed and its subdomains, however
\* many links lead from it to here: a page's own host is the base of its links
\* (worker.go:573,592; README: "restrict links to same domain/subdomain").
StaysOnSite ==
  SameDomain => \A i \in DOMAIN links : IsSuffix(LowerHost(seed), links[i].host)

\* However sitemaps refer to one another, no more is taken of them than the limit, no
\* <loc> twice, and none of them is fetched more often than robots.txt names it and once
\* (worker.go:617-703).
SitemapsAreBounded ==
  /\ Len(raw) <= limit
  /\ \A i, j \in DOMAIN raw : raw[i] = raw[j] => i = j
  /\ \A s \in Sitemaps :
       Cardinality({i \in DOMAIN asked : asked[i].map = s})
         <= Cardinality({i \in DOMAIN site.robots : site.robots[i] = s}) + 1

AskedAt(s, d) == \E i \in DOMAIN asked : asked[i] = [map |-> s, depth |-> d]
Asked(s)      == \E d \in 1 .. maxDepth : AskedAt(s, d)
Names(t, n)   == site.content[t].kind = "index" /\ n \in ToSet(site.content[t].locs)

\* An index that was fetched names n; one at the greatest depth does.
Indexed(n) == \E t \in Sitemaps : Asked(t) /\ Names(t, n)
TooDeep(n) == \E t \in Sitemaps : AskedAt(t, maxDepth) /\ Names(t, n)

\* Unless the limit is reached, every sitemap of robots.txt is fetched, with every one an
\* index names, and every <loc> of what could be fetched is collected, whatever else fails
\* and however sitemaps name each other (worker.go:635-703).  Three things are lost, because
\* one set is asked for sitemaps and for pages: a sitemap first met where it is nested too
\* deep, a sitemap first met as a page, and a page first met as a sitemap.
SitemapsAreFollowed ==
  pc = "collected" /\ depth = 0 /\ Len(raw) < limit =>
    /\ \A i \in DOMAIN site.robots : Asked(site.robots[i])
    /\ \A s \in Sitemaps : Asked(s) /\ s \notin lost =>
         CASE site.content[s].kind = "urlset" ->
                \A l \in ToSet(site.content[s].locs) : l \in ToSet(raw) \/ Indexed(l)
           [] site.content[s].kind = "index"  ->
                \A n \in ToSet(site.content[s].locs) : Asked(n) \/ TooDeep(n) \/ n \in ToSet(raw)
           [] OTHER -> TRUE

=============================================================================
