----------------------------- MODULE MCCrawler -----------------------------
(***************************************************************************)
(* Small instances of Crawler for TLC: the values the .cfg files give to   *)
(* the constants that are functions, and the symmetry of the workers.      *)
(***************************************************************************)
EXTENDS Crawler, TLC

CONSTANTS j1, j2, a, b, c, d, e, w1, w2, s1

WorkerSymmetry == Permutations(Workers)

\* Every URL is canonical, but d, which is another way to write b.
MCCanon == [u \in Urls |-> IF u = d THEN b ELSE u]

\* Nothing redirects, or only a, to b, which frees a for another task of the job.
NoRedirect == [u \in Urls |-> u]
RedirectAtoB == [u \in Urls |-> IF u = a THEN b ELSE u]

NoLinks == [u \in Urls |-> {}]

\* a links to b and to c, which links back.
FanOut == [u \in Urls |-> CASE u = a -> {b, c} \cap Urls
                            [] u = c -> {a} \cap Urls
                            [] OTHER -> {}]

\* a and b link to each other.
Pair == [u \in Urls |-> CASE u = a -> {b} [] u = b -> {a} [] OTHER -> {}]

\* a links to b, and b to c, which lies below a depth limit of 1, and back.
Chain == [u \in Urls |-> CASE u = a -> {b} [] u = b -> {c, a} [] OTHER -> {}]

SitemapC == [u \in Urls |-> IF u = a THEN {c} ELSE {}]

Post(type, urls, depth) ==
  [type |-> type, urls |-> urls, depth_given |-> type # "batch_scrape", max_depth |-> depth,
   include_sitemaps |-> TRUE]

BatchA == [j \in Jobs |-> Post("batch_scrape", {a}, 0)]
CrawlA1 == [j \in Jobs |-> Post("crawl", {a}, 1)]

\* A map job, and a request no validator accepts.
MapAndInvalid == [j \in Jobs |-> Post("map", {a}, IF j = j1 THEN 1 ELSE -1)]

\* A crawl and a batch that meet in a and b, which the batch asks for twice; a
\* crawl and one that no validator accepts.
CrawlAndBatch ==
  [j \in Jobs |-> IF j = j1 THEN Post("crawl", {a}, 2)
                            ELSE Post("batch_scrape", {a, b, d}, 0)]
=============================================================================
