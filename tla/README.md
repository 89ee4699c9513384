# ByteFetch in TLA+

ByteFetch is a crawling service: clients post jobs over HTTP, jobs become tasks
in PostgreSQL, a pool of workers claims the tasks, fetches and stores pages and
adds the links they find as further tasks, and a cleanup loop deletes what has
expired. This directory models that service, checks it with TLC on small
instances and proves its central invariants with TLAPS for instances of any size.
Paths below are relative to `src/`.

## 1. Inventory

| Part | State | Operations | Talks to |
|---|---|---|---|
| Store (`internal/store`, schema) | tables `jobs`, `crawl_tasks`, `documents`, `mapped_urls`, `dedupe_cache` | one SQL statement each | called by everyone |
| API (`internal/server`) | one handler per request, a transaction | create batch, crawl and map jobs; list; export; scrape | Store, fetcher |
| Worker (`internal/worker/worker.go`) | per goroutine: the claimed row as it was, a context, links in hand; a heartbeat goroutine | claim, handle, expand, settle, close the job | Store, robots client, limiter, fetcher |
| Cleanup (`internal/cleanup`) | none, two statements per sweep | cancel expired, delete expired | Store |
| Host limiter (`internal/worker/limiter.go`) | per host a channel of tokens and a token bucket | acquire, release | worker |
| Robots client (`internal/robots`) | per host and port the cached robots.txt and the last request | Allowed, Delay, Wait, Sitemaps | worker, the web |
| Renderer (`internal/fetch/renderer.go`) | browser, page pool, host tokens, `closed` | Render, newPage, restart, healthLoop, Close | worker and API, Chromium |
| Fetcher (`internal/fetch/fetcher.go`) | none | Fetch | renderer, the web |
| Link frontier (`worker.go`, `internal/urlutil`) | none, but for the walk through the sitemaps: what was seen and collected | Canonicalize, filterLinks, sitemap traversal | worker, robots client, fetcher |
| Listing and export (`routes.go`, `store.go`) | the client's cursor | GetJob, JobStats, list a page, export all | Store |
| Connection pool (`internal/db`, `database/sql`) | connections handed out, requests that wait | get, put | every statement |
| Configuration, metrics, logging, extraction, formatting, migrations | none that a property is about | | |

What is hard about it:

* There is no lock around a job. `FinishJob` reads twice and writes once, in three
  statements, while other workers claim, insert, retry and settle.
* Ownership of a task is a lease renewed by a heartbeat; every settling statement
  goes by the id of the row alone.
* Any process may die between two statements, any statement may fail, and a
  statement may commit although its caller is told that it failed.
* Time limits (lease, `max_duration`, `deadline`, `ttl`, `nav_timeout`, the
  contexts made from them) run out at any point.
* A row is numbered when it is inserted, dated by the start of its transaction and seen
  from its commit, and listings page through it by number.
* A handler that holds a transaction asks the same pool for another connection.
* Inside a process, workers share the limiter, the robots client and the renderer,
  which release their mutexes while they sleep, wait or talk to the network.

What makes the parts correct: a job is closed once, when it is drained, with the
right verdict; a task has one holder and a bounded number of runs; no link of a
finished page is lost and nothing is crawled that was not found; nothing of a
deleted job survives; everything settles in the end; hosts see no more requests at
a time, and none sooner, than configured; tokens, pages and connections are neither
lost nor used twice; a reader gets every row once; links are compared in one canonical
form, stay on the site they are meant to, and sitemaps cannot make the walk endless.

## 2. Modules

| Module | Models |
|---|---|
| `Store` | the tables and each SQL statement that changes them |
| `Api` | job creation: `Submit`, `CheckSeed` (one dedupe lookup), `CommitJob` |
| `Worker` | `runWorker` and what it calls, one action per statement or decision |
| `Cleanup` | the two statements of a sweep |
| `Crawler` | the composition of these four, the fairness, all properties of the service |
| `JobLedger` | abstract specification: what a job promises to a client that polls it |
| `Web`, `HostLimiter`, `Robots` | hosts; the limiter; the robots client |
| `Fetching` | the workers of one process going through robots client, limiter and request |
| `Renderer` | the renderer, its health loop and its shutdown |
| `ConnPool`, `Paging` | the connection pool; the rows of a job and the list statements over them |
| `Server` | the handlers as users of both, statement by statement |
| `UrlForms` | URLs as components: `Canonicalize`, `filterLinks` and their helpers, as operators |
| `LinkFrontier` | pages along link paths, and the walk through the sitemaps |
| `MCCrawler`, `MCFetching`, `MCRenderer`, `MCServer`, `MCFrontier` | sites, requests and symmetries for the runs |
| `CrawlerProofs`, `ClaimProofs` | theorems about `Crawler`: types; claims, closing and retries; the refinement of `JobLedger` |
| `RowProofs`, `LinkProofs` | theorems about `Crawler`: single rows; the links of a page and the dedupe cache |
| `FetchingProofs`, `RendererProofs`, `ServerProofs` | theorems about these modules |
| `FrontierProofs` | theorems about `LinkFrontier` and the functions of `UrlForms` |

Operators whose name has an underscore (`RetryTask_NotCounted`) are wrong versions
of the definition they precede. They take part in no specification; put in place of
the right one they show that a property would notice that mistake.

### Store, Api, Worker, Cleanup

A statement is atomic, as PostgreSQL makes it at READ COMMITTED for the single-row
updates used here; a transaction (`createJobWithSeeds`, `enqueueMapLinks`) is one
step, at its commit. `DequeueTask` may pass over a lower id only while another
worker has it locked, which `Claimable` bounds by the number of workers.

`worker[w]` holds the program counter, the row as it was when claimed (the code
never reads it again), whether the context has a deadline, and the links in hand.
The values of `pc` follow the code: `getjob`, `cancel`, `start`, `run`, `fetch`,
`store`, `mark`, `expand`, `filter`, `insert`, then `ok` or `err` (what `handleTask`
returned), then `pending`, `failed`, `finish` inside `FinishJob`. Errors the code
drops (`_ = st.StartJob(...)`) continue, errors it returns go to `err`.

Data is reduced to what a property tells apart: a heartbeat is null, fresh or stale;
a time limit has passed or not (`past`); documents are counted; a URL is a model
value with a canonical form (`Canon`, idempotent), a redirect target, links and
sitemap links. `Fault` stands for a failed statement, a lost reply or a process that
dies, at most `MaxFaults` times. `HeartbeatsKeepUp` says that no lease runs out under
a live worker, which `heartbeat_interval` (10s) and `lease_timeout` (60s) are meant
to ensure; the runs about lease loss set it to FALSE.

### Fetching

Each lookup or update under the robots client's mutex is a step; requesting
robots.txt, sleeping, waiting for the limiter and the page request itself lie
between steps. The limiter goes by the name of a host (`HostOf`), the robots client by host and
port (`OriginOf`), so that two ports share their tokens and not their robots.txt. What a
request for robots.txt may end in (`Answers`) is what the library makes of the response:
rules, everything allowed (a 4xx, whatever `robots_fail_open` says), nothing allowed (a 5xx), or no
data. `TestAgent` is given the whole URL, as `robots.go:48` does, so a rule is told by its form: "/"
matches every URL, a pattern is searched for in the URL, and a plain path is the beginning of none.
`RobotsObeyed` is about what these answers say; it is not a claim that pages a site means
to exclude stay unvisited (see "Other disagreements"). Allow rules and groups of
agents are left out: rules are those that apply to the agent.

Time is kept as ages: `since[o]` is the age of `lastFetch[o]`, capped
at `MaxDelay`, and a sleeping worker has ticks left, so that time never runs out and
liveness can be checked. A context may be done wherever the code selects on it. The
token bucket passes or fails at any time. All sitemaps of a page are one
period in which the worker has a request in flight, past the limiter as in the code.

### Renderer

A browser is a generation number, a page belongs to the browser that opened it, and
`running` are the browsers whose process lives; `browser` is what `r.browser` points
to, alive or not. `newPage` keeps `r.mu` through a restart, `healthLoop` restarts
without it: both are split at `browser.Close` and `launch`, and a launch may also fail
after the process was started. `page.Close`, whose error the code discards
(`renderer.go:240,246`), is taken to succeed: a page that stays open in spite of it is one that
`NoPageLeak` does not count. A panic ends the process and is remembered with its
cause; the model stops there, which is why the renderer's runs do not check for
deadlock. The crawler's runs do not either: a service without jobs has nothing to do.

### Server, Paging, ConnPool

`Api` says what `createJobWithSeeds` writes; `Server` says what every handler holds
while it runs. `handler[r].pc` is the statement that comes next and `run` says that the
statement has a connection of its own; a transaction has one from `BeginTx` on. The seeds
are in the dedupe cache or not as it happens. `Waiting` requests are those that have
asked the pool: `c.Context()` of a fiber handler ends with the server, so only the ping of
`/readyz`, which sets its own timeout, gives up.

`Paging` keeps, for each transaction that adds rows, the ids it has drawn from the
sequence and the order of its start, which is `created_at`. `PageOf` is what the four list
statements return: rows after the cursor by id, ordered by the column asked for (`Sorted` puts
every row at the place of its rank), cut at the limit. The columns that hold a URL behave like `created_at`, as columns whose
order is not that of the ids. `reading[r]` is a history: what there was when the reader
began and what it got. An export with `all=true` keeps the cursor itself
(`TakePage`), a client of `/documents` and `/map` brings it back (`FollowCursor`); one page of
an export is one page of `/documents`.

### UrlForms, LinkFrontier

A URL is the record of its parsed components, a host the sequence of its labels, a path
that of its segments, so that "subdomain" is a suffix and "clean" removes segments. Labels
and segments come from small sets with a case to lower, an extension and index files. A loop that
passes over some elements is a `Select` of the others, by position.
`LinkFrontier` follows one path of links from the seed; which link a job follows is
arbitrary, so that every path is explored. The recursion of `fetchSitemapURLs` is the
variable `stack`. What a call has collected it always returns, so the collected `<loc>`s are one
sequence and `remaining` is what the limit leaves of it. The set `seen` is one for
sitemaps and for pages, as in the code, and a string may be both: the instance has a `<loc>` of a
urlset that indexes name as a sitemap. The sets of pages and the whole
`Sites`, each way in which sitemaps may refer to each other, are constants chosen in `Init`.

`Store` and `Worker` assume that links are canonical and that `Canon` is idempotent
(`CanonAssumption`, `PagesAssumption`): `LinksAreCanonical` is what justifies that.

## 3. Runs

Seven runs pass:

| Run | Instance | Shows |
|---|---|---|
| `MCClosing` | fair; everything at once: API, 2 workers, a sweeper, one crawl job over two pages that link to each other, `ttl` and `max_duration` pass at any time, 1 fault | types; the inductive invariant `ClaimInv` and its parts `FinishedIsDrained`, `VerdictIsTrue`, `ExclusiveClaim`, `RetryBudget`; `NoOrphans`; `Crawler` implements `JobLedger`; `EveryTaskSettles`, `EveryJobFinishes` (as long as nothing fails), `ExpiredIsDeleted` |
| `MCCrawl` | a crawl of depth 2 and a batch that share the dedupe cache, a redirect from one of their pages onto another, a nofollow page, a seed given in two spellings, no retries, 1 fault | `SeenHasDocument`, `DoneCoversLinks`, `TasksAreDiscovered`, `DoneHasDocument` |
| `MCMap` | a map job over a chain of pages and a sitemap, depth 1, at most 3 tasks, and a request no validator accepts; leases expire under live workers; no retries, 1 fault | `DoneCoversLinks`, `TasksAreDiscovered` for the transactional expansion, at the cap, at the depth limit and when two workers handle one task |
| `MCFetch` | fair; 2 workers, 4 pages on 2 hosts, one of them with 2 ports, 1 request per host, robots.txt that is respected or not, with rules of every form, missing, refused or failing (which forbids), sitemaps | types; `TokensMatch`, `HostConcurrency`, `RobotsObeyed`, `FetchSettles` |
| `MCRender` | fair; 2 callers, 2 hosts with 1 page each, pool of 1, 2 browsers, one of which dies, ageing pages | types; `SlotsMatch`, `PagesExclusive`, `NoPageLeak`, `RenderEnds` |
| `MCServer` | 2 connections, 2 creators with up to 2 seeds, 1 reader of each kind in both directions, 2 transactions with a row each, pages of one row, deletion, 1 failed statement | types; `ConnsMatch`, `StuckMeansSeedsWait`, `SeedsWaitLasts`, `InOrder`, `ExportIsExhaustive` for the order by id |
| `MCFrontier` | 3 seeds, 11 pages, 3 sitemaps with every combination of 7 documents, one of which lists a sitemap as a page, nesting up to 2, limit 3, 1 failed fetch, link paths of length 2 | types; `LinksAreCanonical`, `StaysOnSite`, `SitemapsAreBounded`, `SitemapsAreFollowed` |

Five runs end in a violation. Each states what a document or comment says, where the
code does otherwise; `PROJECT.json` quotes the sentence:

| Run | The trace in short |
|---|---|
| `MCCancelled` | overdue job cancelled, then `FinishJob` writes completed_with_errors over it |
| `MCOverdue` | the last worker dies between `CompleteTask` and `FinishJob`; nobody looks at the job again |
| `MCLeaseLossClosing` | a worker without its lease requeues a task of a closed job |
| `MCCrawlDelayRace` | two workers read the same `lastFetch` and go to the host together |
| `MCExportOrder` | export sorted by `created_at`: the last row of a page has the larger id, and the next page asks for ids beyond it |

**Other disagreements.** Met while modelling; the models show the behaviour, and no run
is kept for them:

* The DELETE of a sweep (`internal/cleanup/cleanup.go:53`) also takes jobs past their
  `deadline` (15 minutes by default), long before the `ttl` the README gives for it.
* `buildLinkTasks` counts tasks in one statement and inserts in later ones, so two workers
  exceed `max_tasks`. It also counts links that have a task already against what is
  left of the cap: a page with links back can lose new ones although the job never reaches
  `max_tasks`. `DoneCoversLinks` is stated so as to allow that.
* A crawl without `max_depth` gets 0, not `job_defaults.max_depth` (`MaxDepth` in `Store`).
* Batch seeds in the dedupe cache are skipped without the `409` the README promises. If
  all are, the job is accepted without tasks, stays queued, and is only ever deleted.
* Map jobs follow the links of nofollow pages (`PageLinks` applies nofollow to crawl
  jobs only).
* Sitemaps are requested past the host limiter: with them, a host may see more requests at
  a time than `per_host_limit`.
* With `dedupe_cache`, `max_open_conns` concurrent requests that create jobs can each hold
  the connection of a transaction and wait for another one to read the cache
  (`internal/server/jobs.go:46`). None of them gives up: `SeedsWaitLasts`.
* The last line of an export has `next_cursor: 0` only if it returned no row and was given no
  cursor, so a client that continues "until it reaches `0`" (README) never stops.
* `/documents` does not know the order `title` the README names, and falls back to `id`;
  `offset` is parsed and never used.
* A row that is committed late with a smaller id is missed by an ascending reader that has
  passed it. An export whose job is deleted meanwhile ends as a complete one.
* Every error of `GetJob`, a failed statement included, is answered by 404.
* With `same_domain`, a page on a port that is not the default loses all links to its own
  host: its host is compared with the port, the link's without (`sameHostOrSubdomain`).
* `/doc.pdf/` passes `block_extensions` and becomes `/doc.pdf`; an empty query, "?", survives
  `strip_query`. Both come from a check that precedes the cleaning.
* Sitemap URLs are enqueued at depth 1, not at depth 0 as the README says, so not at all when
  `max_depth` is 0. A sitemap first met below `sitemap_max_nested` is not fetched where it is
  allowed. Sitemaps and pages share one set of seen URLs (`worker.go:669` and `689`): a sitemap that
  a urlset listed before is not fetched, and a page that an index named before is not collected. One longer than `max_body_bytes` is cut and then does not parse.
* Links are resolved against the URL asked for, not against the one a redirect led to.
* `Allowed` says that it tells "whether the path is allowed" (`internal/robots/robots.go:31`) and passes
  the URL to a library that expects a path. A plain rule such as `Disallow: /private` therefore forbids
  nothing; "Disallow: /" forbids the whole site, and rules with a wildcard are searched for in the
  URL. `TestAgent` and `Matches` in `Robots` do the same.
* A robots.txt that is missing (4xx) allows everything although `robots_fail_open` is false: that
  setting counts for failed requests only. The first answer that is stored, a failure
  included, is kept until the process ends; of two concurrent ones, the last.
* robots.txt is asked about the URL of the task. Redirects the fetcher follows are not checked.
* With `respect_robots: false`, robots.txt is still requested and its delay applied
  (`Delay` is reached without `respectRobots`).
* `Renderer.Close` closes a nil channel when rendering is disabled, and a render in
  progress then sends on the closed pool; `MustWaitLoad` panics when `nav_timeout` passes.
  All three are panics nobody recovers (`panic` in `Renderer`).

**Bounds.** Two workers are enough for every race between a reader and a writer of the
same row. Instances have up to five tasks, and `MaxTaskId` is large enough that no passing
run ever needs a further row. One fault per run: every statement is a place for it, and a
retry follows it; `MCCrawl` and `MCMap` have no retries, so that a fault there fails a task
at once. `MaxRetries` is 1 in `MCClosing`, so a first run, a retry and a failure all happen. In
`MCMap` the first expansion fits under the cap and the second worker that handles the same
task finds it full or nearly so.
Two delays (1 and 2 ticks) make the robots delay override the default one. Two browsers
allow one restart, by a caller or by the health loop, and the attempt at another; three
pages are as many as the pool and the callers can hold. In `MCServer` two creators can take
both connections or leave one to the reader; one row a page makes every row a page
boundary, and two transactions suffice for ids, starts and commits in different orders. Three
sitemaps form chains and cycles one level longer than the nesting allowed, and the limit of 3
falls inside a urlset or between two. Symmetry is used in runs without liveness properties
only.

**Fairness.** A goroutine that is not killed continues (weak fairness of each worker,
handler and sweep); some lease nobody renews expires, as long as there is one (weak fairness of
their disjunction); the clock ticks. Strong fairness is
used in two places, both from the Go runtime: a blocked channel send is served in order
of arrival, and a mutex that is released again and again goes to a waiter in the end.
Requests of the fetcher end by its timeout, and so do navigation and what follows it on a page. Opening
a page (`browser.Page`), `Close` and the launch of a browser have no timeout: that Chromium answers them, or fails, is
an assumption of `RenderEnds` and not something the code ensures. Nobody has to post a job,
no limit has to pass, and no context has to be cancelled. `Server` and `LinkFrontier` have
no liveness property: that a request ends unless `SeedsWait` holds follows from
`StuckMeansSeedsWait` and the order of its statements, and the walk through the sitemaps ends
because `asked` and the stack are bounded; neither is checked as a temporal formula.

## 4. Proofs

`CrawlerProofs` proves `TypeCorrect`: every reachable state satisfies `TypeOK` and
`Structure`. `Structure` says that rows are whole and below the id sequence, that a
request's job does not exist before its commit, and that the row a worker remembers
is still the row of that id, or gone for good with its job. Without it the types are
not inductive: a worker writes through what it remembers.

`ClaimProofs` proves `ClaimsHold`, `FinishedJobsAreDrained`, `VerdictsAreTrue`,
`ClaimsAreExclusive` and `RetriesAreBounded`, under the assumption
`HeartbeatsKeepUp` (the run `MCLeaseLossClosing` shows that the second fails without
it). None of them is inductive alone. `FinishedIsDrained` needs to know, when `FinishJob`
writes, that what it read two statements earlier is still true (`ReadsStillTrue`). It is,
because new pending tasks of a job come only from a worker that handles a
task of it, and such a worker's task is itself pending (`LeasesHeld`): once the count is
zero nobody is left who could raise it. `LeasesHeld` in turn needs `ExclusiveClaim`, since
otherwise another holder could settle the row, and `RetryBudget` needs
`LeasesHeld` for the attempts the worker remembers. Their conjunction with `Structure` is
`ClaimInv`; the run `MCClosing` checks it, and the proof goes through every action of API,
workers and cleanup, with lemmas for the effect of each statement on the pending and
failed tasks of a job.

It also proves that the service implements `JobLedger` (`ServiceImplementsLedger`), under
the same assumption. Every statement is one step of the ledger or none: the commit of a
request is its `Accept`; an insert of links is `Discover`, allowed because the task of the worker
that inserts is still pending, which keeps the job open; `CompleteTask` and `FailTask` settle a task; `FinishJob`
closes the job or writes the verdict it already has; the `DELETE` of the cleanup loop is
`Drop`. Everything else, failures, crashes and takeovers included, is invisible to a client.

`RowProofs` is about single rows and needs no lease: its theorems hold when two workers
handle the same task. `NoOrphansRemain`, `GivenUpOnlyAfterRetries` and
`DoneTasksHaveDocuments` come from `RowInv`, which adds what a worker that comes late relies on: the
attempts it remembers are never more than those of the row, and from `MarkCanonical` on its
document is stored, unless the row is gone with its job.

`LinkProofs` proves `EveryTaskIsDiscovered` and `DonePagesCoverLinks` for every site, configuration
and number of workers, again without leases. `LinkInv` follows the links of a page through the
statements of a worker: what it has in hand are links of its page, and each of them has a task or
is in the dedupe cache, or does not fit under the cap, or is still to be inserted. Rows keep job, URL and depth, so two
workers with the same page, or one that runs it again, can only add. The cap is an inequality
of cardinalities, hence the assumption that a page has finitely many links.
`CachedUrlsHaveDocuments` holds as long as nothing is deleted (no ttl, no deadline): the cleanup
loop removes documents with their job and leaves the entries of the cache.

`FetchingProofs` proves `TokensAreAccountedFor` and `RequestsAreBounded` for any finite
set of workers, any hosts and limits. The invariant adds that a channel is within its
capacity; the argument is the cardinality of the set of holders, which a send enlarges by
one and a release reduces by one. `OneWorkerKeepsDelay` shows that a single worker keeps the
crawl delay: between its two critical sections nobody else can write `lastFetch`, so the
sleep it has computed is still what is left of the delay. `ForbiddenIsNotFetched`: a worker that
respects robots.txt goes past `ensureRobotsAllowed` only by an answer that permits its URL, and what is
cached is an answer its origin gave (`CacheInv`), whichever of two concurrent requests stored it last;
only a new task brings a worker another URL. Rules count as the library applies them to a whole URL, and
redirects are outside. `LimiterTypes` is `TypeOK`.

`RendererProofs` proves `SlotsAreAccountedFor`, again by counting, `PagesAreExclusive` and
`NoPageIsForgotten`. The open pages, whatever became of their browser, are exactly those in the pool
and those in use, and a caller has one exactly while it works with it (`PagesInv`): a page in
two places would have been put back, or handed out, twice. That a name for a new page is always free
takes at least as many names as the pool and the callers can hold, which `Renderer` assumes.
`RendererTypes` is `TypeOK`, from the same invariants.

`ServerProofs` counts connections the same way, for any requests, seeds and any size of the
pool (`ConnectionsAreCounted`), and concludes `StuckOnlyOnSeeds`: a waiting request holds a
connection only in the loop over the seeds. `SeedsWaitForGood` says that no step ends such a wait.
`EnoughConnections` gives what excludes it: the dedupe cache off, or more connections than
requests that create jobs at a time.

Its second part is about what readers are given. A page is what ranks say: `RankGrows` and
`SortedRows` prove that the ranks of finitely many ordered rows are the numbers from 0 on, each
once, so that `Sorted` enumerates its rows, and `PageIsFirst` that a page is the first `Limit` of
those beyond the cursor. `ReadInv` says of a reader that nothing it got comes after
its cursor, and that a row of the beginning it did not get is still stored and does come after it
(`Progress`). The rows of the beginning are still there although transactions commit meanwhile, since
a committed row goes only with its job (`RowsInv`). `ReadersGetRowsInOrder` and
`ReadingToTheEndIsExhaustive` follow, for any pages, transactions, failures and deletions. The second
has the hypothesis that rows are ordered by id: `MCExportOrder` shows that it fails otherwise.
`ServerTypes` is `TypeOK`.

`FrontierProofs` has three parts. The first is about functions that go through a sequence by
recursion (`Select`, `Unique`, `RemoveDots`). The induction is over the positions of the
sequence: the set of positions at which a fact holds has 0 in it and, with every
position, the next (`Induction`, from the well-founded order of the natural numbers); `Recursion` says
that such a function exists and what its values are. `SelectPicks` then says that `Select` is an
injection of the positions kept, `UniqueElements` that `Unique` keeps every element once.

The second part is about URLs. `RemoveDots` yields a path with neither ".", ".." nor empty segments if
it is given none that are empty, and leaves such a path alone, so `cleanPath` twice is `cleanPath`
(`CleanPathTwice`; the index files are looked for after the path is clean, and may not be named "." or
".."), and `Canonicalize` twice is `Canonicalize`: `LinksKeepTheirForm`, for all paths, hosts and
queries. `CrawlStaysOnSite` is an induction along link paths: the host of a page ends in the lower-case host of
the seed, a relative link has the host of its page, an absolute one that passes
`sameHostOrSubdomain` ends in it, and "ends in" is transitive.

The third part is about the walk through the sitemaps. `WalkIsBounded` needs to know what the calls on the stack have
left. `WalkInv`: the call at the bottom goes through robots.txt in its order, each entry once, and the
call at position k has depth k - 1. `RawInv`: a `<loc>` that was collected is marked as seen, and collected once.
`AskedInv`: the fetches of the bottom call map one to one to entries of robots.txt, and every other
fetch has marked its sitemap, so that there is one at most. `WalkLeavesNothingOut` needs `FollowInv`:
as long as the limit is not reached, what is marked as seen was collected as a page, or is named by an
index and was fetched or is nested too deep (`SeenFollowed`); and a sitemap that a fetched index names is
one of these or is left to a call on the stack. A call that returns below the limit has nothing left,
so at the end nothing is. The theorem names what the shared set loses: a sitemap met too deep first, a sitemap met
as a page first, and a page met as a sitemap first; nothing is assumed about which strings
occur in both roles. TLC
checked these invariants on the instance of `MCFrontier` before they were proved.
`FrontierTypes` is `TypeOK`.

Assumptions on constants are those the modules state next to their declarations. Writers of `Paging`
and requests of `Server` are finite sets, as ranks and connections are counted; the settings of the
sitemap walk are integers of any sign.

Every invariant that a passing run checks is the statement of a theorem, and so are `SeedsWaitLasts` and
`ImplementsLedger`. `GivenUpOnlyAfterRetries` is proved and not run: where heartbeats keep up it follows
from `RetryBudget`, and an instance with retries and leases that expire under live workers is too large
for TLC here. Only model-checked are the liveness properties: `EveryTaskSettles`,
`EveryJobFinishes`, `ExpiredIsDeleted`, `FetchSettles` and `RenderEnds` (fairness and ENABLED are beyond the
prover). The theorems of `ClaimProofs` have the hypothesis `HeartbeatsKeepUp`, that on
`SeenHasDocument` that nothing is deleted.

## 5. Not modelled

The synchronous scrape, which is one fetch without a database; redirect limits and body limits
of the fetcher; parsing and escaping of URLs; Allow rules and groups of agents in robots.txt; clock skew except
as leases that expire early; idle and lifetime limits of connections; HTML extraction,
formatting, configuration, metrics, logging and migrations. `CancelExpiredJobs` and
`InsertMapped` have no caller.

## 6. Plan

Done, in this order: `Store`, `Api`, `Worker`, `Cleanup`, `Crawler` with the closing and
claim properties; `JobLedger`; `CrawlerProofs`, `ClaimProofs`; `HostLimiter`, `Robots`,
`Fetching` and `FetchingProofs`; `Renderer`; `ConnPool`, `Paging`, `Server` and
`ServerProofs`; `UrlForms`, `LinkFrontier`; `RowProofs`, `LinkProofs`, the refinement in
`ClaimProofs`; `RendererProofs`; the readers in `ServerProofs`; `FrontierProofs`.

Next:

1. `Renderer`: recovery after a restart, and what dead pages in the pool do to it.
2. Supervision: `waitOrExit` and what a component that returns does to the others.
