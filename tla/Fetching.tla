------------------------------ MODULE Fetching ------------------------------
(***************************************************************************)
(* How the workers of one process get a page: ensureRobotsAllowed, Wait,   *)
(* fetchWithLimit, and the sitemaps a crawl or map task reads afterwards   *)
(* (internal/worker/worker.go), over one robots.Client and one             *)
(* hostLimiter.  A lookup or an update under the client's mutex is one     *)
(* step; a request to a host is in flight between two steps.               *)
(*                                                                         *)
(* The context of a task may be done at any moment (max_duration, or the   *)
(* process shuts down); the code notices it where it selects on it.        *)
(***************************************************************************)
EXTENDS HostLimiter, Robots, FiniteSets

CONSTANTS
  Workers,          \* goroutines of runWorker
  IncludeSitemaps   \* crawl.include_sitemaps and a job that asks for them

ASSUME FetchingAssumption == IsFiniteSet(Workers) /\ IncludeSitemaps \in BOOLEAN

VARIABLE fetch  \* per worker, where it is, for which URL, and its delay or timer

fetchVars == <<conc, cache, since, respectRobots, fetch>>

PCs == {"idle", "allowed", "allowedGet", "delay", "delayGet", "wait", "sleep",
        "send", "rate", "fetch", "sitemaps", "sitemap"}

TypeOK ==
  /\ LimiterTypeOK
  /\ RobotsTypeOK
  /\ fetch \in [Workers -> [pc : PCs, url : Urls, left : Nat]]

Init ==
  /\ LimiterInit
  /\ RobotsInit
  /\ fetch \in [Workers -> [pc : {"idle"}, url : Urls, left : {0}]]

At(w, pc) == fetch[w].pc = pc
Host(w) == HostOf[fetch[w].url]
Origin(w) == OriginOf[fetch[w].url]
GoTo(w, pc) == fetch' = [fetch EXCEPT ![w].pc = pc]

-----------------------------------------------------------------------------
(* robots.txt.                                                             *)

\* A task with URL u reaches processDocumentTask or processMapTask.
Begin(w, u) ==
  /\ At(w, "idle")
  /\ fetch' = [fetch EXCEPT ![w] =
       [pc |-> IF respectRobots THEN "allowed" ELSE "delay", url |-> u, left |-> 0]]
  /\ UNCHANGED <<conc, cache, since, respectRobots>>

\* getData: the entry is there, and the caller goes on with it; or it is not,
\* and robots.txt is requested with the mutex released.
CacheHit(w, pc) == At(w, pc) /\ cache[Origin(w)] # "none" /\ UNCHANGED cache

CacheMiss(w, pc, get) ==
  /\ At(w, pc) /\ cache[Origin(w)] = "none"
  /\ GoTo(w, get)
  /\ UNCHANGED <<conc, cache, since, respectRobots>>

RobotsAnswer(w, get, data) ==
  At(w, get) /\ data \in Answers[Origin(w)] /\ StoreData(Origin(w), data)

\* Allowed has its data: the task goes on or is "blocked by robots".
CheckAllowed(w, data) ==
  /\ GoTo(w, IF EnsureAllowed(fetch[w].url, data) THEN "delay" ELSE "idle")
  /\ UNCHANGED <<conc, since, respectRobots>>

\* Wait has its delay; without one there is nothing to wait for.
CheckDelay(w, data) ==
  LET delay == Delay(Origin(w), data)
  IN  /\ fetch' = [fetch EXCEPT ![w].pc = IF delay > 0 THEN "wait" ELSE "send",
                                ![w].left = delay]
      /\ UNCHANGED <<conc, since, respectRobots>>

AllowedStep(w) ==
  \/ CacheHit(w, "allowed") /\ CheckAllowed(w, cache[Origin(w)])
  \/ CacheMiss(w, "allowed", "allowedGet")
  \/ \E data \in Data :
       RobotsAnswer(w, "allowedGet", data) /\ CheckAllowed(w, data)

DelayStep(w) ==
  \/ CacheHit(w, "delay") /\ CheckDelay(w, cache[Origin(w)])
  \/ CacheMiss(w, "delay", "delayGet")
  \/ \E data \in Data :
       RobotsAnswer(w, "delayGet", data) /\ CheckDelay(w, data)

-----------------------------------------------------------------------------
(* The crawl delay.                                                        *)

\* The first critical section of Wait reads lastFetch and sets the timer.
ReadLast(w) ==
  /\ At(w, "wait")
  /\ fetch' = [fetch EXCEPT ![w].pc = "sleep",
                            ![w].left = SleepFor(Origin(w), fetch[w].left)]
  /\ UNCHANGED <<conc, cache, since, respectRobots>>

\* The timer has fired; the second critical section writes lastFetch.
WakeUp(w) ==
  /\ At(w, "sleep") /\ fetch[w].left = 0
  /\ Stamp(Origin(w))
  /\ GoTo(w, "send")
  /\ UNCHANGED <<conc, cache, respectRobots>>

\* The context is done before the timer fires.
SleepAborted(w) ==
  /\ At(w, "sleep")
  /\ GoTo(w, "idle")
  /\ UNCHANGED <<conc, cache, since, respectRobots>>

\* Time passes; a timer that has run out stays so until its goroutine runs.
Tick ==
  /\ since' = [o \in Origins |-> Older(since[o])]
  /\ fetch' = [w \in Workers |->
       IF At(w, "sleep") /\ fetch[w].left > 0
       THEN [fetch[w] EXCEPT !.left = @ - 1] ELSE fetch[w]]
  /\ UNCHANGED <<conc, cache, respectRobots>>

-----------------------------------------------------------------------------
(* The request.                                                            *)

\* acquire has a token of the host.
Send(w) ==
  /\ At(w, "send")
  /\ SendToken(Host(w))
  /\ GoTo(w, IF Rps > 0 THEN "rate" ELSE "fetch")
  /\ UNCHANGED <<cache, since, respectRobots>>

\* The context is done while the channel is full.
SendAborted(w) ==
  /\ At(w, "send") /\ MaxConc > 0
  /\ GoTo(w, "idle")
  /\ UNCHANGED <<conc, cache, since, respectRobots>>

\* lim.Wait returns: the bucket had a token in time.
RatePassed(w) ==
  /\ At(w, "rate")
  /\ GoTo(w, "fetch")
  /\ UNCHANGED <<conc, cache, since, respectRobots>>

\* Mutant: acquire returns the error of lim.Wait and keeps the token.
RateFailed_KeepsToken(w) ==
  /\ At(w, "rate")
  /\ GoTo(w, "idle")
  /\ UNCHANGED <<conc, cache, since, respectRobots>>

\* lim.Wait fails: the deadline of the context is, or would be, exceeded.
RateFailed(w) ==
  /\ At(w, "rate")
  /\ ReleaseToken(Host(w))
  /\ GoTo(w, "idle")
  /\ UNCHANGED <<cache, since, respectRobots>>

\* Mutant: fetchWithLimit does not defer the release.
FetchReturns_KeepsToken(w) ==
  /\ At(w, "fetch")
  /\ \E pc \in {"idle"} \cup (IF IncludeSitemaps THEN {"sitemaps"} ELSE {}) : GoTo(w, pc)
  /\ UNCHANGED <<conc, cache, since, respectRobots>>

\* fetcher.Fetch returns and the deferred release runs.  What follows, other
\* than the sitemaps, talks to the database alone.
FetchReturns(w) ==
  /\ At(w, "fetch")
  /\ ReleaseToken(Host(w))
  /\ \E pc \in {"idle"} \cup (IF IncludeSitemaps THEN {"sitemaps"} ELSE {}) : GoTo(w, pc)
  /\ UNCHANGED <<cache, since, respectRobots>>

\* discoverSitemapLinks: the sitemaps robots.txt names are requested from the
\* fetcher itself, one after the other, by fetchSitemapURLs.
Sitemaps(w) ==
  /\ At(w, "sitemaps")
  /\ GoTo(w, IF cache[Origin(w)] = "rules" THEN "sitemap" ELSE "idle")
  /\ UNCHANGED <<conc, cache, since, respectRobots>>

SitemapsReturn(w) ==
  /\ At(w, "sitemap")
  /\ GoTo(w, "idle")
  /\ UNCHANGED <<conc, cache, since, respectRobots>>

-----------------------------------------------------------------------------
WorkerStep(w) ==
  \/ AllowedStep(w) \/ DelayStep(w)
  \/ ReadLast(w) \/ WakeUp(w)
  \/ RatePassed(w) \/ FetchReturns(w)
  \/ Sitemaps(w) \/ SitemapsReturn(w)

Abort(w) == SleepAborted(w) \/ SendAborted(w) \/ RateFailed(w)

Next ==
  \/ \E w \in Workers :
       (\E u \in Urls : Begin(w, u)) \/ WorkerStep(w) \/ Send(w) \/ Abort(w)
  \/ Tick

Spec == Init /\ [][Next]_fetchVars

\* Requests end (http.timeout), timers fire, and the list of sitemaps is finite.
\* A full channel serves its senders first come, first served, so a sender that
\* could go again and again does go: strong fairness.
Fairness ==
  /\ WF_fetchVars(Tick)
  /\ \A w \in Workers : /\ WF_fetchVars(WorkerStep(w))
                        /\ SF_fetchVars(Send(w))

FairSpec == Spec /\ Fairness

-----------------------------------------------------------------------------
(* Properties.                                                             *)

Holding(h) == {w \in Workers : fetch[w].pc \in {"rate", "fetch"} /\ Host(w) = h}

InFlight(h) == {w \in Workers : At(w, "fetch") /\ Host(w) = h}

\* The channel of a host holds one token for every worker that has passed its
\* send and not yet released: no early return of acquire keeps or drops one.
TokensMatch ==
  MaxConc > 0 => \A h \in Hosts : conc[h] = Cardinality(Holding(h))

\* worker.per_host_limit bounds the pages requested from a host at a time.  (Sitemaps
\* do not count: they are requested past the limiter.)
HostConcurrency ==
  MaxConc > 0 => \A h \in Hosts : Cardinality(InFlight(h)) <= MaxConc

\* A page that every answer of its origin forbids is not requested, if robots.txt is
\* respected, whichever answer the workers that share the cache left in it last: what
\* forbids is a rule TestAgent can match, a failing server, or a robots.txt that cannot be
\* had while robots_fail_open is off.  It is the URL of the task that is checked, not one
\* it redirects to (worker.go:235, robots.go:32-49).
RobotsObeyed ==
  respectRobots =>
    \A w \in Workers : At(w, "fetch") =>
      \E data \in Answers[Origin(w)] :
        IF data = "nil" THEN failOpen ELSE TestAgent(fetch[w].url, data)

\* lastFetch of an origin moves only once the delay in force for it has passed
\* since it was written: the waits of all workers together keep the delay.
CrawlDelayKept ==
  [][\A o \in Origins :
       since[o] < Delay(o, cache[o]) => since'[o] >= since[o]]_fetchVars

\* Every task gets its page or gives up: no token, timer or lookup holds it forever.
FetchSettles == \A w \in Workers : ~At(w, "idle") ~> At(w, "idle")

=============================================================================
