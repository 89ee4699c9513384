------------------------------ MODULE Renderer ------------------------------
(***************************************************************************)
(* Renderer of internal/fetch/renderer.go: one Chromium, a pool of its     *)
(* pages, a channel of tokens per host, the health loop that restarts the  *)
(* browser, and Close.                                                     *)
(*                                                                         *)
(* A browser is a generation number: restart() never starts the same one   *)
(* twice.  A page belongs to the generation that opened it and is of no    *)
(* use once that browser is gone, but stays a page to the pool.  mu is     *)
(* r.mu; only newPage holds it for longer than one step.  A page's content *)
(* and the metrics are left out.                                           *)
(***************************************************************************)
EXTENDS Integers, FiniteSets, SequencesExt

CONSTANTS
  Callers,          \* goroutines that call Render
  Hosts,            \* host names, "default" for a URL without one
  Pages,            \* bound: names for pages, enough that one is always free
  Enabled,          \* browser.enabled
  PoolSize,         \* browser.pool_size
  PerHostLimit,     \* browser.per_host_limit
  PagesAge,         \* browser.max_page_lifetime > 0
  MaxBrowser,       \* bound: browsers launched
  MaxDeaths,        \* bound: browsers that die by themselves
  NoCaller, NoPage

ASSUME RendererAssumption ==
  /\ IsFiniteSet(Callers) /\ IsFiniteSet(Pages)
  /\ PoolSize \in Nat \ {0} /\ PerHostLimit \in Nat /\ MaxBrowser \in Nat \ {0}
  /\ MaxDeaths \in Nat
  /\ Enabled \in BOOLEAN /\ PagesAge \in BOOLEAN
  /\ Cardinality(Pages) >= PoolSize + Cardinality(Callers)
  /\ NoCaller \notin Callers /\ NoPage \notin Pages

VARIABLES
  render,    \* per caller: where it is in Render, its host and its page
  hostSem,   \* len(r.hostSem[host])
  pagePool,  \* the pages in the channel, oldest first
  page,      \* per page: the browser it was opened in (0: closed), older than
             \* max_page_lifetime or not
  browser,   \* r.browser
  running,   \* the browsers whose process runs
  launched,  \* the last browser launched
  deaths,    \* browsers that died by themselves
  mu,        \* holder of r.mu between steps
  health,    \* where healthLoop is
  shutdown,  \* where Close is
  panic      \* what a panic that ended the process was about, or "no"

pool == <<pagePool, page>>
chromium == <<browser, running, launched, deaths>>
rendererVars == <<render, hostSem, pool, chromium, mu, health, shutdown, panic>>

RenderPC == {"idle", "host", "page", "new", "close", "launch", "retry", "navigate",
             "load", "recycle", "release"}

TypeOK ==
  /\ render \in [Callers -> [pc : RenderPC, host : Hosts, page : Pages \cup {NoPage}]]
  /\ hostSem \in [Hosts -> 0 .. PerHostLimit]
  /\ pagePool \in Seq(Pages) /\ Len(pagePool) <= PoolSize
  /\ page \in [Pages -> [browser : 0 .. MaxBrowser, old : BOOLEAN]]
  /\ browser \in 0 .. MaxBrowser /\ launched \in 0 .. MaxBrowser
  /\ running \subseteq 1 .. MaxBrowser
  /\ deaths \in 0 .. MaxDeaths
  /\ mu \in Callers \cup {NoCaller}
  /\ health \in {"off", "tick", "close", "launch"}
  /\ shutdown \in {"no", "browser", "done"}
  /\ panic \in {"no", "load", "pool"}

At(c, pc) == render[c].pc = pc
GoTo(c, pc) == render' = [render EXCEPT ![c].pc = pc]
Unlocked == mu = NoCaller
Closed == shutdown = "done"   \* r.closed
NoPageRow == [browser |-> 0, old |-> FALSE]

\* page.Close, whose error nobody reads: it is taken to succeed.
ClosePage(p) == page' = [page EXCEPT ![p] = NoPageRow]

\* NewRenderer: the first browser and PoolSize pages of it; or nothing at all.
Init ==
  /\ LET first == CHOOSE s \in [1 .. PoolSize -> Pages] : IsInjective(s) IN
       /\ pagePool = IF Enabled THEN first ELSE << >>
       /\ page = [p \in Pages |->
            IF Enabled /\ \E i \in 1 .. PoolSize : first[i] = p
            THEN [browser |-> 1, old |-> FALSE] ELSE NoPageRow]
  /\ browser = IF Enabled THEN 1 ELSE 0
  /\ launched = browser
  /\ running = IF Enabled THEN {1} ELSE {}
  /\ hostSem = [h \in Hosts |-> 0]
  /\ render \in [Callers -> [pc : {"idle"}, host : Hosts, page : {NoPage}]]
  /\ health = IF Enabled /\ PagesAge THEN "tick" ELSE "off"
  /\ deaths = 0 /\ mu = NoCaller /\ shutdown = "no" /\ panic = "no"

Panic(what) ==
  /\ panic' = what
  /\ UNCHANGED <<render, hostSem, pool, chromium, mu, health, shutdown>>

-----------------------------------------------------------------------------
(* acquireHost and releaseHostSem.                                         *)

\* Render of a URL of host h, up to the channel of the host.
Render(c, h) ==
  /\ Enabled /\ At(c, "idle") /\ Unlocked
  /\ render' = [render EXCEPT ![c] = [pc |-> "host", host |-> h, page |-> NoPage]]
  /\ UNCHANGED <<hostSem, pool, chromium, mu, health, shutdown, panic>>

\* Mutant: the channel has room for one token more.
acquireHost_TooMany(c) ==
  /\ At(c, "host") /\ hostSem[render[c].host] <= PerHostLimit
  /\ hostSem' = [hostSem EXCEPT ![render[c].host] = @ + 1]
  /\ GoTo(c, "page")
  /\ UNCHANGED <<pool, chromium, mu, health, shutdown, panic>>

acquireHost(c) ==
  /\ At(c, "host") /\ hostSem[render[c].host] < PerHostLimit
  /\ hostSem' = [hostSem EXCEPT ![render[c].host] = @ + 1]
  /\ GoTo(c, "page")
  /\ UNCHANGED <<pool, chromium, mu, health, shutdown, panic>>

\* The context is done while the channel is full.
acquireHostAborted(c) ==
  /\ At(c, "host")
  /\ GoTo(c, "idle")
  /\ UNCHANGED <<hostSem, pool, chromium, mu, health, shutdown, panic>>

\* Mutant: the token stays in the channel.
releaseHostSem_KeepsToken(c) ==
  /\ At(c, "release") /\ Unlocked
  /\ GoTo(c, "idle")
  /\ UNCHANGED <<hostSem, pool, chromium, mu, health, shutdown, panic>>

releaseHostSem(c) ==
  /\ At(c, "release") /\ Unlocked
  /\ hostSem' = [hostSem EXCEPT ![render[c].host] = IF @ > 0 THEN @ - 1 ELSE @]
  /\ GoTo(c, "idle")
  /\ UNCHANGED <<pool, chromium, mu, health, shutdown, panic>>

-----------------------------------------------------------------------------
(* A page from the pool, or a new one.                                     *)

\* Mutant: the page stays in the pool while it is used.
TakePooled_KeepsPage(c) ==
  /\ At(c, "page") /\ pagePool # << >>
  /\ render' = [render EXCEPT ![c].pc = "navigate", ![c].page = Head(pagePool)]
  /\ UNCHANGED <<hostSem, pool, chromium, mu, health, shutdown, panic>>

TakePooled(c) ==
  /\ At(c, "page") /\ pagePool # << >>
  /\ render' = [render EXCEPT ![c].pc = "navigate", ![c].page = Head(pagePool)]
  /\ pagePool' = Tail(pagePool)
  /\ UNCHANGED <<hostSem, page, chromium, mu, health, shutdown, panic>>

PoolEmpty(c) ==
  /\ At(c, "page") /\ pagePool = << >> /\ ~Closed
  /\ GoTo(c, "new")
  /\ UNCHANGED <<hostSem, pool, chromium, mu, health, shutdown, panic>>

\* A closed channel hands out nil, and p.page is a nil dereference.
PoolClosed(c) ==
  /\ At(c, "page") /\ pagePool = << >> /\ Closed
  /\ Panic("pool")

\* Names of pages are ours, so any free one will do.
OpenPage(c) ==
  /\ browser \in running
  /\ LET p == CHOOSE q \in Pages : page[q] = NoPageRow IN
       /\ page' = [page EXCEPT ![p] = [browser |-> browser, old |-> FALSE]]
       /\ render' = [render EXCEPT ![c].pc = "navigate", ![c].page = p]
  /\ UNCHANGED pagePool

\* newPage: the first attempt, which keeps the mutex when it fails.
newPage(c) ==
  /\ At(c, "new") /\ Unlocked
  /\ \/ OpenPage(c) /\ UNCHANGED mu
     \/ /\ browser \notin running
        /\ mu' = c
        /\ GoTo(c, "close")
        /\ UNCHANGED pool
  /\ UNCHANGED <<hostSem, chromium, health, shutdown, panic>>

\* restart: close what r.browser is now,
CloseBrowser == running' = running \ {browser}

\* then launch: Launch and Connect succeed and r.browser is replaced; Launch
\* fails, or the renderer is closed; or Connect fails and leaves the process it
\* has started to itself.
Launched ==
  /\ ~Closed /\ launched < MaxBrowser
  /\ launched' = launched + 1
  /\ browser' = launched'
  /\ running' = running \cup {launched'}

LaunchFailed ==
  /\ UNCHANGED browser
  /\ \/ UNCHANGED <<launched, running>>
     \/ /\ ~Closed /\ launched < MaxBrowser
        /\ launched' = launched + 1
        /\ running' = running \cup {launched'}

RestartCloses(c) ==
  /\ At(c, "close")
  /\ CloseBrowser
  /\ GoTo(c, "launch")
  /\ UNCHANGED <<hostSem, pool, browser, launched, deaths, mu, health, shutdown, panic>>

\* Mutant: a failed restart leaves Render without releasing the host.
RestartLaunches_KeepsToken(c) ==
  /\ At(c, "launch")
  /\ \/ Launched /\ GoTo(c, "retry") /\ UNCHANGED mu
     \/ LaunchFailed /\ GoTo(c, "idle") /\ mu' = NoCaller
  /\ UNCHANGED <<hostSem, pool, deaths, health, shutdown, panic>>

RestartLaunches(c) ==
  /\ At(c, "launch")
  /\ \/ Launched /\ GoTo(c, "retry") /\ UNCHANGED mu
     \/ LaunchFailed /\ GoTo(c, "release") /\ mu' = NoCaller
  /\ UNCHANGED <<hostSem, pool, deaths, health, shutdown, panic>>

\* newPage: the second attempt, with the browser r.browser is by now.
RetryPage(c) ==
  /\ At(c, "retry")
  /\ \/ OpenPage(c)
     \/ browser \notin running /\ GoTo(c, "release") /\ UNCHANGED pool
  /\ mu' = NoCaller
  /\ UNCHANGED <<hostSem, chromium, health, shutdown, panic>>

-----------------------------------------------------------------------------
(* The page at work, and back.                                             *)

PageWorks(c) == page[render[c].page].browser \in running

\* Navigate returns, without an error only if the browser is there.
Navigate(c) ==
  /\ At(c, "navigate")
  /\ \/ PageWorks(c) /\ GoTo(c, "load")
     \/ GoTo(c, "recycle")
  /\ UNCHANGED <<hostSem, pool, chromium, mu, health, shutdown, panic>>

\* MustWaitLoad, HTML and MustInfo return; HTML may return an error.
Load(c) ==
  /\ At(c, "load")
  /\ GoTo(c, "recycle")
  /\ UNCHANGED <<hostSem, pool, chromium, mu, health, shutdown, panic>>

\* nav_timeout passes, or the browser dies, while MustWaitLoad or MustInfo waits.
LoadPanics(c) == At(c, "load") /\ Panic("load")

\* Mutant: a page the pool has no room for is dropped and not closed.
recyclePage_DropsPage(c) ==
  LET p == render[c].page
  IN  /\ At(c, "recycle")
      /\ page[p].old \/ ~Closed
      /\ IF page[p].old THEN ClosePage(p) /\ UNCHANGED pagePool
         ELSE /\ pagePool' = IF Len(pagePool) = PoolSize THEN pagePool
                             ELSE Append(pagePool, p)
              /\ UNCHANGED page
      /\ render' = [render EXCEPT ![c].pc = "release", ![c].page = NoPage]
      /\ UNCHANGED <<hostSem, chromium, mu, health, shutdown, panic>>

\* recyclePage: an old page is closed, another goes back if there is room.
recyclePage(c) ==
  LET p == render[c].page
  IN  /\ At(c, "recycle")
      /\ page[p].old \/ ~Closed
      /\ IF page[p].old \/ Len(pagePool) = PoolSize
         THEN ClosePage(p) /\ UNCHANGED pagePool
         ELSE pagePool' = Append(pagePool, p) /\ UNCHANGED page
      /\ render' = [render EXCEPT ![c].pc = "release", ![c].page = NoPage]
      /\ UNCHANGED <<hostSem, chromium, mu, health, shutdown, panic>>

\* A send on the closed channel.
RecyclePanics(c) ==
  /\ At(c, "recycle") /\ ~page[render[c].page].old /\ Closed
  /\ Panic("pool")

-----------------------------------------------------------------------------
(* healthLoop, Close and the environment.                                  *)

\* A tick: Ready opens and closes a page of its own, or the browser is restarted,
\* without the mutex; a closed renderer ends the loop.
HealthTick ==
  /\ health = "tick"
  /\ health' = CASE Closed -> "off"
                 [] ~Closed /\ browser \in running -> "tick"
                 [] OTHER -> "close"
  /\ UNCHANGED <<render, hostSem, pool, chromium, mu, shutdown, panic>>

HealthCloses ==
  /\ health = "close"
  /\ CloseBrowser
  /\ health' = "launch"
  /\ UNCHANGED <<render, hostSem, pool, browser, launched, deaths, mu, shutdown, panic>>

HealthLaunches ==
  /\ health = "launch"
  /\ Launched \/ LaunchFailed
  /\ health' = "tick"
  /\ UNCHANGED <<render, hostSem, pool, deaths, mu, shutdown, panic>>

\* Close shuts the browser first,
CloseStarts ==
  /\ shutdown = "no"
  /\ CloseBrowser
  /\ shutdown' = "browser"
  /\ UNCHANGED <<render, hostSem, pool, browser, launched, deaths, mu, health, panic>>

\* and then, under the mutex, the pool, which is nil when rendering is disabled.
ClosePool ==
  /\ shutdown = "browser" /\ Unlocked
  /\ shutdown' = "done"
  /\ panic' = IF Enabled THEN "no" ELSE "pool"
  /\ UNCHANGED <<render, hostSem, pool, chromium, mu, health>>

\* Chromium crashes.
BrowserDies ==
  /\ deaths < MaxDeaths
  /\ \E b \in running : running' = running \ {b}
  /\ deaths' = deaths + 1
  /\ UNCHANGED <<render, hostSem, pool, browser, launched, mu, health, shutdown, panic>>

\* max_page_lifetime passes for a page.
PageAges(p) ==
  /\ PagesAge /\ page[p].browser # 0 /\ ~page[p].old
  /\ page' = [page EXCEPT ![p].old = TRUE]
  /\ UNCHANGED <<render, hostSem, pagePool, chromium, mu, health, shutdown, panic>>

-----------------------------------------------------------------------------
RenderStep(c) ==
  \/ TakePooled(c) \/ PoolEmpty(c) \/ PoolClosed(c)
  \/ newPage(c) \/ RestartCloses(c) \/ RestartLaunches(c) \/ RetryPage(c)
  \/ Navigate(c) \/ Load(c) \/ LoadPanics(c)
  \/ recyclePage(c) \/ RecyclePanics(c) \/ releaseHostSem(c)

Next ==
  /\ panic = "no"
  /\ \/ \E c \in Callers : \/ \E h \in Hosts : Render(c, h)
                           \/ acquireHost(c) \/ acquireHostAborted(c)
                           \/ RenderStep(c)
     \/ HealthTick \/ HealthCloses \/ HealthLaunches
     \/ CloseStarts \/ ClosePool
     \/ BrowserDies
     \/ \E p \in Pages : PageAges(p)

Spec == Init /\ [][Next]_rendererVars

\* Goroutines run on, and the page operations end (nav_timeout).  A full channel
\* serves its senders first come, first served, and a Go mutex that is released
\* again and again is handed to a goroutine that has waited for it: strong fairness,
\* which asks no more than weak fairness of the steps that wait for nothing.
Fairness ==
  \A c \in Callers :
    SF_rendererVars(panic = "no" /\ (RenderStep(c) \/ acquireHost(c)))

FairSpec == Spec /\ Fairness

-----------------------------------------------------------------------------
(* Properties.                                                             *)

Rendering(h) ==
  {c \in Callers : render[c].pc \notin {"idle", "host"} /\ render[c].host = h}

\* browser.per_host_limit: the channel of a host holds one token for each caller
\* between acquireHost and releaseHostSem, on every error path of Render.
SlotsMatch == \A h \in Hosts : hostSem[h] = Cardinality(Rendering(h))

Held == {c \in Callers : render[c].page # NoPage}

\* No page is with two callers, twice in the pool, or in both places.
PagesExclusive ==
  /\ IsInjective(pagePool)
  /\ \A c \in Held : \A i \in DOMAIN pagePool : pagePool[i] # render[c].page
  /\ \A c, d \in Held : c # d => render[c].page # render[d].page

\* A page that is open in a browser that runs is with a caller or in the pool:
\* no path of Render and no restart forgets one.  (A page whose Close failed stays open
\* and is forgotten, renderer.go:240,246: ClosePage leaves that out.)
NoPageLeak ==
  \A p \in Pages :
    page[p].browser \in running =>
      (\E i \in DOMAIN pagePool : pagePool[i] = p) \/ (\E c \in Held : render[c].page = p)

\* Every Render returns, or the process is gone.
RenderEnds ==
  \A c \in Callers : ~At(c, "idle") ~> (At(c, "idle") \/ panic # "no")

=============================================================================
