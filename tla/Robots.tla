------------------------------- MODULE Robots -------------------------------
(***************************************************************************)
(* robots.Client of internal/robots/robots.go, shared by all workers of a  *)
(* process: robots.txt per host and port, and the time of the last         *)
(* request.  One origin may answer differently from one request to the     *)
(* next; http and https share an entry.                                    *)
(*                                                                         *)
(* Time is kept as ages: since[o] counts the ticks from lastFetch[o] to    *)
(* now, and stays at MaxDelay once no delay can tell more.                 *)
(***************************************************************************)
EXTENDS Web

CONSTANTS
  Answers,        \* external: per origin, what requests for its robots.txt end in
  Rules,          \* external: per origin, the Disallow rules of its robots.txt
  CrawlDelay,     \* per origin, the Crawl-delay of its robots.txt, in ticks
  defaultDelay,   \* crawl.crawl_delay_ms, in ticks
  failOpen,       \* crawl.robots_fail_open
  RobotsSettings, \* the values of crawl.respect_robots a process may start with
  MaxDelay        \* bound: an age no delay exceeds

\* What is known of an origin: a robots.txt with rules, one that is missing or empty
\* (4xx), one its server fails to give (5xx), or nothing at all, be it for a transport
\* error, another status or a file that does not parse.
Data == {"rules", "allowAll", "disallowAll", "nil"}

\* A Disallow rule: "/", a pattern (with a wildcard or an end mark), or a plain path; and
\* the URLs that it means, a pattern those in which it is found.
Rule == [form : {"root", "pattern", "path"}, urls : SUBSET Urls]

ASSUME RobotsAssumption ==
  /\ Answers \in [Origins -> SUBSET Data]
  /\ Rules \in [Origins -> SUBSET Rule]
  /\ CrawlDelay \in [Origins -> Nat]
  /\ defaultDelay \in Nat
  /\ failOpen \in BOOLEAN
  /\ RobotsSettings \subseteq BOOLEAN
  /\ MaxDelay \in Nat /\ MaxDelay >= defaultDelay
  /\ \A o \in Origins : MaxDelay >= CrawlDelay[o]

VARIABLES
  respectRobots,  \* crawl.respect_robots, read once when the process starts
  cache,          \* per origin its data, or "none" if there is no entry
  since           \* per origin, the age of lastFetch

RobotsTypeOK ==
  /\ respectRobots \in BOOLEAN
  /\ cache \in [Origins -> Data \union {"none"}]
  /\ since \in [Origins -> Nat]

Larger(a, b) == IF a > b THEN a ELSE b

RobotsInit ==
  /\ respectRobots \in RobotsSettings
  /\ cache = [o \in Origins |-> "none"]
  /\ since = [o \in Origins |-> MaxDelay]

-----------------------------------------------------------------------------
\* c.cache[host] = data, with whatever this fetch returned.
StoreData(o, data) == cache' = [cache EXCEPT ![o] = data]

\* A rule in TestAgent, which is given the URL from its scheme on, not its path: "/"
\* matches anything, a pattern is looked for in all of the URL, and no URL begins with a
\* plain path.
Matches(rule, u) == rule.form = "root" \/ (rule.form = "pattern" /\ u \in rule.urls)

\* TestAgent, for rules that forbid.
TestAgent(u, data) ==
  CASE data = "allowAll"    -> TRUE
    [] data = "disallowAll" -> FALSE
    [] OTHER                -> \A rule \in Rules[OriginOf[u]] : ~Matches(rule, u)

\* Mutant: Allowed takes the missing data of a failed fetch for a permission.
Allowed_WithoutData(u, data) == data = "nil" \/ TestAgent(u, data)

\* Allowed, from the RobotsData of the origin.
Allowed(u, data) == IF data = "nil" THEN failOpen ELSE TestAgent(u, data)

\* ensureRobotsAllowed
EnsureAllowed(u, data) == respectRobots => Allowed(u, data)

\* Delay, from the RobotsData of the origin; only one with rules has a Crawl-delay.
Delay(o, data) ==
  IF data = "rules" THEN Larger(CrawlDelay[o], defaultDelay) ELSE defaultDelay

\* Mutant: Wait takes the difference without asking whether it is still ahead.
SleepFor_Unclamped(o, delay) == delay - since[o]

\* How long Wait sleeps: from now to last + delay.
SleepFor(o, delay) == IF delay > since[o] THEN delay - since[o] ELSE 0

\* c.lastFetch[host] = time.Now()
Stamp(o) == since' = [since EXCEPT ![o] = 0]

Older(age) == IF age < MaxDelay THEN age + 1 ELSE age

=============================================================================
