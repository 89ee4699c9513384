--------------------------- MODULE FetchingProofs ---------------------------
(***************************************************************************)
(* The tokens of hostLimiter are accounted for, one worker keeps the crawl *)
(* delay, and robots.txt is obeyed, for any workers, hosts and limits.     *)
(***************************************************************************)
EXTENDS Fetching, FiniteSetTheorems, TLAPS

\* A channel never holds more than its capacity.
WithinCapacity == MaxConc > 0 => \A h \in Hosts : conc[h] <= MaxConc

LimiterInv == TypeOK /\ TokensMatch /\ WithinCapacity

-----------------------------------------------------------------------------
\* The host of a worker is one of the hosts, its origin one of the origins.
LEMMA HostType ==
  ASSUME TypeOK, NEW w \in Workers
  PROVE  /\ Host(w) \in Hosts /\ Origin(w) \in Origins
         /\ fetch[w].url \in Urls /\ fetch[w].left \in Nat
BY DEF TypeOK, Host, Hosts, Origin, Origins

\* Setting where a worker is, and its timer, keeps the type.
LEMMA FetchTyped ==
  ASSUME TypeOK, NEW w \in Workers, NEW pc \in PCs, NEW n \in Nat
  PROVE  [fetch EXCEPT ![w].pc = pc, ![w].left = n]
           \in [Workers -> [pc : PCs, url : Urls, left : Nat]]
BY DEF TypeOK

\* The delays are natural numbers.
LEMMA DelayType ==
  ASSUME NEW o \in Origins, NEW data
  PROVE  Delay(o, data) \in Nat
BY RobotsAssumption DEF Delay, Larger

\* Every step of one worker preserves the types.
LEMMA TypeStep ==
  ASSUME TypeOK, [Next]_fetchVars
  PROVE  TypeOK'
<1> USE DEF TypeOK, LimiterTypeOK, RobotsTypeOK
<1>1. CASE UNCHANGED fetchVars
  BY <1>1 DEF fetchVars
<1>2. CASE Tick
  <2>1. since' \in [Origins -> Nat]
    BY <1>2 DEF Tick, Older
  <2>2. \A w \in Workers : fetch'[w] \in [pc : PCs, url : Urls, left : Nat]
    BY <1>2 DEF Tick, At
  <2> QED
    BY <1>2, <2>1, <2>2 DEF Tick
<1>3. ASSUME NEW w \in Workers,
             (\E u \in Urls : Begin(w, u)) \/ WorkerStep(w) \/ Send(w) \/ Abort(w)
      PROVE  TypeOK'
  <2> USE HostType DEF GoTo
  <2>1. CASE \E u \in Urls : Begin(w, u)
    BY <2>1 DEF Begin, PCs
  <2>2. CASE AllowedStep(w)
    <3>1. ASSUME NEW data, CheckAllowed(w, data)
          PROVE  fetch' \in [Workers -> [pc : PCs, url : Urls, left : Nat]]
      <4>1. PICK pc \in {"delay", "idle"} : fetch' = [fetch EXCEPT ![w].pc = pc]
        BY <3>1 DEF CheckAllowed
      <4> QED
        BY <4>1 DEF PCs
    <3>2. cache' \in [Origins -> Data \union {"none"}]
      BY <2>2 DEF AllowedStep, CacheHit, CacheMiss, RobotsAnswer, StoreData
    <3>3. fetch' \in [Workers -> [pc : PCs, url : Urls, left : Nat]]
      BY <2>2, <3>1 DEF AllowedStep, CacheMiss, PCs
    <3> QED
      BY <2>2, <3>2, <3>3 DEF AllowedStep, CacheMiss, CheckAllowed
  <2>3. CASE DelayStep(w)
    <3>1. ASSUME NEW data, CheckDelay(w, data)
          PROVE  fetch' \in [Workers -> [pc : PCs, url : Urls, left : Nat]]
      <4>1. PICK d \in Nat : d = Delay(Origin(w), data)
        BY DelayType, HostType
      <4>2. PICK pc \in {"wait", "send"} :
              fetch' = [fetch EXCEPT ![w].pc = pc, ![w].left = d]
        BY <3>1, <4>1 DEF CheckDelay
      <4> QED
        BY <4>2, FetchTyped DEF PCs
    <3>2. fetch' \in [Workers -> [pc : PCs, url : Urls, left : Nat]]
      BY <2>3, <3>1 DEF DelayStep, CacheMiss, PCs
    <3>3. cache' \in [Origins -> Data \union {"none"}]
      BY <2>3 DEF DelayStep, CacheHit, CacheMiss, RobotsAnswer, StoreData
    <3> QED
      BY <2>3, <3>2, <3>3 DEF DelayStep, CacheMiss, CheckDelay
  <2>4. CASE ReadLast(w)
    <3>1. PICK n \in Nat : n = SleepFor(Origin(w), fetch[w].left)
      <4>1. since[Origin(w)] \in Nat /\ fetch[w].left \in Nat
        BY HostType
      <4> QED
        BY <4>1 DEF SleepFor
    <3>2. fetch' = [fetch EXCEPT ![w].pc = "sleep", ![w].left = n]
      BY <2>4, <3>1 DEF ReadLast
    <3>3. fetch' \in [Workers -> [pc : PCs, url : Urls, left : Nat]]
      BY <3>2, FetchTyped DEF PCs
    <3> QED
      BY <2>4, <3>3 DEF ReadLast
  <2>5. CASE WakeUp(w)
    BY <2>5 DEF WakeUp, Stamp, PCs
  <2>6. CASE Send(w)
    BY <2>6 DEF Send, SendToken, PCs
  <2>7. CASE RatePassed(w) \/ Sitemaps(w) \/ SitemapsReturn(w) \/ SleepAborted(w) \/ SendAborted(w)
    BY <2>7 DEF RatePassed, Sitemaps, SitemapsReturn, SleepAborted, SendAborted, PCs
  <2>8. CASE RateFailed(w)
    BY <2>8, LimiterAssumption DEF RateFailed, ReleaseToken, releaseConc, PCs
  <2>9. CASE FetchReturns(w)
    BY <2>9, LimiterAssumption DEF FetchReturns, ReleaseToken, releaseConc, PCs
  <2> QED
    BY <1>3, <2>1, <2>2, <2>3, <2>4, <2>5, <2>6, <2>7, <2>8, <2>9 DEF WorkerStep, Abort
<1> QED
  BY <1>1, <1>2, <1>3 DEF Next

-----------------------------------------------------------------------------
(* What a step does to the workers that hold a token.                      *)

\* A step that leaves everyone's token and host alone.
LEMMA QuietStep ==
  ASSUME TokensMatch, UNCHANGED conc,
         \A v \in Workers :
           /\ fetch'[v].pc \in {"rate", "fetch"} <=> fetch[v].pc \in {"rate", "fetch"}
           /\ fetch[v].pc \in {"rate", "fetch"} => fetch'[v].url = fetch[v].url
  PROVE  TokensMatch'
<1>1. \A h \in Hosts : Holding(h)' = Holding(h)
  BY DEF Holding, Host
<1> QED
  BY <1>1 DEF TokensMatch

\* A worker comes in with a token.
LEMMA TakesToken ==
  ASSUME TypeOK, TokensMatch, NEW w \in Workers, SendToken(Host(w)),
         fetch[w].pc = "send", NEW pc \in {"rate", "fetch"},
         fetch' = [fetch EXCEPT ![w].pc = pc]
  PROVE  TokensMatch'
<1> SUFFICES ASSUME MaxConc > 0, NEW h \in Hosts
             PROVE  conc'[h] = Cardinality(Holding(h))'
  BY DEF TokensMatch
<1>1. conc' = [conc EXCEPT ![Host(w)] = @ + 1] /\ conc \in [Hosts -> Nat]
  BY LimiterAssumption DEF SendToken, TypeOK, LimiterTypeOK
<1>2. Holding(h)' = IF h = Host(w) THEN Holding(h) \cup {w} ELSE Holding(h)
  BY DEF Holding, Host, TypeOK
<1>3. IsFiniteSet(Holding(h)) /\ w \notin Holding(h)
  BY FS_Subset, FetchingAssumption DEF Holding
<1>4. Cardinality(Holding(h) \cup {w}) = Cardinality(Holding(h)) + 1
  BY <1>3, FS_AddElement
<1> QED
  BY <1>1, <1>2, <1>4, HostType DEF TokensMatch

\* A worker leaves and its token with it.
LEMMA ReturnsToken ==
  ASSUME TypeOK, TokensMatch, NEW w \in Workers, ReleaseToken(Host(w)),
         fetch[w].pc \in {"rate", "fetch"}, NEW pc \in {"idle", "sitemaps"},
         fetch' = [fetch EXCEPT ![w].pc = pc]
  PROVE  TokensMatch'
<1> SUFFICES ASSUME MaxConc > 0, NEW h \in Hosts
             PROVE  conc'[h] = Cardinality(Holding(h))'
  BY DEF TokensMatch
<1>1. /\ conc' = [conc EXCEPT ![Host(w)] = IF @ > 0 THEN @ - 1 ELSE @]
      /\ conc \in [Hosts -> Nat]
  BY LimiterAssumption DEF ReleaseToken, releaseConc, TypeOK, LimiterTypeOK
<1>2. Holding(h)' = IF h = Host(w) THEN Holding(h) \ {w} ELSE Holding(h)
  BY DEF Holding, Host, TypeOK
<1>3. IsFiniteSet(Holding(h))
  BY FS_Subset, FetchingAssumption DEF Holding
<1>4. CASE h = Host(w)
  <2>1. w \in Holding(h)
    BY <1>4 DEF Holding
  <2>2. Cardinality(Holding(h) \ {w}) = Cardinality(Holding(h)) - 1
    BY <1>3, <2>1, FS_RemoveElement
  <2>3. Cardinality(Holding(h)) \in Nat /\ Cardinality(Holding(h)) # 0
    BY <1>3, <2>1, FS_CardinalityType, FS_EmptySet
  <2> QED
    BY <1>1, <1>2, <1>4, <2>2, <2>3 DEF TokensMatch
<1>5. CASE h # Host(w)
  BY <1>1, <1>2, <1>5 DEF TokensMatch
<1> QED
  BY <1>4, <1>5

-----------------------------------------------------------------------------
\* Every step preserves the invariant.
LEMMA LimiterStep ==
  ASSUME LimiterInv, [Next]_fetchVars
  PROVE  LimiterInv'
<1> USE DEF LimiterInv
<1>1. TypeOK'
  BY TypeStep
<1>2. CASE UNCHANGED fetchVars
  BY <1>1, <1>2, QuietStep DEF fetchVars, WithinCapacity
<1>3. CASE Tick
  <2>1. \A v \in Workers : fetch'[v].pc = fetch[v].pc /\ fetch'[v].url = fetch[v].url
    BY <1>3 DEF Tick, TypeOK
  <2>2. UNCHANGED conc
    BY <1>3 DEF Tick
  <2> QED
    BY <1>1, <2>1, <2>2, QuietStep DEF WithinCapacity
<1>4. ASSUME NEW w \in Workers,
             (\E u \in Urls : Begin(w, u)) \/ WorkerStep(w) \/ Send(w) \/ Abort(w)
      PROVE  LimiterInv'
  <2> USE DEF GoTo, At
  <2>1. CASE Send(w)
    <3>1. PICK pc \in {"rate", "fetch"} : fetch' = [fetch EXCEPT ![w].pc = pc]
      BY <2>1 DEF Send
    <3>2. TokensMatch'
      BY <2>1, <3>1, TakesToken DEF Send
    <3>3. WithinCapacity'
      BY <2>1, HostType, LimiterAssumption
      DEF Send, SendToken, WithinCapacity, TypeOK, LimiterTypeOK
    <3> QED
      BY <1>1, <3>2, <3>3
  <2>2. CASE RateFailed(w) \/ FetchReturns(w)
    <3>1. PICK pc \in {"idle", "sitemaps"} :
            fetch' = [fetch EXCEPT ![w].pc = pc]
      BY <2>2 DEF RateFailed, FetchReturns
    <3>2. ReleaseToken(Host(w)) /\ fetch[w].pc \in {"rate", "fetch"}
      BY <2>2 DEF RateFailed, FetchReturns
    <3>3. TokensMatch'
      BY <3>1, <3>2, ReturnsToken
    <3>4. WithinCapacity'
      BY <3>2, HostType, LimiterAssumption
      DEF ReleaseToken, releaseConc, WithinCapacity, TypeOK, LimiterTypeOK
    <3> QED
      BY <1>1, <3>3, <3>4
  <2>3. CASE (\E u \in Urls : Begin(w, u)) \/ AllowedStep(w) \/ DelayStep(w) \/ ReadLast(w)
             \/ WakeUp(w) \/ RatePassed(w) \/ Sitemaps(w) \/ SitemapsReturn(w)
             \/ SleepAborted(w) \/ SendAborted(w)
    <3>1. UNCHANGED conc
      BY <2>3 DEF Begin, AllowedStep, DelayStep, CacheHit, CacheMiss, CheckAllowed, CheckDelay,
                  ReadLast, WakeUp, RatePassed, Sitemaps, SitemapsReturn, SleepAborted, SendAborted
    <3>2. /\ \A v \in Workers : v # w => fetch'[v] = fetch[v]
          /\ fetch'[w].pc \in {"rate", "fetch"} <=> fetch[w].pc \in {"rate", "fetch"}
          /\ fetch[w].pc \in {"rate", "fetch"} => fetch'[w].url = fetch[w].url
      <4> USE DEF TypeOK
      <4>1. CASE (\E u \in Urls : Begin(w, u)) \/ ReadLast(w) \/ WakeUp(w)
        BY <4>1 DEF Begin, ReadLast, WakeUp
      <4>2. CASE AllowedStep(w)
        <5>1. /\ fetch[w].pc \in {"allowed", "allowedGet"}
              /\ \E pc \in {"allowedGet", "delay", "idle"} : fetch' = [fetch EXCEPT ![w].pc = pc]
          BY <4>2 DEF AllowedStep, CacheHit, CacheMiss, RobotsAnswer, CheckAllowed
        <5> QED
          BY <5>1
      <4>3. CASE DelayStep(w)
        <5>1. /\ fetch[w].pc \in {"delay", "delayGet"}
              /\ \E pc \in {"delayGet", "wait", "send"} :
                   \/ fetch' = [fetch EXCEPT ![w].pc = pc]
                   \/ \E left : fetch' = [fetch EXCEPT ![w].pc = pc, ![w].left = left]
          BY <4>3 DEF DelayStep, CacheHit, CacheMiss, RobotsAnswer, CheckDelay
        <5> QED
          BY <5>1
      <4>4. CASE RatePassed(w) \/ Sitemaps(w) \/ SitemapsReturn(w)
                 \/ SleepAborted(w) \/ SendAborted(w)
        BY <4>4 DEF RatePassed, Sitemaps, SitemapsReturn, SleepAborted, SendAborted
      <4> QED
        BY <2>3, <4>1, <4>2, <4>3, <4>4
    <3>3. TokensMatch'
      BY <3>1, <3>2, QuietStep
    <3> QED
      BY <1>1, <3>1, <3>2, <3>3 DEF WithinCapacity
  <2> QED
    BY <1>4, <2>1, <2>2, <2>3 DEF WorkerStep, Abort
<1> QED
  BY <1>2, <1>3, <1>4 DEF Next

\* Before the first task the channels are empty and nobody holds a token.
LEMMA LimiterInitially ==
  ASSUME Init
  PROVE  LimiterInv
<1>1. TypeOK
  BY RobotsAssumption DEF Init, TypeOK, LimiterInit, RobotsInit, LimiterTypeOK, RobotsTypeOK, PCs
<1>2. \A h \in Hosts : Holding(h) = {}
  BY DEF Init, Holding
<1>3. TokensMatch
  BY <1>2, FS_EmptySet DEF TokensMatch, Init, LimiterInit
<1> QED
  BY <1>1, <1>3, LimiterAssumption
  DEF LimiterInv, WithinCapacity, Init, LimiterInit

\* limiter.go, robots.go: whatever path a worker takes through limiter, robots client and
\* request, its state and theirs stay in their types: no release takes a token that is not
\* there.
THEOREM LimiterTypes == Spec => []TypeOK
<1>1. Init => TypeOK
  BY LimiterInitially DEF LimiterInv
<1>2. TypeOK /\ [Next]_fetchVars => TypeOK'
  BY TypeStep
<1> QED
  BY <1>1, <1>2, PTL DEF Spec

\* limiter.go: acquire and the release it returns keep one token in the channel of
\* a host for every worker on its way through fetchWithLimit, and never more than
\* per_host_limit, for any number of workers and hosts.
THEOREM TokensAreAccountedFor == Spec => []TokensMatch
<1>1. Init => LimiterInv
  BY LimiterInitially
<1>2. LimiterInv /\ [Next]_fetchVars => LimiterInv'
  BY LimiterStep
<1>3. LimiterInv => TokensMatch
  BY DEF LimiterInv
<1> QED
  BY <1>1, <1>2, <1>3, PTL DEF Spec

\* worker.go: per_host_limit bounds the requests that fetchWithLimit makes to any
\* host at a time.
THEOREM RequestsAreBounded == Spec => []HostConcurrency
<1>1. Init => LimiterInv
  BY LimiterInitially
<1>2. LimiterInv /\ [Next]_fetchVars => LimiterInv'
  BY LimiterStep
<1>3. LimiterInv => HostConcurrency
  <2> SUFFICES ASSUME LimiterInv, MaxConc > 0, NEW h \in Hosts
               PROVE  Cardinality(InFlight(h)) <= MaxConc
    BY DEF HostConcurrency
  <2>1. InFlight(h) \subseteq Holding(h)
    BY DEF InFlight, Holding, At
  <2>2. IsFiniteSet(Holding(h))
    BY FS_Subset, FetchingAssumption DEF Holding
  <2>3. /\ Cardinality(InFlight(h)) <= Cardinality(Holding(h))
        /\ Cardinality(InFlight(h)) \in Nat /\ Cardinality(Holding(h)) \in Nat
    BY <2>1, <2>2, FS_Subset, FS_CardinalityType
  <2>4. Cardinality(Holding(h)) <= MaxConc
    BY DEF LimiterInv, TokensMatch, WithinCapacity
  <2> QED
    BY <2>3, <2>4, LimiterAssumption
<1> QED
  BY <1>1, <1>2, <1>3, PTL DEF Spec

-----------------------------------------------------------------------------
(* The crawl delay of a single worker.                                     *)

\* Between reading lastFetch and writing it, the age of lastFetch and what is left
\* of the timer add up to the delay in force for the host, at least.
DelayInv ==
  /\ TypeOK
  /\ \A o \in Origins : since[o] <= MaxDelay
  /\ \A w \in Workers :
       LET delay == Delay(Origin(w), cache[Origin(w)])
       IN  /\ At(w, "wait") => fetch[w].left = delay
           /\ At(w, "sleep") => since[Origin(w)] + fetch[w].left >= delay

\* A delay is never longer than the age at which lastFetch stops to count.
LEMMA DelayWithinMax ==
  ASSUME NEW o \in Origins, NEW data
  PROVE  Delay(o, data) \in Nat /\ Delay(o, data) <= MaxDelay
BY RobotsAssumption DEF Delay, Larger

\* A single worker has the cache and lastFetch to itself.
LEMMA DelayStepKept ==
  ASSUME NEW w \in Workers, Workers = {w}, DelayInv, [Next]_fetchVars
  PROVE  DelayInv'
<1> USE DEF DelayInv
<1>1. TypeOK'
  BY TypeStep
<1> DEFINE delay == Delay(Origin(w), cache[Origin(w)])
<1> SUFFICES /\ \A o \in Origins : since'[o] <= MaxDelay
             /\ At(w, "wait")' => fetch'[w].left = delay'
             /\ At(w, "sleep")' => since'[Origin(w)'] + fetch'[w].left >= delay'
  BY <1>1
<1>2. /\ Origin(w) \in Origins /\ since[Origin(w)] \in Nat /\ fetch[w].left \in Nat
      /\ delay \in Nat /\ delay <= MaxDelay /\ MaxDelay \in Nat
  BY HostType, DelayWithinMax, RobotsAssumption DEF TypeOK, RobotsTypeOK
<1>3. CASE UNCHANGED fetchVars
  BY <1>3 DEF fetchVars, At, Origin
<1>4. CASE Tick
  <2>1. \A o \in Origins : since'[o] = Older(since[o]) /\ since[o] \in Nat
    BY <1>4 DEF Tick, TypeOK, RobotsTypeOK
  <2>2. \A o \in Origins : since'[o] <= MaxDelay
    BY <2>1, <1>2 DEF Older
  <2>3. /\ fetch'[w].pc = fetch[w].pc /\ fetch'[w].url = fetch[w].url
        /\ ~At(w, "sleep") => fetch'[w].left = fetch[w].left
        /\ At(w, "sleep") => fetch'[w].left = IF fetch[w].left > 0 THEN fetch[w].left - 1
                                              ELSE fetch[w].left
    BY <1>4 DEF Tick, At, TypeOK
  <2>4. UNCHANGED cache
    BY <1>4 DEF Tick
  <2>5. Origin(w)' = Origin(w) /\ delay' = delay
    BY <2>3, <2>4 DEF Origin, Delay
  <2>6. At(w, "wait")' => fetch'[w].left = delay'
    BY <2>3, <2>5 DEF At
  <2>7. ASSUME At(w, "sleep")'
        PROVE  since'[Origin(w)'] + fetch'[w].left >= delay'
    <3>1. since[Origin(w)] + fetch[w].left >= delay
      BY <2>7, <2>3 DEF At
    <3> QED
      BY <3>1, <2>1, <2>3, <2>5, <2>7, <1>2 DEF Older, At
  <2> QED
    BY <2>2, <2>6, <2>7
<1>5. ASSUME (\E u \in Urls : Begin(w, u)) \/ WorkerStep(w) \/ Send(w) \/ Abort(w)
      PROVE  /\ \A o \in Origins : since'[o] <= MaxDelay
             /\ At(w, "wait")' => fetch'[w].left = delay'
             /\ At(w, "sleep")' => since'[Origin(w)'] + fetch'[w].left >= delay'
  <2> USE DEF GoTo, At
  <2>1. CASE ReadLast(w)
    <3>1. /\ fetch'[w].pc = "sleep" /\ fetch'[w].url = fetch[w].url
          /\ fetch'[w].left = SleepFor(Origin(w), fetch[w].left)
          /\ UNCHANGED <<cache, since>>
      BY <2>1 DEF ReadLast, TypeOK
    <3>2. Origin(w)' = Origin(w) /\ delay' = delay /\ fetch[w].left = delay
      BY <2>1, <3>1 DEF ReadLast, Origin, Delay
    <3> QED
      BY <3>1, <3>2, <1>2 DEF SleepFor
  <2>2. CASE DelayStep(w)
    <3>1. ASSUME NEW data, CheckDelay(w, data), cache'[Origin(w)] = data
          PROVE  /\ fetch'[w].pc # "sleep"
                 /\ fetch'[w].left = delay'
                 /\ UNCHANGED since
      <4>1. /\ fetch'[w].left = Delay(Origin(w), data) /\ fetch'[w].url = fetch[w].url
            /\ fetch'[w].pc \in {"wait", "send"} /\ UNCHANGED since
        BY <3>1 DEF CheckDelay, TypeOK
      <4> QED
        BY <4>1, <3>1 DEF Origin
    <3>2. CASE CacheHit(w, "delay") /\ CheckDelay(w, cache[Origin(w)])
      BY <3>1, <3>2 DEF CacheHit
    <3>3. CASE CacheMiss(w, "delay", "delayGet")
      BY <3>3 DEF CacheMiss, TypeOK
    <3>4. CASE \E data \in Data :
                 RobotsAnswer(w, "delayGet", data) /\ CheckDelay(w, data)
      <4>1. PICK data \in Data :
              RobotsAnswer(w, "delayGet", data) /\ CheckDelay(w, data)
        BY <3>4
      <4>2. cache'[Origin(w)] = data
        BY <4>1, <1>2 DEF RobotsAnswer, StoreData, TypeOK, RobotsTypeOK
      <4> QED
        BY <4>1, <4>2, <3>1
    <3> QED
      BY <2>2, <3>2, <3>3, <3>4 DEF DelayStep
  <2>3. CASE WakeUp(w)
    BY <2>3, <1>2 DEF WakeUp, Stamp, TypeOK, RobotsTypeOK
  <2>4. CASE \E u \in Urls : Begin(w, u)
    BY <2>4 DEF Begin, TypeOK
  <2>5. CASE AllowedStep(w)
    BY <2>5 DEF AllowedStep, CacheHit, CacheMiss, RobotsAnswer, CheckAllowed, TypeOK
  <2>6. CASE RatePassed(w) \/ FetchReturns(w) \/ Sitemaps(w) \/ SitemapsReturn(w)
             \/ Send(w) \/ Abort(w)
    BY <2>6 DEF RatePassed, FetchReturns, Sitemaps, SitemapsReturn, Send, Abort,
                SleepAborted, SendAborted, RateFailed, TypeOK
  <2> QED
    BY <1>5, <2>1, <2>2, <2>3, <2>4, <2>5, <2>6 DEF WorkerStep
<1> QED
  BY <1>3, <1>4, <1>5 DEF Next

\* robots.go: a process with one worker keeps the crawl delay of every host, whatever
\* its robots.txt says and however its fetch ends.  (Two workers break it.)
THEOREM OneWorkerKeepsDelay ==
  ASSUME NEW w \in Workers, Workers = {w}
  PROVE  Spec => CrawlDelayKept
<1>1. Init => DelayInv
  <2> SUFFICES ASSUME Init PROVE DelayInv
    OBVIOUS
  <2>1. TypeOK
    BY LimiterInitially DEF LimiterInv
  <2> QED
    BY <2>1, RobotsAssumption DEF DelayInv, Init, RobotsInit, At
<1>2. DelayInv /\ [Next]_fetchVars => DelayInv'
  BY DelayStepKept
<1>3. DelayInv /\ [Next]_fetchVars =>
        [\A o \in Origins :
           since[o] < Delay(o, cache[o]) => since'[o] >= since[o]]_fetchVars
  <2> SUFFICES ASSUME DelayInv, Next, NEW o \in Origins, since[o] < Delay(o, cache[o])
               PROVE  since'[o] >= since[o]
    OBVIOUS
  <2> USE DEF DelayInv
  <2>1. since[o] \in Nat
    BY DEF TypeOK, RobotsTypeOK
  <2>2. CASE Tick
    BY <2>1, <2>2, RobotsAssumption DEF Tick, Older, TypeOK, RobotsTypeOK
  <2>3. CASE WakeUp(w)
    <3>1. since[Origin(w)] \in Nat /\ Delay(Origin(w), cache[Origin(w)]) \in Nat
      BY HostType, DelayWithinMax DEF TypeOK, RobotsTypeOK
    <3>2. since[Origin(w)] >= Delay(Origin(w), cache[Origin(w)])
      BY <2>3, <3>1 DEF WakeUp
    <3>3. o # Origin(w)
      BY <3>1, <3>2, <2>1
    <3> QED
      BY <2>1, <2>3, <3>3 DEF WakeUp, Stamp, TypeOK, RobotsTypeOK
  <2>4. CASE UNCHANGED since
    BY <2>1, <2>4
  <2>5. Tick \/ WakeUp(w) \/ UNCHANGED since
    BY DEF Next, Begin, WorkerStep, AllowedStep, DelayStep, CacheHit, CacheMiss, CheckAllowed,
           CheckDelay, ReadLast, RatePassed, FetchReturns, Sitemaps, SitemapsReturn, Send,
           Abort, SleepAborted, SendAborted, RateFailed
  <2> QED
    BY <2>2, <2>3, <2>4, <2>5
<1> QED
  BY <1>1, <1>2, <1>3, PTL DEF Spec, CrawlDelayKept

-----------------------------------------------------------------------------
(* What robots.txt forbids.                                                *)

\* Where a worker is once ensureRobotsAllowed has let its task through.
Admitted == {"delay", "delayGet", "wait", "sleep", "send", "rate", "fetch"}

\* One of the answers its origin may give allows the URL.
Permitted(u) == \E data \in Answers[OriginOf[u]] : Allowed(u, data)

\* The cache has answers of the origins only.
CacheInv == \A o \in Origins : cache[o] # "none" => cache[o] \in Answers[o]

\* What passed ensureRobotsAllowed stays allowed: only a new task brings a new URL.
RobotsInv ==
  /\ TypeOK
  /\ CacheInv
  /\ respectRobots =>
       \A w \in Workers : fetch[w].pc \in Admitted => Permitted(fetch[w].url)

\* The worker goes on with its URL, and no other one moves.
OnlyMoves(w) == /\ fetch'[w].url = fetch[w].url
                /\ \A v \in Workers : v # w => fetch'[v] = fetch[v]

\* An entry is what a request for the robots.txt of its origin ended in.
LEMMA CacheStep ==
  ASSUME TypeOK, CacheInv, [Next]_fetchVars
  PROVE  CacheInv'
<1>1. ASSUME NEW w \in Workers, NEW data \in Answers[Origin(w)], StoreData(Origin(w), data)
      PROVE  CacheInv'
  <2>1. cache' = [cache EXCEPT ![Origin(w)] = data] /\ cache \in [Origins -> Data \union {"none"}]
    BY <1>1 DEF StoreData, TypeOK, RobotsTypeOK
  <2> QED
    BY <2>1 DEF CacheInv
<1>2. CASE UNCHANGED cache
  BY <1>2 DEF CacheInv
<1>3. \/ UNCHANGED cache
      \/ \E w \in Workers : \E data \in Answers[Origin(w)] : StoreData(Origin(w), data)
  BY DEF Next, fetchVars, Tick, Begin, WorkerStep, AllowedStep, DelayStep, CacheHit, CacheMiss,
         RobotsAnswer, CheckAllowed, CheckDelay, ReadLast, WakeUp, RatePassed, FetchReturns,
         Sitemaps, SitemapsReturn, Send, Abort, SleepAborted, SendAborted, RateFailed
<1> QED
  BY <1>1, <1>2, <1>3

\* ensureRobotsAllowed is the only way in, with whichever data the client got.
LEMMA RobotsStep ==
  ASSUME RobotsInv, [Next]_fetchVars
  PROVE  RobotsInv'
<1>1. TypeOK'
  BY TypeStep DEF RobotsInv
<1>2. UNCHANGED respectRobots
  BY DEF Next, fetchVars, Tick, Begin, WorkerStep, AllowedStep, DelayStep, CacheMiss,
         CheckAllowed, CheckDelay, ReadLast, WakeUp, RatePassed, FetchReturns, Sitemaps,
         SitemapsReturn, Send, Abort, SleepAborted, SendAborted, RateFailed
<1> SUFFICES ASSUME respectRobots, NEW v \in Workers, fetch'[v].pc \in Admitted
             PROVE  Permitted(fetch'[v].url)
  <2>1. CacheInv'
    BY CacheStep DEF RobotsInv
  <2> QED
    BY <1>1, <1>2, <2>1 DEF RobotsInv
<1>3. ASSUME fetch'[v].url = fetch[v].url, fetch[v].pc \in Admitted
      PROVE  Permitted(fetch'[v].url)
  BY <1>3 DEF RobotsInv
<1>4. CASE UNCHANGED fetchVars
  BY <1>3, <1>4 DEF fetchVars
<1>5. CASE Tick
  <2>1. fetch'[v].pc = fetch[v].pc /\ fetch'[v].url = fetch[v].url
    BY <1>5 DEF Tick, RobotsInv, TypeOK
  <2> QED
    BY <2>1, <1>3
<1>6. ASSUME NEW w \in Workers,
             (\E u \in Urls : Begin(w, u)) \/ WorkerStep(w) \/ Send(w) \/ Abort(w)
      PROVE  Permitted(fetch'[v].url)
  <2> USE DEF GoTo, At
  <2>0. fetch \in [Workers -> [pc : PCs, url : Urls, left : Nat]]
    BY DEF RobotsInv, TypeOK
  <2>1. CASE \E u \in Urls : Begin(w, u)
    <3>1. PICK u \in Urls : Begin(w, u)
      BY <2>1
    <3>2. v # w
      BY <2>0, <3>1 DEF Begin, Admitted
    <3> QED
      BY <2>0, <1>3, <3>1, <3>2 DEF Begin
  <2>2. CASE AllowedStep(w)
    <3>1. ASSUME NEW data \in Answers[Origin(w)], CheckAllowed(w, data),
                 fetch[w].pc \in {"allowed", "allowedGet"}
          PROVE  Permitted(fetch'[v].url)
      <4>1. CASE v = w
        <5>1. EnsureAllowed(fetch[w].url, data) /\ fetch'[w].url = fetch[w].url
          BY <2>0, <3>1, <4>1 DEF CheckAllowed, Admitted
        <5> QED
          BY <2>0, <4>1, <5>1 DEF EnsureAllowed, Permitted, Origin
      <4>2. CASE v # w
        BY <2>0, <1>3, <3>1, <4>2 DEF CheckAllowed
      <4> QED
        BY <4>1, <4>2
    <3>2. CASE CacheMiss(w, "allowed", "allowedGet")
      BY <2>0, <1>3, <3>2 DEF CacheMiss, Admitted
    <3>3. CASE CacheHit(w, "allowed") /\ CheckAllowed(w, cache[Origin(w)])
      <4>1. cache[Origin(w)] \in Answers[Origin(w)]
        BY <3>3, HostType DEF CacheHit, RobotsInv, CacheInv
      <4> QED
        BY <3>1, <3>3, <4>1 DEF CacheHit
    <3>4. CASE \E data \in Data : RobotsAnswer(w, "allowedGet", data) /\ CheckAllowed(w, data)
      BY <3>1, <3>4 DEF RobotsAnswer
    <3> QED
      BY <2>2, <3>2, <3>3, <3>4 DEF AllowedStep
  <2>3. CASE DelayStep(w)
    <3>1. ASSUME NEW data, CheckDelay(w, data), fetch[w].pc \in {"delay", "delayGet"}
          PROVE  fetch[w].pc \in Admitted /\ OnlyMoves(w)
      BY <2>0, <3>1 DEF CheckDelay, Admitted, OnlyMoves
    <3>2. ASSUME CacheMiss(w, "delay", "delayGet")
          PROVE  fetch[w].pc \in Admitted /\ OnlyMoves(w)
      BY <2>0, <3>2 DEF CacheMiss, Admitted, OnlyMoves
    <3>3. fetch[w].pc \in Admitted /\ OnlyMoves(w)
      BY <2>3, <3>1, <3>2 DEF DelayStep, CacheHit, RobotsAnswer
    <3> QED
      BY <1>3, <3>3 DEF OnlyMoves
  <2>4. CASE ReadLast(w) \/ WakeUp(w) \/ RatePassed(w) \/ Send(w)
    <3>1. fetch[w].pc \in Admitted
      BY <2>4 DEF ReadLast, WakeUp, RatePassed, Send, Admitted
    <3>2. OnlyMoves(w)
      BY <2>0, <2>4 DEF ReadLast, WakeUp, RatePassed, Send, OnlyMoves
    <3> QED
      BY <1>3, <3>1, <3>2 DEF OnlyMoves
  <2>5. CASE FetchReturns(w) \/ Sitemaps(w) \/ SitemapsReturn(w) \/ Abort(w)
    <3>1. /\ fetch'[w].pc \notin Admitted
          /\ \A x \in Workers : x # w => fetch'[x] = fetch[x]
      BY <2>0, <2>5 DEF FetchReturns, Sitemaps, SitemapsReturn, Abort, SleepAborted, SendAborted,
                  RateFailed, Admitted
    <3> QED
      BY <1>3, <3>1
  <2> QED
    BY <1>6, <2>1, <2>2, <2>3, <2>4, <2>5 DEF WorkerStep
<1> QED
  BY <1>4, <1>5, <1>6 DEF Next

\* worker.go, ensureRobotsAllowed: where robots.txt is respected, no page that every answer
\* its origin gives forbids (by a rule TestAgent can match, a failing server, or the lack of
\* an answer) is requested, for any workers and sites, whatever the workers put into the
\* cache of the client between each other's lookups.
THEOREM ForbiddenIsNotFetched == Spec => []RobotsObeyed
<1>1. Init => RobotsInv
  <2> SUFFICES ASSUME Init PROVE RobotsInv
    OBVIOUS
  <2>1. TypeOK
    BY LimiterInitially DEF LimiterInv
  <2> QED
    BY <2>1 DEF RobotsInv, CacheInv, Init, RobotsInit, Admitted
<1>2. RobotsInv /\ [Next]_fetchVars => RobotsInv'
  BY RobotsStep
<1>3. RobotsInv => RobotsObeyed
  BY DEF RobotsInv, RobotsObeyed, Permitted, Allowed, Origin, At, Admitted
<1> QED
  BY <1>1, <1>2, <1>3, PTL DEF Spec

=============================================================================
