------------------------------- MODULE Worker -------------------------------
(***************************************************************************)
(* The goroutines of the worker pool (internal/worker/worker.go): claim a  *)
(* task, process it, settle it, try to close its job.  Every SQL statement *)
(* is an action of its own, because the other workers, the API and the     *)
(* cleanup loop act between any two of them.                               *)
(*                                                                         *)
(* A statement may fail before it takes effect or, where the difference    *)
(* matters, take effect and lose its reply.  The network and the pages it  *)
(* serves are external: Links, SitemapLinks and Redirect say what a page   *)
(* holds, and any fetch may fail.                                          *)
(***************************************************************************)
EXTENDS Store

CONSTANTS
  Workers,          \* goroutines, of one worker process or of several
  Links,            \* per URL, the canonical links filterLinks keeps of its page
  SitemapLinks,     \* per URL, those it keeps of the site's sitemaps
  Nofollow,         \* URLs of the pages with a robots meta of "nofollow"
  Redirect,         \* per URL, where a fetch of it ends
  MaxRetries,       \* worker.max_retries
  MaxTasks,         \* job_defaults.max_tasks; 0 means no cap
  IncludeSitemaps,  \* crawl.include_sitemaps
  RespectNofollow,  \* crawl.respect_nofollow
  HeartbeatsKeepUp, \* TRUE: no lease runs out while its worker is alive
  NoId

ASSUME PagesAssumption ==
  /\ Links \in [Urls -> SUBSET Urls]
  /\ SitemapLinks \in [Urls -> SUBSET Urls]
  /\ \A u \in Urls : \A v \in Links[u] \union SitemapLinks[u] : Canon[v] = v
  /\ \A u \in Urls : IsFiniteSet(Links[u] \union SitemapLinks[u])
  /\ Redirect \in [Urls -> Urls]
  /\ Nofollow \in SUBSET Urls

ASSUME ConfigAssumption ==
  /\ MaxRetries \in Nat
  /\ MaxTasks \in Nat
  /\ IncludeSitemaps \in BOOLEAN
  /\ RespectNofollow \in BOOLEAN
  /\ HeartbeatsKeepUp \in BOOLEAN
  /\ NoId \notin TaskIds

VARIABLE worker
\* pc       the statement the goroutine executes next
\* id, row  the Task that DequeueTask returned, never read again
\* bounded  the context carries the job's max_duration deadline
\* links    the links of the page
\* check    links the dedupe cache has not been asked about yet
\* todo     links still to be inserted as tasks
\* verdict  the status FinishJob is about to write

Idle ==
  [pc |-> "idle", id |-> NoId, row |-> NoTask, bounded |-> FALSE,
   links |-> {}, check |-> {}, todo |-> {}, verdict |-> "completed"]

\* The task is being handled: runWorker is inside handleTask or about to settle.
Handling ==
  {"getjob", "cancel", "start", "run", "fetch", "store", "mark", "expand",
   "filter", "insert", "ok", "err"}

\* The task is settled and the goroutine is inside FinishJob.
Closing == {"pending", "failed", "finish"}

WorkerState ==
  [pc      : {"idle"} \union Handling \union Closing,
   id      : TaskIds \union {NoId},
   row     : TaskRow,
   bounded : BOOLEAN,
   links   : SUBSET Urls,
   check   : SUBSET Urls,
   todo    : SUBSET Urls,
   verdict : Finished]

WorkerInit == worker = [w \in Workers |-> Idle]

WorkerTypeOK == worker \in [Workers -> WorkerState]

-----------------------------------------------------------------------------
At(w, pc) == worker[w].pc = pc
Become(w, state) == worker' = [worker EXCEPT ![w] = state]
Goto(w, pc) == Become(w, [worker[w] EXCEPT !.pc = pc])
Release(w) == Become(w, Idle)

JobOf(w) == worker[w].row.job
TypeOf(w) == Request[JobOf(w)].type

Overdue(j) == "max_duration" \in past[j]

\* The job's context is past its deadline: every statement it guards fails.
CtxDead(w) == worker[w].bounded /\ Overdue(JobOf(w))

\* How a statement issued with the job's context ends.
Succeeds(w) == ~CtxDead(w) /\ NoFault
Fails(w) == (CtxDead(w) /\ NoFault) \/ Fault

-----------------------------------------------------------------------------
\* DequeueTask: the claim and the snapshot of the row are one statement.
Claim(w, t) ==
  /\ At(w, "idle")
  /\ t \in Claimable(Cardinality(Workers))
  /\ tasks' = [tasks EXCEPT ![t] = ClaimedRow(t)]
  /\ Become(w, [Idle EXCEPT !.pc = "getjob", !.id = t, !.row = ClaimedRow(t)])
  /\ NoFault
  /\ UNCHANGED <<jobs, nextId, docs, mapped, seen, past>>

\* GetJob and the max_duration check on what it returned.
GetJob(w) ==
  LET j == JobOf(w) IN
  /\ At(w, "getjob")
  /\ \/ Goto(w, "err") /\ Fault
     \/ /\ Goto(w, IF ~JobExists(j) THEN "err"
                   ELSE IF Overdue(j) THEN "cancel"
                   ELSE IF jobs[j] = "queued" THEN "start"
                   ELSE "run")
        /\ NoFault
  /\ UNCHANGED <<tables, past>>

\* UpdateJobStatus(cancelled), its error dropped; handleTask then fails.
CancelOverdue(w) ==
  /\ At(w, "cancel")
  /\ Goto(w, "err")
  /\ \/ UpdateJobStatus(JobOf(w), "cancelled") /\ NoFault
     \/ UNCHANGED jobs /\ Fault
  /\ UNCHANGED <<tasks, nextId, docs, mapped, seen, past>>

\* StartJob on a status read by the previous statement, its error dropped.
StartQueued(w) ==
  /\ At(w, "start")
  /\ Goto(w, "run")
  /\ \/ StartJob(JobOf(w)) /\ NoFault
     \/ UNCHANGED jobs /\ Fault
  /\ UNCHANGED <<tasks, nextId, docs, mapped, seen, past>>

\* The context gets the deadline only if it still lies ahead.
Dispatch(w) ==
  /\ At(w, "run")
  /\ Become(w, [worker[w] EXCEPT !.pc = "fetch", !.bounded = ~Overdue(JobOf(w))])
  /\ NoFault
  /\ UNCHANGED <<tables, past>>

\* A batch or crawl task: robots check, crawl delay, host limiter and fetch, then
\* UpdateTaskFinalURL if the page was found elsewhere, its error dropped.
FetchPage(w) ==
  LET final == Canon[Redirect[worker[w].row.requested]] IN
  /\ At(w, "fetch")
  /\ TypeOf(w) # "map"
  /\ \/ Goto(w, "err") /\ UNCHANGED tasks /\ NoFault
     \/ /\ final # worker[w].row.final
        /\ Goto(w, "store")
        /\ \/ UpdateTaskFinalURL(worker[w].id, final) /\ Succeeds(w)
           \/ UNCHANGED tasks /\ Fails(w)
     \/ /\ final = worker[w].row.final
        /\ Goto(w, "store")
        /\ UNCHANGED tasks
        /\ Succeeds(w)
  /\ UNCHANGED <<jobs, nextId, docs, mapped, seen, past>>

\* A map task: the same checks and fetch, and extract; nothing is stored.
FetchMapPage(w) ==
  /\ At(w, "fetch")
  /\ TypeOf(w) = "map"
  /\ \/ Goto(w, "err") /\ NoFault
     \/ Goto(w, "expand") /\ Succeeds(w)
  /\ UNCHANGED <<tables, past>>

\* Mutant: a failed InsertDocument is only logged.
StoreDocument_ErrorDropped(w) ==
  /\ At(w, "store")
  /\ Goto(w, IF DedupeCache THEN "mark" ELSE "expand")
  /\ \/ JobExists(JobOf(w)) /\ InsertDocument(worker[w].id) /\ Succeeds(w)
     \/ UNCHANGED docs /\ Fails(w)
  /\ UNCHANGED <<jobs, tasks, nextId, mapped, seen, past>>

\* Extract, format, the max_bytes check, InsertDocument.
StoreDocument(w) ==
  /\ At(w, "store")
  /\ \/ /\ JobExists(JobOf(w))
        /\ InsertDocument(worker[w].id)
        /\ \/ Goto(w, IF DedupeCache THEN "mark" ELSE "expand") /\ Succeeds(w)
           \/ Goto(w, "err") /\ Fails(w)  \* stored, but the reply was lost
     \/ /\ Goto(w, "err")  \* unusable page, job gone, or statement failed
        /\ UNCHANGED docs
        /\ NoFault
  /\ UNCHANGED <<jobs, tasks, nextId, mapped, seen, past>>

\* Mutant: the URL that was asked for is marked, not the one fetched.
MarkSeen_Requested(w) ==
  /\ At(w, "mark")
  /\ Goto(w, "expand")
  /\ \/ MarkCanonical(Canon[worker[w].row.requested]) /\ Succeeds(w)
     \/ UNCHANGED seen /\ Fails(w)
  /\ UNCHANGED <<jobs, tasks, nextId, docs, mapped, past>>

\* MarkCanonical, its error dropped.
MarkSeen(w) ==
  /\ At(w, "mark")
  /\ Goto(w, "expand")
  /\ \/ MarkCanonical(Canon[Redirect[worker[w].row.requested]]) /\ Succeeds(w)
     \/ UNCHANGED seen /\ Fails(w)
  /\ UNCHANGED <<jobs, tasks, nextId, docs, mapped, past>>

-----------------------------------------------------------------------------
(* Links: the tails of processCrawlTask and processMapTask.                *)

\* Mutant: > instead of >=.
AtDepthLimit_OffByOne(w) == worker[w].row.depth > MaxDepth(JobOf(w))

AtDepthLimit(w) == worker[w].row.depth >= MaxDepth(JobOf(w))

\* Only fetchExtractAndStore, which a map task does not call, obeys nofollow.
PageLinks(w) ==
  IF RespectNofollow /\ TypeOf(w) = "crawl" /\ worker[w].row.requested \in Nofollow
  THEN {}
  ELSE Links[worker[w].row.requested]

UsesSitemaps(w) ==
  IncludeSitemaps /\ Request[JobOf(w)].include_sitemaps /\ worker[w].row.depth = 0

\* A batch task, and a page at the depth limit, are done; otherwise collectLinks.
\* A sitemap that cannot be fetched is skipped, with what it would have added.
Expand(w) ==
  /\ At(w, "expand")
  /\ \/ /\ TypeOf(w) = "batch_scrape" \/ AtDepthLimit(w)
        /\ Goto(w, "ok")
        /\ NoFault
     \/ /\ TypeOf(w) = "crawl" /\ Overdue(JobOf(w))  \* the task's own age
        /\ ~AtDepthLimit(w)
        /\ Goto(w, "err")
        /\ NoFault
     \/ \E sitemap \in IF UsesSitemaps(w)
                       THEN SUBSET SitemapLinks[worker[w].row.requested]
                       ELSE {{}} :
          LET found == PageLinks(w) \union sitemap IN
          /\ TypeOf(w) # "batch_scrape" /\ ~AtDepthLimit(w)
          /\ Become(w, [worker[w] EXCEPT
               !.pc = IF found = {} THEN "ok" ELSE "filter",
               !.links = found,
               !.check = IF DedupeCache THEN found ELSE {},
               !.todo = found])
          /\ NoFault
  /\ UNCHANGED <<tables, past>>

\* Mutant: a link the cache cannot be asked about counts as seen.
SkipSeen_ErrorSkips(w, u) ==
  /\ At(w, "filter")
  /\ u \in worker[w].check
  /\ \/ /\ Become(w, [worker[w] EXCEPT
             !.check = @ \ {u},
             !.todo = IF u \in seen THEN @ \ {u} ELSE @])
        /\ Succeeds(w)
     \/ /\ Become(w, [worker[w] EXCEPT !.check = @ \ {u}, !.todo = @ \ {u}])
        /\ Fails(w)
  /\ UNCHANGED <<tables, past>>

\* One ShouldSkipCanonical call of buildLinkTasks.
SkipSeen(w, u) ==
  /\ At(w, "filter")
  /\ u \in worker[w].check
  /\ \/ /\ Become(w, [worker[w] EXCEPT
             !.check = @ \ {u},
             !.todo = IF u \in seen THEN @ \ {u} ELSE @])
        /\ Succeeds(w)
     \/ Goto(w, "err") /\ Fails(w)
  /\ UNCHANGED <<tables, past>>

\* The links left of S under the cap, when the job had count tasks: the first
\* MaxTasks - count of them.
Capped(S, count) ==
  {T \in SUBSET S :
     Cardinality(T) = IF MaxTasks = 0 \/ count + Cardinality(S) <= MaxTasks
                      THEN Cardinality(S)
                      ELSE IF count < MaxTasks THEN MaxTasks - count ELSE 0}

\* TaskCount, asked only when there are tasks to cap.
CountTasks(w) ==
  LET fits == Capped(worker[w].todo, Cardinality(TasksOf(JobOf(w)))) IN
  /\ At(w, "filter")
  /\ worker[w].check = {}
  /\ \/ \E kept \in fits :
          /\ Become(w, [worker[w] EXCEPT
               !.pc = IF kept = {} /\ TypeOf(w) = "crawl" THEN "ok" ELSE "insert",
               !.todo = kept])
          /\ (MaxTasks > 0 /\ worker[w].todo # {}) => ~CtxDead(w)
          /\ NoFault
     \/ /\ MaxTasks > 0 /\ worker[w].todo # {}
        /\ Goto(w, "err")
        /\ Fails(w)
  /\ UNCHANGED <<tables, past>>

\* Mutant: a link is enqueued at the depth of its page.
InsertLink_SameDepth(w, u) ==
  /\ At(w, "insert")
  /\ TypeOf(w) = "crawl"
  /\ u \in worker[w].todo
  /\ InsertTasks(JobOf(w), {u}, worker[w].row.depth)
  /\ Become(w, [worker[w] EXCEPT
       !.pc = IF worker[w].todo = {u} THEN "ok" ELSE "insert",
       !.todo = @ \ {u}])
  /\ Succeeds(w)
  /\ UNCHANGED <<jobs, docs, mapped, seen, past>>

\* InsertTasks without a transaction: one autocommitted INSERT for each link.
InsertLink(w, u) ==
  /\ At(w, "insert")
  /\ TypeOf(w) = "crawl"
  /\ u \in worker[w].todo
  /\ \/ /\ JobExists(JobOf(w))
        /\ InsertTasks(JobOf(w), {u}, worker[w].row.depth + 1)
        /\ \/ /\ Become(w, [worker[w] EXCEPT
                   !.pc = IF worker[w].todo = {u} THEN "ok" ELSE "insert",
                   !.todo = @ \ {u}])
              /\ Succeeds(w)
           \/ Goto(w, "err") /\ Fails(w)  \* inserted, but the reply was lost
     \/ /\ UNCHANGED <<tasks, nextId>>    \* job gone or statement failed
        /\ Goto(w, "err")
        /\ \/ ~JobExists(JobOf(w)) /\ NoFault
           \/ Fails(w)
  /\ UNCHANGED <<jobs, docs, mapped, seen, past>>

\* Mutant: the mapped rows commit although the tasks failed.
InsertMap_TasksLost(w) ==
  /\ At(w, "insert")
  /\ TypeOf(w) = "map"
  /\ JobExists(JobOf(w))
  /\ InsertMappedBatch(worker[w].id, worker[w].links)
  /\ Goto(w, "ok")
  /\ \/ InsertTasks(JobOf(w), worker[w].todo, worker[w].row.depth + 1) /\ Succeeds(w)
     \/ UNCHANGED <<tasks, nextId>> /\ Fails(w)
  /\ UNCHANGED <<jobs, docs, seen, past>>

\* enqueueMapLinks: mapped rows and tasks in one transaction.
InsertMap(w) ==
  /\ At(w, "insert")
  /\ TypeOf(w) = "map"
  /\ \/ /\ JobExists(JobOf(w))
        /\ InsertMappedBatch(worker[w].id, worker[w].links)
        /\ InsertTasks(JobOf(w), worker[w].todo, worker[w].row.depth + 1)
        /\ \/ Goto(w, "ok") /\ Succeeds(w)
           \/ Goto(w, "err") /\ Fails(w)
     \/ /\ UNCHANGED <<tasks, nextId, mapped>>
        /\ Goto(w, "err")
        /\ \/ ~JobExists(JobOf(w)) /\ NoFault
           \/ Fails(w)
  /\ UNCHANGED <<jobs, docs, seen, past>>

-----------------------------------------------------------------------------
(* The tail of runWorker: settle the task, then FinishJob.                 *)

\* Mutant: <= instead of <.
shouldRetry_OneMore(attempts) == attempts <= MaxRetries

shouldRetry(attempts) == attempts < MaxRetries

\* Mutant: runWorker goes on to the next task after an error, without FinishJob.
Settle_NoFinishOnError(w) ==
  /\ worker[w].pc \in {"ok", "err"}
  /\ \/ /\ At(w, "ok") /\ CompleteTask(worker[w].id)
        /\ Goto(w, "pending") /\ NoFault
     \/ /\ At(w, "err") /\ Release(w) /\ NoFault
        /\ IF shouldRetry(worker[w].row.attempts) THEN RetryTask(worker[w].id)
                                                 ELSE FailTask(worker[w].id)
  /\ UNCHANGED <<jobs, nextId, docs, mapped, seen, past>>

\* CompleteTask, RetryTask or FailTask; a failure of theirs is only logged.
Settle(w) ==
  /\ worker[w].pc \in {"ok", "err"}
  /\ Goto(w, "pending")
  /\ \/ At(w, "ok") /\ CompleteTask(worker[w].id) /\ NoFault
     \/ /\ At(w, "err") /\ shouldRetry(worker[w].row.attempts)
        /\ RetryTask(worker[w].id) /\ NoFault
     \/ /\ At(w, "err") /\ ~shouldRetry(worker[w].row.attempts)
        /\ FailTask(worker[w].id) /\ NoFault
     \/ UNCHANGED tasks /\ Fault
  /\ UNCHANGED <<jobs, nextId, docs, mapped, seen, past>>

\* Mutant: the count leaves out tasks that are processing.
CheckPending_QueuedOnly(w) ==
  LET queued == {t \in TasksOf(JobOf(w)) : tasks[t].status = "queued"} IN
  /\ At(w, "pending")
  /\ \/ queued = {} /\ Goto(w, "failed") /\ NoFault
     \/ queued # {} /\ Release(w) /\ NoFault
     \/ Release(w) /\ Fault
  /\ UNCHANGED <<tables, past>>

\* PendingTaskCounts.
CheckPending(w) ==
  /\ At(w, "pending")
  /\ \/ Pending(JobOf(w)) = {} /\ Goto(w, "failed") /\ NoFault
     \/ Pending(JobOf(w)) # {} /\ Release(w) /\ NoFault
     \/ Release(w) /\ Fault
  /\ UNCHANGED <<tables, past>>

\* Mutant: the verdict looks at the worker's own task only.
CheckFailed_OwnTaskOnly(w) ==
  /\ At(w, "failed")
  /\ Become(w, [worker[w] EXCEPT
       !.pc = "finish",
       !.verdict = IF worker[w].id \notin Failed(JobOf(w))
                   THEN "completed" ELSE "completed_with_errors"])
  /\ NoFault
  /\ UNCHANGED <<tables, past>>

\* Mutant: a job with a failed task gets a status of its own.
CheckFailed_UnknownStatus(w) ==
  /\ At(w, "failed")
  /\ Become(w, [worker[w] EXCEPT
       !.pc = "finish",
       !.verdict = IF Failed(JobOf(w)) = {} THEN "completed" ELSE "failed"])
  /\ NoFault
  /\ UNCHANGED <<tables, past>>

\* HasFailedTasks.
CheckFailed(w) ==
  /\ At(w, "failed")
  /\ \/ /\ Become(w, [worker[w] EXCEPT
             !.pc = "finish",
             !.verdict = IF Failed(JobOf(w)) = {}
                         THEN "completed" ELSE "completed_with_errors"])
        /\ NoFault
     \/ Release(w) /\ Fault
  /\ UNCHANGED <<tables, past>>

\* The final UpdateJobStatus of FinishJob; the heartbeat stops.
FinishJob(w) ==
  /\ At(w, "finish")
  /\ Release(w)
  /\ \/ UpdateJobStatus(JobOf(w), worker[w].verdict) /\ NoFault
     \/ UNCHANGED jobs /\ Fault
  /\ UNCHANGED <<tasks, nextId, docs, mapped, seen, past>>

-----------------------------------------------------------------------------
\* heartbeatLoop, from the claim until FinishJob has returned.
Heartbeat(w) ==
  /\ ~At(w, "idle")
  /\ UpdateTaskHeartbeat(worker[w].id)
  /\ NoFault
  /\ UNCHANGED <<jobs, nextId, docs, mapped, seen, past, worker>>

\* The clock passes heartbeat_at + lease_timeout.
LeaseExpires(t) ==
  /\ tasks[t].status = "processing" /\ tasks[t].heartbeat = "fresh"
  /\ HeartbeatsKeepUp => \A w \in Workers : worker[w].id # t
  /\ tasks' = [tasks EXCEPT ![t].heartbeat = "stale"]
  /\ NoFault
  /\ UNCHANGED <<jobs, nextId, docs, mapped, seen, past, worker>>

\* The process is killed, panics or shuts down; a restarted goroutine is idle.
Crash(w) ==
  /\ ~At(w, "idle")
  /\ Release(w)
  /\ Fault
  /\ UNCHANGED <<tables, past>>

WorkerStep(w) ==
  \/ \E t \in TaskIds : Claim(w, t)
  \/ GetJob(w) \/ CancelOverdue(w) \/ StartQueued(w) \/ Dispatch(w)
  \/ FetchPage(w) \/ FetchMapPage(w) \/ StoreDocument(w) \/ MarkSeen(w)
  \/ Expand(w) \/ CountTasks(w) \/ InsertMap(w)
  \/ \E u \in Urls : SkipSeen(w, u) \/ InsertLink(w, u)
  \/ Settle(w) \/ CheckPending(w) \/ CheckFailed(w) \/ FinishJob(w)

=============================================================================
