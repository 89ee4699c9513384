------------------------------ MODULE Crawler ------------------------------
(***************************************************************************)
(* The whole service: API, worker pool and cleanup loops around one        *)
(* database, and what must hold of them together.                          *)
(***************************************************************************)
EXTENDS Api, Worker, Cleanup

vars == <<storeVars, request, worker, sweep>>

Init == StoreInit /\ ApiInit /\ WorkerInit /\ CleanupInit

Next ==
  \/ \E j \in Jobs : ApiStep(j) /\ UNCHANGED <<worker, sweep>>
  \/ \E w \in Workers :
       (WorkerStep(w) \/ Heartbeat(w) \/ Crash(w)) /\ UNCHANGED <<request, sweep>>
  \/ \E t \in TaskIds : LeaseExpires(t) /\ UNCHANGED <<request, sweep>>
  \/ \E s \in Sweepers : SweepStep(s) /\ UNCHANGED <<request, worker>>
  \/ \E j \in Jobs : \E l \in Limits :
       LimitPasses(j, l) /\ UNCHANGED <<request, worker, sweep>>

Spec == Init /\ [][Next]_vars

\* Goroutines that are not killed run on, the clock runs past every lease nobody
\* renews, and the ticker of a cleanup loop fires again.  Nobody has to post a job,
\* and no limit has to pass.
Fairness ==
  /\ \A w \in Workers : WF_vars(WorkerStep(w) /\ UNCHANGED <<request, sweep>>)
  /\ WF_vars(\E t \in TaskIds : LeaseExpires(t) /\ UNCHANGED <<request, sweep>>)
  /\ \A s \in Sweepers : WF_vars(SweepStep(s) /\ UNCHANGED <<request, worker>>)
  /\ \A j \in Jobs : WF_vars(/\ request[j].pc # "idle"
                             /\ ApiStep(j)
                             /\ UNCHANGED <<worker, sweep>>)

FairSpec == Spec /\ Fairness

TypeOK == StoreTypeOK /\ ApiTypeOK /\ WorkerTypeOK /\ CleanupTypeOK

-----------------------------------------------------------------------------
(* Jobs and tasks.                                                         *)

\* A job FinishJob has closed has no queued or processing task: the counts it
\* read were still true when its last statement wrote the status.
FinishedIsDrained ==
  \A j \in Jobs : jobs[j] \in Finished => Pending(j) = {}

\* The status of a closed job tells whether one of its tasks failed, although
\* FinishJob reads that in a statement of its own.
VerdictIsTrue ==
  \A j \in Jobs : /\ jobs[j] = "completed" => Failed(j) = {}
                  /\ jobs[j] = "completed_with_errors" => Failed(j) # {}

\* No two workers handle the same task at the same time, through claims, crashes,
\* lost leases and retries.
ExclusiveClaim ==
  \A v, w \in Workers :
    (v # w /\ worker[v].pc \in Handling /\ worker[w].pc \in Handling)
      => worker[v].id # worker[w].id

\* A task fails exactly when it has used its first run and all of its retries,
\* although runWorker decides on the attempts it saw when it claimed the task.
RetryBudget ==
  \A t \in TaskIds :
    /\ tasks[t].attempts <= MaxRetries + 1
    /\ tasks[t].status = "failed" <=> tasks[t].attempts = MaxRetries + 1

\* A task is given up only after all of its retries, whoever else held it.
FailedOnlyAfterRetries ==
  \A t \in TaskIds : tasks[t].status = "failed" => tasks[t].attempts > MaxRetries

\* A done task of a batch or crawl job has a document.
DoneHasDocument ==
  \A t \in TaskIds :
    (tasks[t].status = "done" /\ Request[tasks[t].job].type # "map") => docs[t] > 0

\* Rows whose job is gone are gone too, and no late statement of a worker brings
\* one back.
NoOrphans ==
  \A t \in TaskIds :
    IF TaskExists(t) THEN JobExists(tasks[t].job)
                     ELSE docs[t] = 0 /\ mapped[t] = {}

-----------------------------------------------------------------------------
(* Why: the invariant that every single statement preserves.               *)

\* A row is empty or complete, below the id sequence, and its job exists.
RowsOK ==
  \A t \in TaskIds :
    \/ tasks[t] = NoTask
    \/ /\ TaskExists(t) /\ t < nextId
       /\ tasks[t].job \in Jobs /\ JobExists(tasks[t].job)
       /\ tasks[t].requested \in Urls

\* The job a request is about to create is not there yet.
RequestsOK ==
  \A j \in Jobs : request[j].pc \in {"idle", "check"} => jobs[j] = "absent"

\* The snapshot a worker carries still names the row it came from, or that row
\* was deleted and its id is never used again.
SnapshotOK(w) ==
  /\ worker[w].id \in TaskIds
  /\ worker[w].id < nextId
  /\ JobOf(w) \in Jobs /\ jobs[JobOf(w)] # "absent"
  /\ worker[w].row.requested \in Urls
  /\ IF JobExists(JobOf(w)) THEN tasks[worker[w].id].job = JobOf(w)
                            ELSE tasks[worker[w].id] = NoTask

SnapshotsOK == \A w \in Workers : ~At(w, "idle") => SnapshotOK(w)

\* A worker that handles a task holds its lease and knows its attempts.
LeaseHeld(w) ==
  /\ tasks[worker[w].id].status = "processing"
  /\ tasks[worker[w].id].heartbeat = "fresh"
  /\ tasks[worker[w].id].attempts = worker[w].row.attempts

LeasesHeld ==
  \A w \in Workers :
    (worker[w].pc \in Handling /\ JobExists(JobOf(w))) => LeaseHeld(w)

\* What FinishJob has read is still true when it takes its next step.
ReadsStillTrue ==
  \A w \in Workers :
    /\ worker[w].pc \in {"failed", "finish"} => Pending(JobOf(w)) = {}
    /\ (At(w, "finish") /\ JobExists(JobOf(w))) =>
         (worker[w].verdict = "completed" <=> Failed(JobOf(w)) = {})

Structure == RowsOK /\ RequestsOK /\ SnapshotsOK

\* The inductive invariant, for the case that heartbeats keep up: the claims of
\* the workers, the attempts they remember and the counts FinishJob has read all
\* agree with the tables between any two statements.
ClaimInv ==
  /\ Structure /\ LeasesHeld /\ ExclusiveClaim /\ ReadsStillTrue
  /\ FinishedIsDrained /\ VerdictIsTrue /\ RetryBudget

-----------------------------------------------------------------------------
(* Links.                                                                  *)

\* The job has a row that stands for u: one that asked for it, or one that was
\* redirected to it.
HasTaskFor(j, u) ==
  \E t \in TasksOf(j) : Canon[tasks[t].requested] = u \/ tasks[t].final = u

Followed(t) ==
  IF RespectNofollow /\ tasks[t].requested \in Nofollow
     /\ Request[tasks[t].job].type = "crawl"
  THEN {} ELSE Links[tasks[t].requested]

Expanded(t, limit) ==
  /\ tasks[t].status = "done"
  /\ Request[tasks[t].job].type # "batch_scrape"
  /\ tasks[t].depth < limit

\* Once a page above the depth limit is done, each of its links has a task, or is
\* in the dedupe cache, or the links of the page did not all fit under the cap,
\* those counted that have a task already: no failed insert, crash, retry or
\* reclaimed lease loses one.  A map job has also reported each of them.
DoneCoversLinks ==
  \A t \in TaskIds : Expanded(t, MaxDepth(tasks[t].job)) =>
    /\ \A u \in Followed(t) :
         \/ HasTaskFor(tasks[t].job, u)
         \/ DedupeCache /\ u \in seen
         \/ MaxTasks > 0 /\ Cardinality(TasksOf(tasks[t].job)) +
                             Cardinality(Links[tasks[t].requested]
                               \union SitemapLinks[tasks[t].requested]) > MaxTasks
    /\ Request[tasks[t].job].type = "map" => Links[tasks[t].requested] \subseteq mapped[t]

\* A task at depth 0 is a seed; any other comes from a page of the same job, one
\* level up, that was fetched and links to it; none lies below the depth limit.
TasksAreDiscovered ==
  \A t \in TaskIds : TaskExists(t) =>
    \/ tasks[t].depth = 0 /\ tasks[t].requested \in Request[tasks[t].job].urls
    \/ /\ tasks[t].depth \in 1 .. MaxDepth(tasks[t].job)
       /\ \E p \in TasksOf(tasks[t].job) :
            /\ tasks[p].depth = tasks[t].depth - 1
            /\ tasks[t].requested \in Links[tasks[p].requested]
                                        \union SitemapLinks[tasks[p].requested]
            /\ Request[tasks[p].job].type = "crawl" => docs[p] > 0

\* A URL enters the dedupe cache only once its document is stored, so that no
\* URL is skipped that nobody has.  (Until cleanup deletes the documents.)
SeenHasDocument ==
  \A u \in seen : \E t \in TaskIds :
    docs[t] > 0 /\ Canon[Redirect[tasks[t].requested]] = u

-----------------------------------------------------------------------------
(* Progress.                                                               *)

\* Every task is settled in the end, or goes with its job: crashes, lost
\* statements and stuck leases only delay it.
EveryTaskSettles ==
  \A t \in TaskIds :
    tasks[t].status \in {"queued", "processing"}
      ~> tasks[t].status \in {"done", "failed", "absent"}

\* While no statement fails and no process dies, every job with tasks is closed or
\* deleted: of the workers that settle its last tasks, one sees that nothing is left.
EveryJobFinishes ==
  [](faults = 0) =>
    \A j \in Jobs :
      jobs[j] \in {"queued", "running"} ~> jobs[j] \in Finished \union {"deleted"}

\* A job past its ttl is deleted in the end, however often a sweep fails.
ExpiredIsDeleted ==
  \A j \in Jobs : (JobExists(j) /\ "ttl" \in past[j]) ~> jobs[j] = "deleted"

-----------------------------------------------------------------------------
(* The abstract job.                                                       *)

LedgerJob ==
  [j \in Jobs |-> CASE jobs[j] = "absent" -> "none"
                    [] jobs[j] = "deleted" -> "dropped"
                    [] jobs[j] \in Finished -> jobs[j]
                    [] OTHER -> "open"]

LedgerTask ==
  [t \in TaskIds |-> CASE tasks[t].status = "absent" -> "none"
                       [] tasks[t].status \in {"queued", "processing"} -> "pending"
                       [] OTHER -> tasks[t].status]

Ledger ==
  INSTANCE JobLedger WITH
    job <- LedgerJob, task <- LedgerTask,
    owner <- [t \in TaskIds |-> tasks[t].job]

\* While heartbeats keep up, the service implements JobLedger: in particular a
\* closed job never reopens and a settled task never runs again.
ImplementsLedger == Ledger!Spec

-----------------------------------------------------------------------------
(* What the documentation says and the code does not do.                   *)

\* UpdateJobStatus "sets final job status": cancelled is never overwritten.
CancelledIsFinal ==
  [][\A j \in Jobs : jobs[j] = "cancelled" => jobs'[j] \in {"cancelled", "deleted"}]_vars

\* A job past max_duration is auto-cancelled, unless it has finished.
OverdueIsCancelled ==
  \A j \in Jobs : (JobExists(j) /\ Overdue(j))
    ~> jobs[j] \in Finished \union {"cancelled", "deleted"}

=============================================================================
