------------------------------- MODULE Store -------------------------------
(***************************************************************************)
(* The PostgreSQL tables of internal/migrate/migrations and the SQL        *)
(* statements of internal/store/store.go that change them.  A statement    *)
(* is one atomic step of the database; every operation that needs several  *)
(* statements is spread over several actions by the modules that use it.   *)
(*                                                                         *)
(* An operator of this module constrains the primed tables it writes and   *)
(* no others.  Error texts, timestamps other than the lease, and document  *)
(* contents are left out: no property tells them apart.                    *)
(***************************************************************************)
EXTENDS Integers, FiniteSets

CONSTANTS
  Jobs,       \* identifiers of jobs; gen_random_uuid() never repeats one
  Request,    \* per job, the body it was posted with: jobs.type and jobs.params
  Urls,       \* URLs as requests and pages write them
  Canon,      \* urlutil.Canonicalize as a function on Urls
  MaxTaskId,  \* bound: the last crawl_tasks.id the model hands out
  MaxFaults,  \* bound: statements that fail and processes that crash
  Limits,     \* the time limits of a job that can run out in this instance
  DedupeCache, \* crawl.dedupe_cache
  NoJob, NoUrl

ASSUME CanonAssumption ==
  /\ Canon \in [Urls -> Urls]
  /\ \A u \in Urls : Canon[Canon[u]] = Canon[u]

\* depth_given: the body carried a "max_depth" key at all.
ASSUME RequestAssumption ==
  Request \in [Jobs -> [type             : {"batch_scrape", "crawl", "map"},
                       urls             : SUBSET Urls,
                       depth_given      : BOOLEAN,
                       max_depth        : Int,
                       include_sitemaps : BOOLEAN]]

ASSUME BoundsAssumption == MaxTaskId \in Nat /\ MaxFaults \in Nat

ASSUME LimitsAssumption == Limits \subseteq {"max_duration", "deadline", "ttl"}

ASSUME DedupeAssumption == DedupeCache \in BOOLEAN

ASSUME NoneAssumption == NoJob \notin Jobs /\ NoUrl \notin Urls

VARIABLES
  jobs,    \* jobs.status per job; "absent" before INSERT, "deleted" after DELETE
  tasks,   \* crawl_tasks by id
  nextId,  \* the BIGSERIAL sequence behind crawl_tasks.id
  docs,    \* number of rows of documents written for a task
  mapped,  \* target_urls of the rows of mapped_urls written for a task
  seen,    \* dedupe_cache.canonical_url
  past,    \* per job, the limits now() has gone past
  faults   \* faults injected so far, at most MaxFaults

tables == <<jobs, tasks, nextId, docs, mapped, seen>>
storeVars == <<jobs, tasks, nextId, docs, mapped, seen, past, faults>>

-----------------------------------------------------------------------------
(* Rows.                                                                   *)

TaskIds == 1 .. MaxTaskId

Finished == {"completed", "completed_with_errors"}
JobStatus == {"queued", "running", "cancelled"} \union Finished
NoRow == {"absent", "deleted"}

TaskStatus == {"queued", "processing", "done", "failed"}

TaskRow ==
  [job       : Jobs \union {NoJob},
   requested : Urls \union {NoUrl},
   final     : Urls \union {NoUrl},
   depth     : Nat,
   status    : TaskStatus \union {"absent"},
   attempts  : Nat,
   heartbeat : {"null", "fresh", "stale"}]

NoTask ==
  [job |-> NoJob, requested |-> NoUrl, final |-> NoUrl, depth |-> 0,
   status |-> "absent", attempts |-> 0, heartbeat |-> "null"]

\* The row InsertTasks writes for a seed or a link.
NewTask(j, u, d) ==
  [job |-> j, requested |-> u, final |-> Canon[u], depth |-> d,
   status |-> "queued", attempts |-> 0, heartbeat |-> "null"]

\* jobs.params: encoding/json leaves a max_depth that was not sent at 0.
MaxDepth(j) == IF Request[j].depth_given THEN Request[j].max_depth ELSE 0

JobExists(j) == jobs[j] \notin NoRow
TaskExists(t) == tasks[t].status # "absent"

TasksOf(j) == {t \in TaskIds : tasks[t].job = j}
Finals(j) == {tasks[t].final : t \in TasksOf(j)}
Pending(j) == {t \in TasksOf(j) : tasks[t].status \in {"queued", "processing"}}
Failed(j) == {t \in TasksOf(j) : tasks[t].status = "failed"}

StoreInit ==
  /\ jobs = [j \in Jobs |-> "absent"]
  /\ tasks = [t \in TaskIds |-> NoTask]
  /\ nextId = 1
  /\ docs = [t \in TaskIds |-> 0]
  /\ mapped = [t \in TaskIds |-> {}]
  /\ seen = {}
  /\ past = [j \in Jobs |-> {}]
  /\ faults = 0

StoreTypeOK ==
  /\ jobs \in [Jobs -> JobStatus \union NoRow]
  /\ tasks \in [TaskIds -> TaskRow]
  /\ nextId \in 1 .. (MaxTaskId + 1)
  /\ docs \in [TaskIds -> Nat]
  /\ mapped \in [TaskIds -> SUBSET Urls]
  /\ seen \in SUBSET Urls
  /\ past \in [Jobs -> SUBSET Limits]
  /\ faults \in 0 .. MaxFaults

\* A statement fails, a connection breaks, a process dies: bounded by MaxFaults.
Fault == faults < MaxFaults /\ faults' = faults + 1
NoFault == UNCHANGED faults

\* now() moves past created_at + max_duration, deadline_at or expires_at of a job.
LimitPasses(j, l) ==
  /\ JobExists(j)
  /\ l \in Limits \ past[j]
  /\ past' = [past EXCEPT ![j] = @ \union {l}]
  /\ UNCHANGED <<tables, faults>>

-----------------------------------------------------------------------------
(* Statements on jobs.                                                     *)

\* UPDATE jobs SET status = s WHERE id = j: no row, no effect.
UpdateJobStatus(j, s) ==
  jobs' = IF JobExists(j) THEN [jobs EXCEPT ![j] = s] ELSE jobs

StartJob(j) == UpdateJobStatus(j, "running")

\* Mutant: documents outlive their job.
DeleteJobs_NoCascade(S) ==
  /\ jobs' = [j \in Jobs |-> IF j \in S /\ JobExists(j) THEN "deleted" ELSE jobs[j]]
  /\ tasks' = [t \in TaskIds |-> IF tasks[t].job \in S THEN NoTask ELSE tasks[t]]
  /\ mapped' = [t \in TaskIds |-> IF tasks[t].job \in S THEN {} ELSE mapped[t]]
  /\ UNCHANGED docs

\* DELETE FROM jobs, with ON DELETE CASCADE of the three tables that refer to it.
DeleteJobs(S) ==
  /\ jobs' = [j \in Jobs |-> IF j \in S /\ JobExists(j) THEN "deleted" ELSE jobs[j]]
  /\ tasks' = [t \in TaskIds |-> IF tasks[t].job \in S THEN NoTask ELSE tasks[t]]
  /\ docs' = [t \in TaskIds |-> IF tasks[t].job \in S THEN 0 ELSE docs[t]]
  /\ mapped' = [t \in TaskIds |-> IF tasks[t].job \in S THEN {} ELSE mapped[t]]

-----------------------------------------------------------------------------
(* Statements on crawl_tasks.                                              *)

\* INSERT ... ON CONFLICT (job_id, final_url) DO NOTHING for the URLs of S, in
\* some order: the first URL with a given canonical form gets the row.
InsertTasks(j, S, d) ==
  \E n \in 0 .. MaxTaskId : \E order \in [1 .. n -> S] :
    /\ \A a, b \in 1 .. n : Canon[order[a]] = Canon[order[b]] => a = b
    /\ {Canon[order[a]] : a \in 1 .. n} = {Canon[u] : u \in S} \ Finals(j)
    /\ nextId + n <= MaxTaskId + 1
    /\ nextId' = nextId + n
    /\ tasks' = [t \in TaskIds |->
                   IF t \in nextId .. (nextId + n - 1)
                   THEN NewTask(j, order[t - nextId + 1], d)
                   ELSE tasks[t]]

\* Mutant: a processing row is handed out whatever its heartbeat.
Eligible_IgnoresLease ==
  {t \in TaskIds : tasks[t].status \in {"queued", "processing"}}

\* The rows DequeueTask's SELECT accepts: queued, or processing without a lease.
Eligible ==
  {t \in TaskIds :
     \/ tasks[t].status = "queued"
     \/ tasks[t].status = "processing" /\ tasks[t].heartbeat # "fresh"}

\* ORDER BY id LIMIT 1 FOR UPDATE SKIP LOCKED: a lower row is passed over only
\* while another of the n workers has a statement in flight on it.
Claimable(n) ==
  {t \in Eligible : Cardinality({s \in Eligible : s < t}) < n}

\* Mutant: the UPDATE forgets heartbeat_at = now().
ClaimedRow_NoHeartbeat(t) == [tasks[t] EXCEPT !.status = "processing"]

\* The row as DequeueTask's UPDATE leaves it and RETURNING hands it out.
ClaimedRow(t) == [tasks[t] EXCEPT !.status = "processing", !.heartbeat = "fresh"]

UpdateTask(t, row) ==
  tasks' = IF TaskExists(t) THEN [tasks EXCEPT ![t] = row] ELSE tasks

UpdateTaskHeartbeat(t) == UpdateTask(t, [tasks[t] EXCEPT !.heartbeat = "fresh"])

CompleteTask(t) == UpdateTask(t, [tasks[t] EXCEPT !.status = "done"])

FailTask(t) ==
  UpdateTask(t, [tasks[t] EXCEPT !.status = "failed", !.attempts = @ + 1])

\* Mutant: attempts is not incremented.
RetryTask_NotCounted(t) ==
  UpdateTask(t, [tasks[t] EXCEPT !.status = "queued", !.heartbeat = "null"])

RetryTask(t) ==
  UpdateTask(t, [tasks[t] EXCEPT !.status = "queued", !.attempts = @ + 1,
                                 !.heartbeat = "null"])

\* The NOT EXISTS clause keeps (job_id, final_url) unique; a lost race ends in
\* a unique violation the caller drops, with the same outcome.
UpdateTaskFinalURL(t, u) ==
  tasks' = IF /\ TaskExists(t)
              /\ \A s \in TasksOf(tasks[t].job) : tasks[s].final = u => s = t
           THEN [tasks EXCEPT ![t].final = u]
           ELSE tasks

-----------------------------------------------------------------------------
(* Statements on documents, mapped_urls and dedupe_cache.                  *)

InsertDocument(t) == docs' = [docs EXCEPT ![t] = @ + 1]

InsertMappedBatch(t, S) == mapped' = [mapped EXCEPT ![t] = @ \union S]

MarkCanonical(u) == seen' = seen \union {u}

=============================================================================
