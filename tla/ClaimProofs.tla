---------------------------- MODULE ClaimProofs ----------------------------
(***************************************************************************)
(* While heartbeats keep up: no two workers handle one task, no task runs  *)
(* more often than its retries allow, and FinishJob closes a job only when *)
(* it is drained, with a true verdict, although it reads the counts it     *)
(* acts on in statements of their own.  ClaimInv is inductive.  With it, the *)
(* service implements JobLedger: every statement of API, workers and cleanup *)
(* is one step of the ledger or none, for every set of jobs, URLs, workers *)
(* and sweepers.                                                           *)
(***************************************************************************)
EXTENDS CrawlerProofs

\* Initially nobody holds a claim and no job is closed.
LEMMA ClaimInit == Init => ClaimInv
<1>. SUFFICES ASSUME Init PROVE ClaimInv
  OBVIOUS
<1>1. /\ \A t \in TaskIds : tasks[t].status = "absent" /\ tasks[t].attempts = 0
      /\ \A j \in Jobs : jobs[j] = "absent"
      /\ \A w \in Workers : worker[w].pc = "idle"
  BY DEF Init, StoreInit, WorkerInit, NoTask, Idle
<1>2. Structure
  BY TypeInit
<1>3. LeasesHeld /\ ExclusiveClaim /\ ReadsStillTrue
  BY <1>1 DEF LeasesHeld, ExclusiveClaim, ReadsStillTrue, Handling, At
<1>4. FinishedIsDrained /\ VerdictIsTrue
  BY <1>1 DEF FinishedIsDrained, VerdictIsTrue, Finished
<1>5. RetryBudget
  BY <1>1, ConfigAssumption DEF RetryBudget
<1>. QED BY <1>2, <1>3, <1>4, <1>5 DEF ClaimInv

\* No row changes hands, no job is closed or appears with rows, no worker learns
\* anything new about its job.
QuietRows ==
  \A t \in TaskIds : /\ tasks'[t].job = tasks[t].job
                     /\ tasks'[t].status = tasks[t].status
                     /\ tasks'[t].attempts = tasks[t].attempts

QuietJobs ==
  \A k \in Jobs : /\ jobs'[k] = jobs[k] \/ jobs'[k] \notin Finished
                  /\ jobs[k] # "absent" => (JobExists(k)' => JobExists(k))

QuietWorker(w) ==
  \/ worker'[w].pc = "idle"
  \/ /\ worker'[w].id = worker[w].id /\ worker'[w].row = worker[w].row
     /\ worker'[w].pc \in Handling => worker[w].pc \in Handling
     /\ worker'[w].pc \in {"failed", "finish"} => worker'[w] = worker[w]
     /\ worker'[w].pc # "idle" => worker[w].pc # "idle"

QuietLeases ==
  \A w \in Workers :
    (worker'[w].pc \in Handling /\ tasks[worker[w].id].heartbeat = "fresh")
      => tasks'[worker[w].id].heartbeat = "fresh"

Quiet == QuietRows /\ QuietJobs /\ QuietLeases /\ \A w \in Workers : QuietWorker(w)

\* A quiet step keeps every claim.
LEMMA ClaimFrame ==
  ASSUME TypeOK, ClaimInv, Structure', Quiet
  PROVE  ClaimInv'
<1>0. Structure /\ LeasesHeld /\ ExclusiveClaim /\ ReadsStillTrue
      /\ FinishedIsDrained /\ VerdictIsTrue /\ RetryBudget
  BY DEF ClaimInv
<1>1. ASSUME NEW w \in Workers, worker'[w].pc # "idle"
      PROVE  /\ worker[w].id \in TaskIds /\ JobOf(w) \in Jobs
             /\ jobs[JobOf(w)] # "absent" /\ JobOf(w)' = JobOf(w)
             /\ worker'[w].id = worker[w].id /\ worker'[w].row = worker[w].row
             /\ worker'[w].pc \in Handling => worker[w].pc \in Handling
             /\ worker'[w].pc \in {"failed", "finish"} => worker'[w] = worker[w]
  BY <1>0, <1>1 DEF Quiet, QuietWorker, Structure, SnapshotsOK, SnapshotOK, At, JobOf
<1>2. \A j : Pending(j)' = Pending(j) /\ Failed(j)' = Failed(j)
  BY DEF Quiet, QuietRows, Pending, Failed, TasksOf
<1>3. LeasesHeld'
  <2>. SUFFICES ASSUME NEW w \in Workers, worker'[w].pc \in Handling, JobExists(JobOf(w))'
                PROVE  LeaseHeld(w)'
    BY DEF LeasesHeld
  <2>1. worker'[w].pc # "idle"
    BY DEF Handling
  <2>2. JobExists(JobOf(w))
    BY <1>1, <2>1 DEF Quiet, QuietJobs, JobExists
  <2>3. LeaseHeld(w)
    BY <1>0, <1>1, <2>1, <2>2 DEF LeasesHeld
  <2>. QED BY <1>1, <2>1, <2>3 DEF LeaseHeld, Quiet, QuietRows, QuietLeases
<1>4. ExclusiveClaim'
  BY <1>0, <1>1 DEF ExclusiveClaim, Handling
<1>5. ReadsStillTrue'
  <2>. SUFFICES ASSUME NEW w \in Workers, worker'[w].pc \in {"failed", "finish"}
                PROVE  /\ Pending(JobOf(w))' = {}
                       /\ (worker'[w].pc = "finish" /\ JobExists(JobOf(w))') =>
                            (worker'[w].verdict = "completed" <=> Failed(JobOf(w))' = {})
    BY DEF ReadsStillTrue, At
  <2>1. worker'[w] = worker[w] /\ JobOf(w)' = JobOf(w) /\ JobOf(w) \in Jobs
        /\ jobs[JobOf(w)] # "absent"
    BY <1>1
  <2>2. Pending(JobOf(w))' = Pending(JobOf(w)) /\ Failed(JobOf(w))' = Failed(JobOf(w))
    BY <2>1 DEF Quiet, QuietRows, Pending, Failed, TasksOf
  <2>3. JobExists(JobOf(w))' => JobExists(JobOf(w))
    BY <2>1 DEF Quiet, QuietJobs, JobExists
  <2>. QED BY <1>0, <2>1, <2>2, <2>3 DEF ReadsStillTrue, At
<1>6. FinishedIsDrained' /\ VerdictIsTrue'
  BY <1>0, <1>2 DEF FinishedIsDrained, VerdictIsTrue, Quiet, QuietJobs, Finished
<1>7. RetryBudget'
  BY <1>0 DEF RetryBudget, Quiet, QuietRows
<1>. QED BY <1>3, <1>4, <1>5, <1>6, <1>7 DEF ClaimInv

\* A worker inside handleTask changes only itself and keeps its snapshot.
Moves(w) ==
  /\ worker[w].pc \in Handling /\ worker'[w].pc \in Handling \union {"pending"}
  /\ worker'[w].id = worker[w].id /\ worker'[w].row = worker[w].row
  /\ \A v \in Workers : v # w => worker'[v] = worker[v]

\* The statements of handleTask, and the one that settles the task.
HandlerStep(w) ==
  \/ GetJob(w) \/ CancelOverdue(w) \/ StartQueued(w) \/ Dispatch(w)
  \/ FetchPage(w) \/ FetchMapPage(w) \/ StoreDocument(w) \/ MarkSeen(w)
  \/ Expand(w) \/ CountTasks(w) \/ InsertMap(w) \/ Settle(w)
  \/ \E u \in Urls : SkipSeen(w, u) \/ InsertLink(w, u)

\* All of them move their worker in this way.
LEMMA HandlerMoves ==
  ASSUME WorkerTypeOK, NEW w \in Workers, HandlerStep(w)
  PROVE  Moves(w)
<1>0. worker[w] \in WorkerState
  BY DEF WorkerTypeOK
<1>1. ASSUME NEW state, Become(w, state), worker[w].pc \in Handling,
             state.pc \in Handling \union {"pending"},
             state.id = worker[w].id, state.row = worker[w].row
      PROVE  Moves(w)
  BY <1>1 DEF Become, Moves, WorkerTypeOK
<1>2. ASSUME NEW pc \in Handling \union {"pending"}, Goto(w, pc), worker[w].pc \in Handling
      PROVE  Moves(w)
  <2>. DEFINE state == [worker[w] EXCEPT !.pc = pc]
  <2>1. state.pc = pc /\ state.id = worker[w].id /\ state.row = worker[w].row
    BY <1>0 DEF WorkerState
  <2>2. Become(w, state)
    BY <1>2 DEF Goto
  <2>. HIDE DEF state
  <2>. QED BY <1>1, <1>2, <2>1, <2>2
<1>3. CASE GetJob(w)
  BY <1>2, <1>3 DEF GetJob, At, Handling
<1>4. CASE CancelOverdue(w) \/ StartQueued(w)
  BY <1>2, <1>4 DEF CancelOverdue, StartQueued, At, Handling
<1>5. CASE Dispatch(w)
  <2>. DEFINE state == [worker[w] EXCEPT !.pc = "fetch", !.bounded = ~Overdue(JobOf(w))]
  <2>1. state.pc = "fetch" /\ state.id = worker[w].id /\ state.row = worker[w].row
    BY <1>0 DEF WorkerState
  <2>2. Become(w, state)
    BY <1>5 DEF Dispatch
  <2>. HIDE DEF state
  <2>. QED BY <1>1, <1>5, <2>1, <2>2 DEF Dispatch, At, Handling
<1>6. CASE FetchPage(w) \/ FetchMapPage(w)
  BY <1>2, <1>6 DEF FetchPage, FetchMapPage, At, Handling
<1>7. CASE StoreDocument(w) \/ MarkSeen(w)
  BY <1>2, <1>7 DEF StoreDocument, MarkSeen, At, Handling
<1>8. CASE Expand(w)
  <2>1. CASE Goto(w, "ok") \/ Goto(w, "err")
    BY <1>2, <1>8, <2>1 DEF Expand, At, Handling
  <2>2. ASSUME NEW found,
               Become(w, [worker[w] EXCEPT
                 !.pc = IF found = {} THEN "ok" ELSE "filter",
                 !.links = found,
                 !.check = IF DedupeCache THEN found ELSE {},
                 !.todo = found])
        PROVE  Moves(w)
    <3>. DEFINE state == [worker[w] EXCEPT
                 !.pc = IF found = {} THEN "ok" ELSE "filter",
                 !.links = found,
                 !.check = IF DedupeCache THEN found ELSE {},
                 !.todo = found]
    <3>1. state.pc \in {"ok", "filter"} /\ state.id = worker[w].id /\ state.row = worker[w].row
      BY <1>0 DEF WorkerState
    <3>2. Become(w, state)
      BY <2>2
    <3>. HIDE DEF state
    <3>. QED BY <1>1, <1>8, <3>1, <3>2 DEF Expand, At, Handling
  <2>. QED BY <1>8, <2>1, <2>2 DEF Expand
<1>9. CASE CountTasks(w)
  <2>1. CASE Goto(w, "err")
    BY <1>2, <1>9, <2>1 DEF CountTasks, At, Handling
  <2>2. ASSUME NEW kept,
               Become(w, [worker[w] EXCEPT
                 !.pc = IF kept = {} /\ TypeOf(w) = "crawl" THEN "ok" ELSE "insert",
                 !.todo = kept])
        PROVE  Moves(w)
    <3>. DEFINE state == [worker[w] EXCEPT
                 !.pc = IF kept = {} /\ TypeOf(w) = "crawl" THEN "ok" ELSE "insert",
                 !.todo = kept]
    <3>1. state.pc \in {"ok", "insert"} /\ state.id = worker[w].id /\ state.row = worker[w].row
      BY <1>0 DEF WorkerState
    <3>2. Become(w, state)
      BY <2>2
    <3>. HIDE DEF state
    <3>. QED BY <1>1, <1>9, <3>1, <3>2 DEF CountTasks, At, Handling
  <2>. QED BY <1>9, <2>1, <2>2 DEF CountTasks
<1>10. ASSUME NEW u \in Urls, SkipSeen(w, u) PROVE Moves(w)
  <2>1. CASE Goto(w, "err")
    BY <1>2, <1>10, <2>1 DEF SkipSeen, At, Handling
  <2>2. CASE Become(w, [worker[w] EXCEPT
               !.check = @ \ {u},
               !.todo = IF u \in seen THEN @ \ {u} ELSE @])
    <3>. DEFINE state == [worker[w] EXCEPT
               !.check = @ \ {u},
               !.todo = IF u \in seen THEN @ \ {u} ELSE @]
    <3>1. state.pc = worker[w].pc /\ state.id = worker[w].id /\ state.row = worker[w].row
      BY <1>0 DEF WorkerState
    <3>2. Become(w, state)
      BY <2>2
    <3>. HIDE DEF state
    <3>. QED BY <1>1, <1>10, <3>1, <3>2 DEF SkipSeen, At, Handling
  <2>. QED BY <1>10, <2>1, <2>2 DEF SkipSeen
<1>11. ASSUME NEW u \in Urls, InsertLink(w, u) PROVE Moves(w)
  <2>1. CASE Goto(w, "err")
    BY <1>2, <1>11, <2>1 DEF InsertLink, At, Handling
  <2>2. CASE Become(w, [worker[w] EXCEPT
               !.pc = IF worker[w].todo = {u} THEN "ok" ELSE "insert",
               !.todo = @ \ {u}])
    <3>. DEFINE state == [worker[w] EXCEPT
               !.pc = IF worker[w].todo = {u} THEN "ok" ELSE "insert",
               !.todo = @ \ {u}]
    <3>1. state.pc \in {"ok", "insert"} /\ state.id = worker[w].id /\ state.row = worker[w].row
      BY <1>0 DEF WorkerState
    <3>2. Become(w, state)
      BY <2>2
    <3>. HIDE DEF state
    <3>. QED BY <1>1, <1>11, <3>1, <3>2 DEF InsertLink, At, Handling
  <2>. QED BY <1>11, <2>1, <2>2 DEF InsertLink
<1>12. CASE InsertMap(w)
  BY <1>2, <1>12 DEF InsertMap, At, Handling
<1>13. CASE Settle(w)
  BY <1>2, <1>13 DEF Settle, Handling
<1>. QED
  BY <1>3, <1>4, <1>5, <1>6, <1>7, <1>8, <1>9, <1>10, <1>11, <1>12, <1>13
  DEF HandlerStep

\* A job whose rows are left alone has the same pending and failed tasks as before.
LEMMA SameCounts ==
  ASSUME NEW k,
         \A t \in TaskIds : tasks'[t] = tasks[t] \/ (tasks[t].job # k /\ tasks'[t].job # k)
  PROVE  Pending(k)' = Pending(k) /\ Failed(k)' = Failed(k)
BY DEF Pending, Failed, TasksOf

\* A worker that handles a task keeps its job open: nobody can close it meanwhile.
LEMMA HandlingKeepsOpen ==
  ASSUME ClaimInv, NEW w \in Workers, worker[w].pc \in Handling, JobExists(JobOf(w))
  PROVE  /\ worker[w].id \in TaskIds /\ TaskExists(worker[w].id)
         /\ tasks[worker[w].id].job = JobOf(w) /\ JobOf(w) \in Jobs
         /\ LeaseHeld(w)
         /\ Pending(JobOf(w)) # {}
         /\ jobs[JobOf(w)] \notin Finished
         /\ \A v \in Workers : worker[v].pc \in {"failed", "finish"} => JobOf(v) # JobOf(w)
<1>1. SnapshotOK(w) /\ LeaseHeld(w)
  BY DEF ClaimInv, Structure, SnapshotsOK, LeasesHeld, Handling, At
<1>2. worker[w].id \in Pending(JobOf(w))
  BY <1>1 DEF SnapshotOK, LeaseHeld, Pending, TasksOf
<1>. QED BY <1>1, <1>2
     DEF SnapshotOK, LeaseHeld, TaskExists, ClaimInv, FinishedIsDrained, ReadsStillTrue

\* New queued rows of an open job disturb nobody.
LEMMA InsertKeepsClaims ==
  ASSUME TypeOK, ClaimInv, TypeOK', Structure', NEW j \in Jobs,
         \A t \in TaskIds : tasks'[t] = tasks[t] \/ (FreshRow(t) /\ tasks'[t].job = j),
         QuietJobs, jobs'[j] \notin Finished,
         \A w \in Workers : QuietWorker(w),
         \A v \in Workers : worker[v].pc \in {"failed", "finish"} => JobOf(v) # j
  PROVE  ClaimInv'
<1>0. Structure /\ LeasesHeld /\ ExclusiveClaim /\ ReadsStillTrue
      /\ FinishedIsDrained /\ VerdictIsTrue /\ RetryBudget
  BY DEF ClaimInv
<1>1. ASSUME NEW t \in TaskIds, tasks'[t] # tasks[t]
      PROVE  /\ tasks[t] = NoTask /\ tasks'[t].job = j
             /\ tasks'[t].status = "queued" /\ tasks'[t].attempts = 0
             /\ ~(t < nextId)
  <2>1. FreshRow(t) /\ tasks'[t].job = j /\ t \in Int /\ nextId \in Int
    BY <1>1 DEF TaskIds, TypeOK, StoreTypeOK
  <2>. QED BY <1>0, <2>1 DEF FreshRow, Structure, RowsOK
<1>2. \A k \in Jobs : k # j => Pending(k)' = Pending(k) /\ Failed(k)' = Failed(k)
  BY <1>1, SameCounts, NoneAssumption DEF NoTask
<1>3. ASSUME NEW w \in Workers, worker'[w].pc # "idle"
      PROVE  /\ worker[w].id \in TaskIds /\ JobOf(w) \in Jobs
             /\ jobs[JobOf(w)] # "absent" /\ JobOf(w)' = JobOf(w)
             /\ worker'[w].id = worker[w].id /\ worker'[w].row = worker[w].row
             /\ worker'[w].pc \in Handling => worker[w].pc \in Handling
             /\ worker'[w].pc \in {"failed", "finish"} => worker'[w] = worker[w]
             /\ tasks'[worker[w].id] = tasks[worker[w].id]
  <2>1. SnapshotOK(w)
    BY <1>0, <1>3 DEF QuietWorker, Structure, SnapshotsOK, At
  <2>. QED BY <1>1, <1>3, <2>1 DEF QuietWorker, SnapshotOK, JobOf
<1>4. LeasesHeld'
  <2>. SUFFICES ASSUME NEW w \in Workers, worker'[w].pc \in Handling, JobExists(JobOf(w))'
                PROVE  LeaseHeld(w)'
    BY DEF LeasesHeld
  <2>1. worker'[w].pc # "idle"
    BY DEF Handling
  <2>2. JobExists(JobOf(w))
    BY <1>3, <2>1 DEF QuietJobs, JobExists
  <2>. QED BY <1>0, <1>3, <2>1, <2>2 DEF LeasesHeld, LeaseHeld
<1>5. ExclusiveClaim'
  BY <1>0, <1>3 DEF ExclusiveClaim, Handling
<1>6. ReadsStillTrue'
  <2>. SUFFICES ASSUME NEW w \in Workers, worker'[w].pc \in {"failed", "finish"}
                PROVE  /\ Pending(JobOf(w))' = {}
                       /\ (worker'[w].pc = "finish" /\ JobExists(JobOf(w))') =>
                            (worker'[w].verdict = "completed" <=> Failed(JobOf(w))' = {})
    BY DEF ReadsStillTrue, At
  <2>1. worker'[w] = worker[w] /\ JobOf(w)' = JobOf(w) /\ JobOf(w) \in Jobs
        /\ jobs[JobOf(w)] # "absent" /\ JobOf(w) # j
    BY <1>3
  <2>2. PICK k \in Jobs : k = JobOf(w) /\ k # j
    BY <2>1
  <2>3. Pending(k)' = Pending(k) /\ Failed(k)' = Failed(k)
    BY <1>2, <2>2
  <2>4. Pending(JobOf(w))' = Pending(k)' /\ Failed(JobOf(w))' = Failed(k)'
    BY <2>1, <2>2 DEF Pending, Failed, TasksOf
  <2>5. JobExists(JobOf(w))' => JobExists(JobOf(w))
    BY <2>1 DEF QuietJobs, JobExists
  <2>. QED BY <1>0, <2>1, <2>2, <2>3, <2>4, <2>5 DEF ReadsStillTrue, At
<1>7. FinishedIsDrained' /\ VerdictIsTrue'
  BY <1>0, <1>2 DEF FinishedIsDrained, VerdictIsTrue, QuietJobs, Finished
<1>8. RetryBudget'
  BY <1>0, <1>1, ConfigAssumption DEF RetryBudget
<1>. QED BY <1>4, <1>5, <1>6, <1>7, <1>8 DEF ClaimInv

\* A worker that moves inside handleTask learns nothing about its job.
LEMMA MovesQuiet ==
  ASSUME NEW w \in Workers, Moves(w)
  PROVE  \A v \in Workers : QuietWorker(v)
<1>1. QuietWorker(w)
  BY DEF Moves, QuietWorker, Handling
<1>2. ASSUME NEW v \in Workers, v # w PROVE QuietWorker(v)
  BY <1>2 DEF Moves, QuietWorker
<1>. QED BY <1>1, <1>2

\* DequeueTask gives a worker a task nobody handles.
LEMMA ClaimTask ==
  ASSUME TypeOK, ClaimInv, Structure', NEW w \in Workers, NEW t \in TaskIds, Claim(w, t)
  PROVE  ClaimInv'
<1>0. /\ Structure /\ LeasesHeld /\ ExclusiveClaim /\ ReadsStillTrue
      /\ FinishedIsDrained /\ VerdictIsTrue /\ RetryBudget
      /\ worker \in [Workers -> WorkerState] /\ tasks \in [TaskIds -> TaskRow]
  BY DEF ClaimInv, TypeOK, WorkerTypeOK, StoreTypeOK
<1>1. t \in Eligible /\ UNCHANGED jobs
  BY DEF Claim, Claimable
<1>2. /\ tasks'[t] = ClaimedRow(t)
      /\ \A s \in TaskIds : s # t => tasks'[s] = tasks[s]
  BY <1>0 DEF Claim
<1>3. /\ ClaimedRow(t).job = tasks[t].job
      /\ ClaimedRow(t).attempts = tasks[t].attempts
      /\ ClaimedRow(t).status = "processing" /\ ClaimedRow(t).heartbeat = "fresh"
  BY <1>0 DEF ClaimedRow, TaskRow
<1>4. tasks[t].status \in {"queued", "processing"}
  BY <1>1 DEF Eligible
<1>5. /\ worker'[w].pc = "getjob" /\ worker'[w].id = t /\ worker'[w].row = ClaimedRow(t)
      /\ \A v \in Workers : v # w => worker'[v] = worker[v]
  BY <1>0 DEF Claim, Become, Idle
<1>6. ASSUME NEW v \in Workers, v # w, worker[v].pc \in Handling
      PROVE  worker[v].id \in TaskIds /\ worker[v].id # t
  <2>1. SnapshotOK(v)
    BY <1>0, <1>6 DEF Structure, SnapshotsOK, At, Handling
  <2>2. CASE JobExists(JobOf(v))
    BY <1>0, <1>1, <1>6, <2>1, <2>2 DEF SnapshotOK, LeasesHeld, LeaseHeld, Eligible
  <2>3. CASE ~JobExists(JobOf(v))
    BY <1>4, <2>1, <2>3 DEF SnapshotOK, NoTask
  <2>. QED BY <2>2, <2>3
<1>7. \A k : Pending(k)' = Pending(k) /\ Failed(k)' = Failed(k)
  BY <1>2, <1>3, <1>4 DEF Pending, Failed, TasksOf
<1>8. LeasesHeld'
  <2>. SUFFICES ASSUME NEW v \in Workers, worker'[v].pc \in Handling, JobExists(JobOf(v))'
                PROVE  LeaseHeld(v)'
    BY DEF LeasesHeld
  <2>1. CASE v = w
    BY <1>2, <1>3, <1>5, <2>1 DEF LeaseHeld
  <2>2. CASE v # w
    <3>1. worker'[v] = worker[v] /\ tasks'[worker[v].id] = tasks[worker[v].id]
      BY <1>2, <1>5, <1>6, <2>2
    <3>2. LeaseHeld(v)
      BY <1>0, <1>1, <3>1 DEF LeasesHeld, JobOf, JobExists
    <3>. QED BY <3>1, <3>2 DEF LeaseHeld
  <2>. QED BY <2>1, <2>2
<1>9. ExclusiveClaim'
  BY <1>0, <1>5, <1>6 DEF ExclusiveClaim
<1>10. ReadsStillTrue'
  <2>. SUFFICES ASSUME NEW v \in Workers, worker'[v].pc \in {"failed", "finish"}
                PROVE  /\ Pending(JobOf(v))' = {}
                       /\ (worker'[v].pc = "finish" /\ JobExists(JobOf(v))') =>
                            (worker'[v].verdict = "completed" <=> Failed(JobOf(v))' = {})
    BY DEF ReadsStillTrue, At
  <2>1. worker'[v] = worker[v] /\ JobOf(v)' = JobOf(v)
    BY <1>5 DEF JobOf
  <2>2. Pending(JobOf(v))' = Pending(JobOf(v)) /\ Failed(JobOf(v))' = Failed(JobOf(v))
    BY <1>2, <1>3, <1>4, <2>1 DEF Pending, Failed, TasksOf
  <2>3. JobExists(JobOf(v))' => JobExists(JobOf(v))
    BY <1>1, <2>1 DEF JobExists
  <2>. QED BY <1>0, <2>1, <2>2, <2>3 DEF ReadsStillTrue, At
<1>11. FinishedIsDrained' /\ VerdictIsTrue'
  BY <1>0, <1>1, <1>7 DEF FinishedIsDrained, VerdictIsTrue
<1>12. RetryBudget'
  BY <1>0, <1>2, <1>3, <1>4 DEF RetryBudget
<1>. QED BY <1>8, <1>9, <1>10, <1>11, <1>12 DEF ClaimInv

\* Settling a task disturbs no other claim, and spends one attempt of the budget.
LEMMA SettleTask ==
  ASSUME TypeOK, ClaimInv, TypeOK', Structure', NEW w \in Workers, Settle(w)
  PROVE  ClaimInv'
<1>. DEFINE t == worker[w].id
<1>0. /\ Structure /\ LeasesHeld /\ ExclusiveClaim /\ ReadsStillTrue
      /\ FinishedIsDrained /\ VerdictIsTrue /\ RetryBudget
      /\ StoreTypeOK /\ WorkerTypeOK
  BY DEF ClaimInv, TypeOK
<1>1. /\ worker[w].pc \in Handling /\ Moves(w)
      /\ UNCHANGED <<jobs, nextId>> /\ SnapshotOK(w)
  <2>1. worker[w].pc \in Handling /\ UNCHANGED <<jobs, nextId>>
    BY DEF Settle, Handling
  <2>2. Moves(w)
    BY <1>0, HandlerMoves DEF HandlerStep
  <2>3. SnapshotOK(w)
    BY <1>0, <2>1 DEF Structure, SnapshotsOK, Handling, At
  <2>. QED BY <2>1, <2>2, <2>3
<1>2. t \in TaskIds
  BY <1>1 DEF SnapshotOK
<1>3. CASE UNCHANGED tasks
  BY <1>1, <1>3, MovesQuiet, ClaimFrame
  DEF Quiet, QuietRows, QuietJobs, QuietLeases, JobExists
<1>4. CASE (CompleteTask(t) \/ RetryTask(t) \/ FailTask(t)) /\ ~JobExists(JobOf(w))
  <2>1. ~TaskExists(t)
    BY <1>1, <1>4 DEF SnapshotOK, TaskExists, NoTask
  <2>. QED BY <1>3, <1>4, <2>1 DEF CompleteTask, RetryTask, FailTask, UpdateTask
<1>5. CASE (CompleteTask(t) \/ RetryTask(t) \/ FailTask(t)) /\ JobExists(JobOf(w))
           /\ ~UNCHANGED tasks
  <2>1. /\ TaskExists(t) /\ tasks[t].job = JobOf(w) /\ JobOf(w) \in Jobs /\ LeaseHeld(w)
        /\ jobs[JobOf(w)] \notin Finished
        /\ \A v \in Workers : worker[v].pc \in {"failed", "finish"} => JobOf(v) # JobOf(w)
    BY <1>1, <1>5, HandlingKeepsOpen
  <2>2. /\ \A s \in TaskIds : s # t => tasks'[s] = tasks[s]
        /\ tasks'[t].job = tasks[t].job
    BY <1>0, <1>1, <1>2, <1>5, <2>1, SettleRowEffect
  <2>3. LeasesHeld'
    <3>. SUFFICES ASSUME NEW v \in Workers, worker'[v].pc \in Handling, JobExists(JobOf(v))'
                  PROVE  LeaseHeld(v)'
      BY DEF LeasesHeld
    <3>1. worker'[w].pc = "pending"
      BY <1>0 DEF Settle, Goto, Become, WorkerTypeOK, WorkerState
    <3>2. v # w /\ worker'[v] = worker[v]
      BY <1>1, <3>1 DEF Moves, Handling
    <3>3. LeaseHeld(v) /\ SnapshotOK(v)
      BY <1>0, <1>1, <3>2
      DEF LeasesHeld, JobOf, JobExists, Structure, SnapshotsOK, At, Handling
    <3>4. worker[v].id # t /\ worker[v].id \in TaskIds
      BY <1>0, <1>1, <3>2, <3>3 DEF ExclusiveClaim, SnapshotOK
    <3>. QED BY <2>2, <3>2, <3>3, <3>4 DEF LeaseHeld
  <2>4. ExclusiveClaim'
    BY <1>0, <1>1 DEF ExclusiveClaim, Moves
  <2>5. ASSUME NEW k \in Jobs, k # JobOf(w)
        PROVE  Pending(k)' = Pending(k) /\ Failed(k)' = Failed(k)
    BY <2>1, <2>2, <2>5, SameCounts
  <2>6. ReadsStillTrue'
    <3>. SUFFICES ASSUME NEW v \in Workers, worker'[v].pc \in {"failed", "finish"}
                  PROVE  /\ Pending(JobOf(v))' = {}
                         /\ (worker'[v].pc = "finish" /\ JobExists(JobOf(v))') =>
                              (worker'[v].verdict = "completed" <=> Failed(JobOf(v))' = {})
      BY DEF ReadsStillTrue, At
    <3>1. v # w /\ worker'[v] = worker[v] /\ JobOf(v)' = JobOf(v)
      BY <1>1 DEF Moves, Handling, JobOf
    <3>2. PICK k \in Jobs : k = JobOf(v) /\ k # JobOf(w)
      BY <1>0, <2>1, <3>1 DEF Structure, SnapshotsOK, SnapshotOK, At
    <3>3. Pending(k)' = Pending(k) /\ Failed(k)' = Failed(k)
      BY <2>5, <3>2
    <3>4. Pending(JobOf(v))' = Pending(k)' /\ Failed(JobOf(v))' = Failed(k)'
      BY <3>1, <3>2 DEF Pending, Failed, TasksOf
    <3>5. JobExists(JobOf(v))' => JobExists(JobOf(v))
      BY <1>1, <3>1 DEF JobExists
    <3>. QED BY <1>0, <3>1, <3>2, <3>3, <3>4, <3>5 DEF ReadsStillTrue, At
  <2>7. FinishedIsDrained' /\ VerdictIsTrue'
    BY <1>0, <1>1, <2>1, <2>5 DEF FinishedIsDrained, VerdictIsTrue, Finished
  <2>8. RetryBudget'
    <3>1. /\ tasks[t].attempts = worker[w].row.attempts /\ tasks[t].attempts \in Nat
          /\ tasks[t].attempts <= MaxRetries /\ MaxRetries \in Nat
      BY <1>0, <1>2, <2>1, ConfigAssumption
      DEF LeaseHeld, RetryBudget, StoreTypeOK, TaskRow
    <3>2. \/ /\ tasks'[t].status = "done" /\ tasks'[t].attempts = tasks[t].attempts
          \/ /\ tasks'[t].status = "queued" /\ tasks'[t].attempts = tasks[t].attempts + 1
             /\ shouldRetry(worker[w].row.attempts)
          \/ /\ tasks'[t].status = "failed" /\ tasks'[t].attempts = tasks[t].attempts + 1
             /\ ~shouldRetry(worker[w].row.attempts)
      <4>1. CASE CompleteTask(t)
        BY <1>0, <1>2, <2>1, <4>1 DEF CompleteTask, UpdateTask, StoreTypeOK, TaskRow
      <4>2. CASE RetryTask(t) /\ shouldRetry(worker[w].row.attempts)
        BY <1>0, <1>2, <2>1, <4>2 DEF RetryTask, UpdateTask, StoreTypeOK, TaskRow
      <4>3. CASE FailTask(t) /\ ~shouldRetry(worker[w].row.attempts)
        BY <1>0, <1>2, <2>1, <4>3 DEF FailTask, UpdateTask, StoreTypeOK, TaskRow
      <4>. QED BY <1>5, <4>1, <4>2, <4>3 DEF Settle
    <3>3. /\ tasks'[t].attempts <= MaxRetries + 1
          /\ tasks'[t].status = "failed" <=> tasks'[t].attempts = MaxRetries + 1
      BY <3>1, <3>2 DEF shouldRetry
    <3>. QED BY <1>0, <2>2, <3>3 DEF RetryBudget
  <2>. QED BY <2>3, <2>4, <2>6, <2>7, <2>8 DEF ClaimInv
<1>. QED BY <1>3, <1>4, <1>5 DEF Settle

\* A statement of FinishJob leaves the claims of the others alone.
LEMMA ClosingFrame ==
  ASSUME TypeOK, ClaimInv, NEW w \in Workers, UNCHANGED tasks,
         worker'[w].pc \notin Handling,
         \A v \in Workers : v # w => worker'[v] = worker[v],
         JobsEvolve
  PROVE  /\ LeasesHeld' /\ ExclusiveClaim' /\ RetryBudget'
         /\ \A v \in Workers : v # w =>
              /\ worker'[v].pc \in {"failed", "finish"} => Pending(JobOf(v))' = {}
              /\ (At(v, "finish")' /\ JobExists(JobOf(v))') =>
                   (worker'[v].verdict = "completed" <=> Failed(JobOf(v))' = {})
<1>0. Structure /\ LeasesHeld /\ ExclusiveClaim /\ ReadsStillTrue /\ RetryBudget
  BY DEF ClaimInv
<1>1. ASSUME NEW v \in Workers, v # w, worker[v].pc # "idle"
      PROVE  /\ worker'[v] = worker[v] /\ JobOf(v)' = JobOf(v) /\ JobOf(v) \in Jobs
             /\ JobExists(JobOf(v))' <=> JobExists(JobOf(v))
  <2>1. worker'[v] = worker[v] /\ JobOf(v)' = JobOf(v)
    BY <1>1 DEF JobOf
  <2>2. JobOf(v) \in Jobs /\ jobs[JobOf(v)] # "absent"
    BY <1>0, <1>1 DEF Structure, SnapshotsOK, SnapshotOK, At
  <2>. QED BY <2>1, <2>2 DEF JobsEvolve, JobExists
<1>2. LeasesHeld'
  BY <1>0, <1>1 DEF LeasesHeld, LeaseHeld, Handling
<1>3. ExclusiveClaim'
  BY <1>0 DEF ExclusiveClaim
<1>4. RetryBudget'
  BY <1>0 DEF RetryBudget
<1>5. ASSUME NEW v \in Workers, v # w
      PROVE  /\ worker'[v].pc \in {"failed", "finish"} => Pending(JobOf(v))' = {}
             /\ (At(v, "finish")' /\ JobExists(JobOf(v))') =>
                  (worker'[v].verdict = "completed" <=> Failed(JobOf(v))' = {})
  BY <1>0, <1>1, <1>5 DEF ReadsStillTrue, At, Pending, Failed, TasksOf
<1>. QED BY <1>2, <1>3, <1>4, <1>5

\* The three statements of FinishJob.  What the first two read is still true when
\* the third writes: the job has no pending task, so nobody handles one of its
\* tasks, and only a worker that does can settle or add any.
LEMMA CloseJob ==
  ASSUME TypeOK, ClaimInv, TypeOK', Structure', NEW w \in Workers,
         CheckPending(w) \/ CheckFailed(w) \/ FinishJob(w)
  PROVE  ClaimInv'
<1>0. /\ Structure /\ ReadsStillTrue /\ FinishedIsDrained /\ VerdictIsTrue
      /\ StoreTypeOK /\ WorkerTypeOK /\ worker[w] \in WorkerState
  BY DEF ClaimInv, TypeOK, WorkerTypeOK
<1>1. /\ UNCHANGED tasks /\ worker[w].pc \in Closing
      /\ JobOf(w) \in Jobs /\ jobs[JobOf(w)] # "absent"
  <2>1. UNCHANGED tasks /\ worker[w].pc \in Closing
    BY DEF CheckPending, CheckFailed, FinishJob, At, Closing, tables
  <2>. QED BY <1>0, <2>1 DEF Structure, SnapshotsOK, SnapshotOK, At, Closing
<1>2. CASE UNCHANGED jobs /\ Release(w)
  <2>1. /\ worker'[w].pc = "idle"
        /\ \A v \in Workers : v # w => worker'[v] = worker[v]
    BY <1>0, <1>2, ReleaseEffect
  <2>. QED BY <1>1, <1>2, <2>1, ClaimFrame
       DEF Quiet, QuietRows, QuietJobs, QuietLeases, QuietWorker, JobExists
<1>3. CASE UNCHANGED jobs /\ ~Release(w)
  <2>1. \/ /\ Pending(JobOf(w)) = {} /\ worker'[w] = [worker[w] EXCEPT !.pc = "failed"]
        \/ /\ At(w, "failed")
           /\ worker'[w] = [worker[w] EXCEPT
                !.pc = "finish",
                !.verdict = IF Failed(JobOf(w)) = {}
                            THEN "completed" ELSE "completed_with_errors"]
    BY <1>0, <1>3 DEF CheckPending, CheckFailed, FinishJob, Goto, Become, WorkerTypeOK
  <2>2. /\ worker'[w].pc \in {"failed", "finish"}
        /\ worker'[w].row = worker[w].row
        /\ worker'[w].pc = "finish" =>
             (worker'[w].verdict = "completed" <=> Failed(JobOf(w)) = {})
    BY <1>0, <2>1 DEF WorkerState
  <2>3. Pending(JobOf(w)) = {}
    BY <1>0, <2>1 DEF ReadsStillTrue, At
  <2>4. \A v \in Workers : v # w => worker'[v] = worker[v]
    BY <1>0, <1>3 DEF CheckPending, CheckFailed, FinishJob, Goto, Become, WorkerTypeOK
  <2>5. JobOf(w)' = JobOf(w)
    BY <2>2 DEF JobOf
  <2>6. Pending(JobOf(w))' = {} /\ Failed(JobOf(w))' = Failed(JobOf(w))
    BY <1>1, <2>3, <2>5 DEF Pending, Failed, TasksOf
  <2>7. JobsEvolve
    BY <1>3, JobsUnchanged
  <2>8. worker'[w].pc \notin Handling
    BY <2>2 DEF Handling
  <2>9. ReadsStillTrue'
    BY <1>1, <2>2, <2>4, <2>6, <2>7, <2>8, ClosingFrame DEF ReadsStillTrue, At
  <2>10. FinishedIsDrained' /\ VerdictIsTrue'
    BY <1>0, <1>1, <1>3 DEF FinishedIsDrained, VerdictIsTrue, Pending, Failed, TasksOf
  <2>. QED BY <1>1, <2>4, <2>7, <2>8, <2>9, <2>10, ClosingFrame DEF ClaimInv
<1>4. CASE FinishJob(w) /\ UpdateJobStatus(JobOf(w), worker[w].verdict)
  <2>1. worker[w].verdict \in Finished /\ worker[w].verdict \in JobStatus
    BY <1>0 DEF WorkerState, JobStatus
  <2>2. /\ JobsEvolve
        /\ \A k \in Jobs : jobs'[k] = IF k = JobOf(w) /\ JobExists(JobOf(w))
                                      THEN worker[w].verdict ELSE jobs[k]
    BY <1>0, <1>1, <1>4, <2>1, UpdateJobStatusEffect
  <2>3. /\ worker'[w].pc = "idle"
        /\ \A v \in Workers : v # w => worker'[v] = worker[v]
    BY <1>0, <1>4, ReleaseEffect DEF FinishJob
  <2>4. /\ Pending(JobOf(w)) = {}
        /\ JobExists(JobOf(w)) => (worker[w].verdict = "completed" <=> Failed(JobOf(w)) = {})
    BY <1>0, <1>4 DEF FinishJob, ReadsStillTrue, At
  <2>5. \A k : Pending(k)' = Pending(k) /\ Failed(k)' = Failed(k)
    BY <1>1 DEF Pending, Failed, TasksOf
  <2>6. FinishedIsDrained' /\ VerdictIsTrue'
    BY <1>0, <2>1, <2>2, <2>4, <2>5 DEF FinishedIsDrained, VerdictIsTrue, Finished
  <2>7. worker'[w].pc \notin Handling
    BY <2>3 DEF Handling
  <2>8. ReadsStillTrue'
    BY <1>1, <2>2, <2>3, <2>7, ClosingFrame DEF ReadsStillTrue, At
  <2>. QED BY <1>1, <2>2, <2>3, <2>6, <2>7, <2>8, ClosingFrame DEF ClaimInv
<1>. QED BY <1>2, <1>3, <1>4 DEF CheckPending, CheckFailed, FinishJob, tables

\* A sweep takes a job, its rows and the claims on them together.
LEMMA DeleteKeepsClaims ==
  ASSUME TypeOK, ClaimInv, Structure', NEW S \in SUBSET Jobs, DeleteJobs(S),
         UNCHANGED worker
  PROVE  ClaimInv'
<1>0. /\ Structure /\ LeasesHeld /\ ExclusiveClaim /\ ReadsStillTrue
      /\ FinishedIsDrained /\ VerdictIsTrue /\ RetryBudget /\ StoreTypeOK
  BY DEF ClaimInv, TypeOK
<1>1. /\ \A j \in Jobs : jobs'[j] = IF j \in S /\ JobExists(j) THEN "deleted" ELSE jobs[j]
      /\ \A t \in TaskIds : tasks'[t] = IF tasks[t].job \in S THEN NoTask ELSE tasks[t]
  BY <1>0, DeleteJobsEffect
<1>2. ASSUME NEW k \in Jobs, k \notin S
      PROVE  Pending(k)' = Pending(k) /\ Failed(k)' = Failed(k)
  <2>1. \A t \in TaskIds : tasks'[t] = tasks[t] \/ (tasks[t].job # k /\ tasks'[t].job # k)
    BY <1>1, <1>2, NoneAssumption DEF NoTask
  <2>. QED BY <2>1, SameCounts
<1>3. ASSUME NEW k \in S PROVE Pending(k)' = {} /\ ~JobExists(k)'
  <2>1. \A t \in TaskIds : tasks'[t].job # k
    BY <1>1, NoneAssumption DEF NoTask
  <2>. QED BY <1>1, <2>1 DEF Pending, TasksOf, JobExists, NoRow
<1>4. ASSUME NEW w \in Workers, worker[w].pc # "idle"
      PROVE  SnapshotOK(w) /\ JobOf(w)' = JobOf(w) /\ JobOf(w) \in Jobs
  BY <1>0, <1>4 DEF Structure, SnapshotsOK, SnapshotOK, At, JobOf
<1>5. LeasesHeld'
  <2>. SUFFICES ASSUME NEW w \in Workers, worker[w].pc \in Handling, JobExists(JobOf(w))'
                PROVE  LeaseHeld(w)'
    BY DEF LeasesHeld
  <2>1. SnapshotOK(w) /\ JobOf(w)' = JobOf(w) /\ JobOf(w) \in Jobs
    BY <1>4 DEF Handling
  <2>2. JobOf(w) \notin S /\ JobExists(JobOf(w))
    BY <1>1, <2>1 DEF JobExists, NoRow
  <2>3. tasks'[worker[w].id] = tasks[worker[w].id]
    BY <1>1, <2>1, <2>2 DEF SnapshotOK
  <2>. QED BY <1>0, <2>2, <2>3 DEF LeasesHeld, LeaseHeld
<1>6. ExclusiveClaim'
  BY <1>0 DEF ExclusiveClaim
<1>7. ReadsStillTrue'
  <2>. SUFFICES ASSUME NEW w \in Workers, worker[w].pc \in {"failed", "finish"}
                PROVE  /\ Pending(JobOf(w))' = {}
                       /\ (worker[w].pc = "finish" /\ JobExists(JobOf(w))') =>
                            (worker[w].verdict = "completed" <=> Failed(JobOf(w))' = {})
    BY DEF ReadsStillTrue, At
  <2>1. PICK k \in Jobs : k = JobOf(w) /\ JobOf(w)' = k
    BY <1>4
  <2>2. /\ Pending(JobOf(w))' = Pending(k)' /\ Failed(JobOf(w))' = Failed(k)'
        /\ JobExists(JobOf(w))' <=> JobExists(k)'
    BY <2>1 DEF Pending, Failed, TasksOf, JobExists
  <2>3. CASE k \in S
    BY <1>3, <2>2, <2>3
  <2>4. CASE k \notin S
    <3>1. JobExists(k)' => JobExists(k)
      BY <1>1, <2>4 DEF JobExists
    <3>. QED BY <1>0, <1>2, <2>1, <2>2, <2>4, <3>1 DEF ReadsStillTrue, At
  <2>. QED BY <2>3, <2>4
<1>8. FinishedIsDrained' /\ VerdictIsTrue'
  <2>. SUFFICES ASSUME NEW k \in Jobs, jobs'[k] \in Finished
                PROVE  /\ Pending(k)' = {}
                       /\ jobs'[k] = "completed" => Failed(k)' = {}
                       /\ jobs'[k] = "completed_with_errors" => Failed(k)' # {}
    BY DEF FinishedIsDrained, VerdictIsTrue, Finished
  <2>1. k \notin S /\ jobs'[k] = jobs[k]
    BY <1>1 DEF Finished, JobExists, NoRow
  <2>. QED BY <1>0, <1>2, <2>1 DEF FinishedIsDrained, VerdictIsTrue
<1>9. RetryBudget'
  BY <1>0, <1>1, ConfigAssumption DEF RetryBudget, NoTask
<1>. QED BY <1>5, <1>6, <1>7, <1>8, <1>9 DEF ClaimInv

\* A request adds a job of its own, which nobody has claimed anything of.
LEMMA ApiKeepsClaims ==
  ASSUME TypeOK, ClaimInv, TypeOK', Structure', NEW j \in Jobs, ApiStep(j),
         UNCHANGED worker
  PROVE  ClaimInv'
<1>0. StoreTypeOK /\ ApiTypeOK /\ Structure /\ \A w \in Workers : QuietWorker(w)
  BY DEF ClaimInv, TypeOK, QuietWorker
<1>1. CASE UNCHANGED <<jobs, tasks>>
  BY <1>0, <1>1, ClaimFrame DEF Quiet, QuietRows, QuietJobs, QuietLeases, JobExists
<1>2. CASE CommitJob(j) /\ jobs' = [jobs EXCEPT ![j] = "queued"]
           /\ InsertTasks(j, request[j].keep, 0)
  <2>1. jobs[j] = "absent" /\ request[j].keep \in SUBSET Urls
    BY <1>0, <1>2 DEF CommitJob, Structure, RequestsOK, ApiTypeOK
  <2>2. jobs'[j] = "queued" /\ \A k \in Jobs : k # j => jobs'[k] = jobs[k]
    BY <1>0, <1>2 DEF StoreTypeOK
  <2>3. \A t \in TaskIds :
          \/ tasks'[t] = tasks[t]
          \/ /\ nextId <= t /\ t < nextId'
             /\ \E u \in request[j].keep : tasks'[t] = NewTask(j, u, 0)
    BY <1>0, <1>2, <2>1, InsertTasksEffect
  <2>4. \A t \in TaskIds : tasks'[t] = tasks[t] \/ (FreshRow(t) /\ tasks'[t].job = j)
    <3>. SUFFICES ASSUME NEW t \in TaskIds, tasks'[t] # tasks[t]
                  PROVE  FreshRow(t) /\ tasks'[t].job = j
      OBVIOUS
    <3>1. /\ tasks'[t].job = j /\ tasks'[t].status = "queued"
          /\ tasks'[t].attempts = 0 /\ tasks'[t].requested \in Urls
      <4>1. PICK u \in request[j].keep : tasks'[t] = NewTask(j, u, 0)
        BY <2>3
      <4>2. u \in Urls
        BY <2>1
      <4>. QED BY <4>1, <4>2 DEF NewTask
    <3>2. JobExists(tasks[t].job)'
      BY <2>2, <3>1 DEF JobExists, NoRow
    <3>3. nextId <= t /\ t < nextId'
      BY <2>3
    <3>. QED BY <3>1, <3>2, <3>3 DEF FreshRow
  <2>5. QuietJobs /\ jobs'[j] \notin Finished
    BY <2>1, <2>2 DEF QuietJobs, Finished, JobExists
  <2>6. \A v \in Workers : worker[v].pc \in {"failed", "finish"} => JobOf(v) # j
    BY <1>0, <2>1 DEF Structure, SnapshotsOK, SnapshotOK, At
  <2>. QED BY <1>0, <2>4, <2>5, <2>6, InsertKeepsClaims
<1>. QED BY <1>1, <1>2 DEF ApiStep, Submit, CheckSeed, CommitJob, tables

\* A statement of handleTask keeps the claims: it writes no status of a row, and
\* the rows it adds belong to a job that its own claim keeps open.
LEMMA HandlerKeepsClaims ==
  ASSUME TypeOK, ClaimInv, TypeOK', Structure', NEW w \in Workers, HandlerStep(w)
  PROVE  ClaimInv'
<1>0. /\ StoreTypeOK /\ WorkerTypeOK /\ Structure /\ Moves(w)
      /\ worker[w].pc \in Handling /\ \A v \in Workers : QuietWorker(v)
  <2>1. StoreTypeOK /\ WorkerTypeOK /\ Structure
    BY DEF TypeOK, ClaimInv
  <2>2. Moves(w)
    BY <2>1, HandlerMoves
  <2>. QED BY <2>1, <2>2, MovesQuiet DEF Moves
<1>1. /\ worker[w].id \in TaskIds /\ worker[w].row \in TaskRow
      /\ JobOf(w) \in Jobs /\ worker[w].todo \in SUBSET Urls
  BY <1>0 DEF Structure, SnapshotsOK, SnapshotOK, At, Handling, WorkerTypeOK, WorkerState
<1>2. CASE UNCHANGED <<jobs, tasks>>
  BY <1>0, <1>2, ClaimFrame DEF Quiet, QuietRows, QuietJobs, QuietLeases, JobExists
<1>3. ASSUME UNCHANGED tasks, NEW s \in {"cancelled", "running"},
             UpdateJobStatus(JobOf(w), s)
      PROVE  ClaimInv'
  <2>1. \A k \in Jobs : jobs'[k] = IF k = JobOf(w) /\ JobExists(JobOf(w)) THEN s ELSE jobs[k]
    BY <1>0, <1>1, <1>3, UpdateJobStatusEffect DEF JobStatus
  <2>2. QuietJobs
    BY <2>1 DEF QuietJobs, Finished, JobExists
  <2>. QED BY <1>0, <1>3, <2>2, ClaimFrame DEF Quiet, QuietRows, QuietLeases
<1>4. ASSUME NEW u, UpdateTaskFinalURL(worker[w].id, u), UNCHANGED jobs
      PROVE  ClaimInv'
  <2>1. \A t \in TaskIds : /\ tasks'[t].job = tasks[t].job
                           /\ tasks'[t].status = tasks[t].status
                           /\ tasks'[t].attempts = tasks[t].attempts
                           /\ tasks'[t].heartbeat = tasks[t].heartbeat
    BY <1>0, <1>1, <1>4 DEF UpdateTaskFinalURL, StoreTypeOK, TaskRow
  <2>2. QuietLeases
    BY <1>0, <1>1, <2>1 DEF QuietLeases, QuietWorker, Structure, SnapshotsOK, SnapshotOK,
                            At, Handling
  <2>. QED BY <1>0, <1>4, <2>1, <2>2, ClaimFrame DEF Quiet, QuietRows, QuietJobs, JobExists
<1>5. ASSUME NEW S \in SUBSET Urls, JobExists(JobOf(w)), UNCHANGED jobs,
             InsertTasks(JobOf(w), S, worker[w].row.depth + 1)
      PROVE  ClaimInv'
  <2>1. \A t \in TaskIds :
          tasks'[t] = tasks[t] \/ (FreshRow(t) /\ tasks'[t].job = JobOf(w))
    BY <1>1, <1>5, InsertRowsEvolve
  <2>2. /\ jobs[JobOf(w)] \notin Finished
        /\ \A v \in Workers : worker[v].pc \in {"failed", "finish"} => JobOf(v) # JobOf(w)
    BY <1>0, <1>5, HandlingKeepsOpen
  <2>3. PICK j \in Jobs : j = JobOf(w)
    BY <1>1
  <2>4. QuietJobs /\ jobs'[j] \notin Finished
    BY <1>5, <2>2, <2>3 DEF QuietJobs, JobExists
  <2>. QED BY <1>0, <2>1, <2>2, <2>3, <2>4, InsertKeepsClaims
<1>6. CASE GetJob(w) \/ Dispatch(w) \/ StoreDocument(w) \/ MarkSeen(w) \/ Expand(w)
           \/ CountTasks(w) \/ \E u \in Urls : SkipSeen(w, u)
  BY <1>2, <1>6
  DEF GetJob, Dispatch, StoreDocument, MarkSeen, Expand, CountTasks, SkipSeen, tables
<1>7. CASE CancelOverdue(w) \/ StartQueued(w)
  BY <1>2, <1>3, <1>7 DEF CancelOverdue, StartQueued, StartJob
<1>8. CASE FetchPage(w) \/ FetchMapPage(w)
  BY <1>2, <1>4, <1>8 DEF FetchPage, FetchMapPage, tables
<1>9. ASSUME NEW u \in Urls, InsertLink(w, u) PROVE ClaimInv'
  BY <1>2, <1>5, <1>9 DEF InsertLink
<1>10. CASE InsertMap(w)
  BY <1>1, <1>2, <1>5, <1>10 DEF InsertMap
<1>11. CASE Settle(w)
  BY <1>11, SettleTask
<1>. QED BY <1>6, <1>7, <1>8, <1>9, <1>10, <1>11 DEF HandlerStep

\* Heartbeats, crashes and lease timeouts keep the claims: a lease runs out only
\* when nobody is left to renew it.
LEMMA BackgroundKeepsClaims ==
  ASSUME HeartbeatsKeepUp, TypeOK, ClaimInv, TypeOK', Structure',
         \/ \E w \in Workers : Heartbeat(w) \/ Crash(w)
         \/ \E t \in TaskIds : LeaseExpires(t)
  PROVE  ClaimInv'
<1>0. StoreTypeOK /\ WorkerTypeOK /\ Structure
  BY DEF TypeOK, ClaimInv
<1>1. ASSUME NEW w \in Workers, Crash(w) PROVE ClaimInv'
  <2>1. /\ worker'[w].pc = "idle"
        /\ \A v \in Workers : v # w => worker'[v] = worker[v]
        /\ UNCHANGED <<jobs, tasks>>
    BY <1>0, <1>1, ReleaseEffect DEF Crash, tables
  <2>. QED BY <2>1, ClaimFrame
       DEF Quiet, QuietRows, QuietJobs, QuietLeases, QuietWorker, JobExists
<1>2. ASSUME UNCHANGED <<jobs, worker>>, QuietRows, QuietLeases PROVE ClaimInv'
  BY <1>2, ClaimFrame DEF Quiet, QuietJobs, QuietWorker, JobExists
<1>3. ASSUME NEW w \in Workers, Heartbeat(w) PROVE ClaimInv'
  <2>1. worker[w].id \in TaskIds /\ UNCHANGED <<jobs, worker>>
    BY <1>0, <1>3 DEF Heartbeat, Structure, SnapshotsOK, SnapshotOK
  <2>2. \A t \in TaskIds : /\ tasks'[t].job = tasks[t].job
                           /\ tasks'[t].status = tasks[t].status
                           /\ tasks'[t].attempts = tasks[t].attempts
                           /\ tasks'[t].heartbeat \in {tasks[t].heartbeat, "fresh"}
    BY <1>0, <1>3, <2>1
    DEF Heartbeat, UpdateTaskHeartbeat, UpdateTask, StoreTypeOK, TaskRow
  <2>3. QuietLeases
    BY <1>0, <2>1, <2>2 DEF QuietLeases, Structure, SnapshotsOK, SnapshotOK, At, Handling
  <2>. QED BY <1>2, <2>1, <2>2, <2>3 DEF QuietRows
<1>4. ASSUME NEW t \in TaskIds, LeaseExpires(t) PROVE ClaimInv'
  <2>1. UNCHANGED <<jobs, worker>> /\ \A w \in Workers : worker[w].id # t
    BY <1>4 DEF LeaseExpires
  <2>2. \A s \in TaskIds : /\ tasks'[s].job = tasks[s].job
                           /\ tasks'[s].status = tasks[s].status
                           /\ tasks'[s].attempts = tasks[s].attempts
                           /\ s # t => tasks'[s] = tasks[s]
    BY <1>0, <1>4 DEF LeaseExpires, StoreTypeOK, TaskRow
  <2>3. QuietLeases
    BY <1>0, <2>1, <2>2 DEF QuietLeases, Structure, SnapshotsOK, SnapshotOK, At, Handling
  <2>. QED BY <1>2, <2>1, <2>2, <2>3 DEF QuietRows
<1>. QED BY <1>1, <1>3, <1>4

\* Sweeps and the passing of time keep the claims.
LEMMA SweepKeepsClaims ==
  ASSUME TypeOK, ClaimInv, TypeOK', Structure', UNCHANGED worker,
         \/ \E s \in Sweepers : SweepStep(s)
         \/ \E j \in Jobs : \E l \in Limits : LimitPasses(j, l)
  PROVE  ClaimInv'
<1>1. ASSUME UNCHANGED tasks, QuietJobs PROVE ClaimInv'
  BY <1>1, ClaimFrame DEF Quiet, QuietRows, QuietLeases, QuietWorker
<1>2. ASSUME UNCHANGED <<jobs, tasks>> PROVE ClaimInv'
  BY <1>1, <1>2 DEF QuietJobs, JobExists
<1>3. ASSUME NEW s \in Sweepers, CancelExpired(s) PROVE ClaimInv'
  <2>1. CASE jobs' = [j \in Jobs |->
                        IF j \in Expired /\ jobs[j] \notin Finished
                        THEN "cancelled" ELSE jobs[j]]
    <3>1. QuietJobs
      BY <2>1 DEF QuietJobs, Expired, Finished, JobExists
    <3>. QED BY <1>1, <1>3, <3>1 DEF CancelExpired
  <2>. QED BY <1>2, <1>3, <2>1 DEF CancelExpired
<1>4. ASSUME NEW s \in Sweepers, DeleteExpired(s) PROVE ClaimInv'
  <2>1. Deletable \in SUBSET Jobs
    BY DEF Deletable, Expired
  <2>. QED BY <1>2, <1>4, <2>1, DeleteKeepsClaims DEF DeleteExpired
<1>5. ASSUME NEW j \in Jobs, NEW l \in Limits, LimitPasses(j, l) PROVE ClaimInv'
  BY <1>2, <1>5 DEF LimitPasses, tables
<1>. QED BY <1>3, <1>4, <1>5 DEF SweepStep

-----------------------------------------------------------------------------
\* Every step keeps the claims.
LEMMA ClaimStep ==
  ASSUME HeartbeatsKeepUp, TypeOK, ClaimInv, [Next]_vars
  PROVE  ClaimInv'
<1>0. Structure
  BY DEF ClaimInv
<1>1. TypeOK' /\ Structure'
  BY <1>0, TypeStep
<1>2. CASE UNCHANGED vars
  BY <1>1, <1>2, ClaimFrame
  DEF vars, storeVars, Quiet, QuietRows, QuietJobs, QuietLeases, QuietWorker, JobExists
<1>3. ASSUME NEW w \in Workers, WorkerStep(w) PROVE ClaimInv'
  BY <1>1, <1>3, ClaimTask, HandlerKeepsClaims, CloseJob DEF WorkerStep, HandlerStep
<1>. QED
  BY <1>1, <1>2, <1>3, ApiKeepsClaims, BackgroundKeepsClaims, SweepKeepsClaims DEF Next

\* While heartbeats keep up, ClaimInv holds in every reachable state: claims,
\* remembered attempts and the counts FinishJob has read agree with the tables.
THEOREM ClaimsHold ==
  ASSUME HeartbeatsKeepUp
  PROVE  Spec => []ClaimInv
<1>1. Init => TypeOK /\ ClaimInv
  BY TypeInit, ClaimInit
<1>2. TypeOK /\ ClaimInv /\ [Next]_vars => (TypeOK /\ ClaimInv)'
  <2>. SUFFICES ASSUME TypeOK, ClaimInv, [Next]_vars PROVE TypeOK' /\ ClaimInv'
    OBVIOUS
  <2>1. Structure
    BY DEF ClaimInv
  <2>. QED BY <2>1, TypeStep, ClaimStep
<1>. QED BY <1>1, <1>2, PTL DEF Spec

\* While heartbeats keep up, FinishJob never closes a job that has a task left.
THEOREM FinishedJobsAreDrained ==
  ASSUME HeartbeatsKeepUp
  PROVE  Spec => []FinishedIsDrained
<1>1. ClaimInv => FinishedIsDrained
  BY DEF ClaimInv
<1>. QED BY <1>1, ClaimsHold, PTL

\* While heartbeats keep up, the status of a closed job tells whether one of its
\* tasks failed.
THEOREM VerdictsAreTrue ==
  ASSUME HeartbeatsKeepUp
  PROVE  Spec => []VerdictIsTrue
<1>1. ClaimInv => VerdictIsTrue
  BY DEF ClaimInv
<1>. QED BY <1>1, ClaimsHold, PTL

\* While heartbeats keep up, DequeueTask never gives a task to two workers.
THEOREM ClaimsAreExclusive ==
  ASSUME HeartbeatsKeepUp
  PROVE  Spec => []ExclusiveClaim
<1>1. ClaimInv => ExclusiveClaim
  BY DEF ClaimInv
<1>. QED BY <1>1, ClaimsHold, PTL

\* While heartbeats keep up, a task runs at most MaxRetries + 1 times to its end,
\* and fails exactly when all of these runs did.
THEOREM RetriesAreBounded ==
  ASSUME HeartbeatsKeepUp
  PROVE  Spec => []RetryBudget
<1>1. ClaimInv => RetryBudget
  BY DEF ClaimInv
<1>. QED BY <1>1, ClaimsHold, PTL

-----------------------------------------------------------------------------
(* The service as a ledger of jobs and tasks.                              *)

Unfinished == {"queued", "running", "cancelled"}

-----------------------------------------------------------------------------
(* The refinement mapping.                                                 *)

\* What the ledger sees of a job.
LEMMA JobView ==
  /\ LedgerJob \in [Jobs -> {"none", "dropped", "open"} \union Finished]
  /\ LedgerJob' \in [Jobs -> {"none", "dropped", "open"} \union Finished]
  /\ \A j \in Jobs :
       /\ jobs[j] = "absent" => LedgerJob[j] = "none"
       /\ jobs[j] = "deleted" => LedgerJob[j] = "dropped"
       /\ jobs[j] \in Finished => LedgerJob[j] = jobs[j]
       /\ jobs[j] \in Unfinished => LedgerJob[j] = "open"
       /\ jobs'[j] = "absent" => LedgerJob'[j] = "none"
       /\ jobs'[j] = "deleted" => LedgerJob'[j] = "dropped"
       /\ jobs'[j] \in Finished => LedgerJob'[j] = jobs'[j]
       /\ jobs'[j] \in Unfinished => LedgerJob'[j] = "open"
       /\ jobs'[j] = jobs[j] => LedgerJob'[j] = LedgerJob[j]
BY DEF LedgerJob, Finished, Unfinished

\* What the ledger sees of a task.
LEMMA TaskView ==
  ASSUME StoreTypeOK, StoreTypeOK'
  PROVE  /\ LedgerTask \in [TaskIds -> {"none", "pending", "done", "failed"}]
         /\ LedgerTask' \in [TaskIds -> {"none", "pending", "done", "failed"}]
         /\ \A t \in TaskIds :
              /\ tasks[t].status = "absent" <=> LedgerTask[t] = "none"
              /\ tasks[t].status \in {"queued", "processing"} <=> LedgerTask[t] = "pending"
              /\ tasks[t].status = "failed" <=> LedgerTask[t] = "failed"
              /\ tasks[t].status = "done" <=> LedgerTask[t] = "done"
              /\ tasks'[t].status = "absent" <=> LedgerTask'[t] = "none"
              /\ tasks'[t].status \in {"queued", "processing"} <=> LedgerTask'[t] = "pending"
              /\ tasks'[t].status = "failed" <=> LedgerTask'[t] = "failed"
              /\ tasks'[t].status = "done" <=> LedgerTask'[t] = "done"
<1>1. \A t \in TaskIds : /\ tasks[t].status \in TaskStatus \union {"absent"}
                         /\ tasks'[t].status \in TaskStatus \union {"absent"}
  BY DEF StoreTypeOK, TaskRow
<1>. QED BY <1>1 DEF LedgerTask, TaskStatus

\* The counts of the ledger are those of the store.
LEMMA LedgerCounts ==
  ASSUME StoreTypeOK, StoreTypeOK', NEW j
  PROVE  Ledger!PendingOf(j) = Pending(j) /\ Ledger!FailedOf(j) = Failed(j)
BY TaskView DEF Ledger!PendingOf, Ledger!FailedOf, Ledger!Of, Pending, Failed, TasksOf

-----------------------------------------------------------------------------
(* Steps the ledger does not see.                                          *)

\* Every row keeps its job and is as settled as before, and so is every job.
QuietLedger ==
  /\ \A t \in TaskIds :
       /\ tasks'[t].job = tasks[t].job
       /\ \/ tasks'[t].status = tasks[t].status
          \/ {tasks[t].status, tasks'[t].status} \subseteq {"queued", "processing"}
  /\ \A k \in Jobs : jobs'[k] = jobs[k] \/ {jobs[k], jobs'[k]} \subseteq Unfinished

\* Such a step is a stutter of the ledger.
LEMMA LedgerStutters ==
  ASSUME StoreTypeOK, StoreTypeOK', QuietLedger
  PROVE  UNCHANGED Ledger!vars
<1>1. UNCHANGED LedgerJob
  BY JobView DEF QuietLedger
<1>2. UNCHANGED LedgerTask
  <2>1. \A t \in TaskIds : LedgerTask'[t] = LedgerTask[t]
    BY TaskView DEF QuietLedger
  <2>. QED BY <2>1, TaskView
<1>3. UNCHANGED [t \in TaskIds |-> tasks[t].job]
  BY DEF QuietLedger
<1>. QED BY <1>1, <1>2, <1>3 DEF Ledger!vars

\* In particular, so are steps that write neither table.
LEMMA TablesStill ==
  ASSUME StoreTypeOK, StoreTypeOK', UNCHANGED <<jobs, tasks>>
  PROVE  UNCHANGED Ledger!vars
BY LedgerStutters DEF QuietLedger

-----------------------------------------------------------------------------
(* Steps it sees.                                                          *)

\* Fresh rows enter the ledger.
LEMMA RowsEnter ==
  ASSUME StoreTypeOK, StoreTypeOK', RowsOK, NEW j \in Jobs,
         \A t \in TaskIds : tasks'[t] = tasks[t] \/ (FreshRow(t) /\ tasks'[t].job = j)
  PROVE  \E T \in SUBSET TaskIds : Ledger!Enter(j, T)
<1>. DEFINE T == {t \in TaskIds : tasks'[t] # tasks[t]}
<1>1. ASSUME NEW t \in T
      PROVE  LedgerTask[t] = "none" /\ LedgerTask'[t] = "pending" /\ tasks'[t].job = j
  <2>1. FreshRow(t) /\ tasks'[t].job = j /\ t \in Int /\ nextId \in Int
    BY DEF TaskIds, StoreTypeOK
  <2>2. tasks[t] = NoTask
    BY <2>1 DEF FreshRow, RowsOK
  <2>. QED BY <2>1, <2>2, TaskView DEF FreshRow, NoTask
<1>2. ASSUME NEW t \in TaskIds, t \notin T
      PROVE  LedgerTask'[t] = LedgerTask[t] /\ tasks'[t].job = tasks[t].job
  BY <1>2, TaskView
<1>3. LedgerTask' = [t \in TaskIds |-> IF t \in T THEN "pending" ELSE LedgerTask[t]]
  <2>. HIDE DEF T
  <2>. QED BY <1>1, <1>2, TaskView
<1>4. [t \in TaskIds |-> tasks[t].job]'
        = [t \in TaskIds |-> IF t \in T THEN j ELSE [s \in TaskIds |-> tasks[s].job][t]]
  <2>. HIDE DEF T
  <2>. QED BY <1>1, <1>2
<1>5. \A t \in T : LedgerTask[t] = "none"
  BY <1>1
<1>6. T \in SUBSET TaskIds
  OBVIOUS
<1>. HIDE DEF T
<1>. QED BY <1>3, <1>4, <1>5, <1>6 DEF Ledger!Enter

\* The commit of a request is Accept; its other steps are hidden in the transaction.
LEMMA ApiLedger ==
  ASSUME TypeOK, ClaimInv, TypeOK', NEW j \in Jobs, ApiStep(j)
  PROVE  Ledger!Next \/ UNCHANGED Ledger!vars
<1>0. StoreTypeOK /\ StoreTypeOK' /\ ApiTypeOK /\ RowsOK /\ RequestsOK
  BY DEF TypeOK, ClaimInv, Structure
<1>1. CASE UNCHANGED <<jobs, tasks>>
  BY <1>0, <1>1, TablesStill
<1>2. CASE CommitJob(j) /\ jobs' = [jobs EXCEPT ![j] = "queued"]
           /\ InsertTasks(j, request[j].keep, 0)
  <2>1. jobs[j] = "absent" /\ request[j].keep \in SUBSET Urls
    BY <1>0, <1>2 DEF CommitJob, RequestsOK, ApiTypeOK
  <2>2. jobs'[j] = "queued" /\ \A k \in Jobs : k # j => jobs'[k] = jobs[k]
    BY <1>0, <1>2 DEF StoreTypeOK
  <2>3. \A t \in TaskIds :
          \/ tasks'[t] = tasks[t]
          \/ /\ nextId <= t /\ t < nextId'
             /\ \E u \in request[j].keep : tasks'[t] = NewTask(j, u, 0)
    BY <1>0, <1>2, <2>1, InsertTasksEffect
  <2>4. \A t \in TaskIds : tasks'[t] = tasks[t] \/ (FreshRow(t) /\ tasks'[t].job = j)
    <3>. SUFFICES ASSUME NEW t \in TaskIds, tasks'[t] # tasks[t]
                  PROVE  FreshRow(t) /\ tasks'[t].job = j
      OBVIOUS
    <3>1. PICK u \in request[j].keep : tasks'[t] = NewTask(j, u, 0)
      BY <2>3
    <3>2. u \in Urls
      BY <2>1
    <3>3. /\ tasks'[t].job = j /\ tasks'[t].status = "queued"
          /\ tasks'[t].attempts = 0 /\ tasks'[t].requested \in Urls
      BY <3>1, <3>2 DEF NewTask
    <3>4. nextId <= t /\ t < nextId'
      BY <2>3
    <3>. QED BY <2>2, <3>3, <3>4 DEF FreshRow, JobExists, NoRow
  <2>5. \E T \in SUBSET TaskIds : Ledger!Enter(j, T)
    BY <1>0, <2>4, RowsEnter
  <2>6. LedgerJob[j] = "none" /\ LedgerJob' = [LedgerJob EXCEPT ![j] = "open"]
    BY <2>1, <2>2, JobView DEF Unfinished
  <2>. QED BY <2>5, <2>6 DEF Ledger!Next, Ledger!Accept
<1>. QED BY <1>1, <1>2 DEF ApiStep, Submit, CheckSeed, CommitJob, tables

\* Rows that a worker inserts are Discover: its own task keeps the job open.
LEMMA LinksLedger ==
  ASSUME TypeOK, ClaimInv, TypeOK', NEW w \in Workers, worker[w].pc \in Handling,
         JobExists(JobOf(w)), NEW S \in SUBSET Urls, UNCHANGED jobs,
         InsertTasks(JobOf(w), S, worker[w].row.depth + 1)
  PROVE  Ledger!Next
<1>0. StoreTypeOK /\ StoreTypeOK' /\ RowsOK /\ worker[w].row \in TaskRow
  BY DEF TypeOK, ClaimInv, Structure, WorkerTypeOK, WorkerState
<1>1. /\ JobOf(w) \in Jobs /\ Pending(JobOf(w)) # {}
      /\ jobs[JobOf(w)] \notin Finished
  BY HandlingKeepsOpen
<1>2. \A t \in TaskIds : tasks'[t] = tasks[t] \/ (FreshRow(t) /\ tasks'[t].job = JobOf(w))
  BY <1>0, <1>1, InsertRowsEvolve
<1>3. PICK j \in Jobs : j = JobOf(w)
  BY <1>1
<1>4. \E T \in SUBSET TaskIds : Ledger!Enter(j, T)
  BY <1>0, <1>2, <1>3, RowsEnter
<1>5. LedgerJob[j] = "open" /\ UNCHANGED LedgerJob
  BY <1>0, <1>1, <1>3, JobView DEF JobExists, JobStatus, Unfinished, StoreTypeOK
<1>6. Ledger!PendingOf(j) # {}
  BY <1>0, <1>1, <1>3, LedgerCounts
<1>. QED BY <1>4, <1>5, <1>6 DEF Ledger!Next, Ledger!Discover

\* CompleteTask and FailTask are Settle; RetryTask leaves the task pending.
LEMMA SettleLedger ==
  ASSUME TypeOK, ClaimInv, TypeOK', NEW w \in Workers, Settle(w)
  PROVE  Ledger!Next \/ UNCHANGED Ledger!vars
<1>. DEFINE i == worker[w].id
<1>0. /\ StoreTypeOK /\ StoreTypeOK' /\ UNCHANGED <<jobs, nextId>>
      /\ worker[w].pc \in Handling /\ SnapshotOK(w)
  BY DEF TypeOK, ClaimInv, Structure, SnapshotsOK, Settle, Handling, At
<1>1. CASE UNCHANGED tasks
  BY <1>0, <1>1, TablesStill
<1>2. CASE (CompleteTask(i) \/ RetryTask(i) \/ FailTask(i)) /\ ~JobExists(JobOf(w))
  <2>1. ~TaskExists(i)
    BY <1>0, <1>2 DEF SnapshotOK, TaskExists, NoTask
  <2>. QED BY <1>1, <1>2, <2>1 DEF CompleteTask, RetryTask, FailTask, UpdateTask
<1>3. CASE (CompleteTask(i) \/ RetryTask(i) \/ FailTask(i)) /\ JobExists(JobOf(w))
  <2>1. /\ i \in TaskIds /\ TaskExists(i) /\ tasks[i].job = JobOf(w) /\ JobOf(w) \in Jobs
        /\ LeaseHeld(w) /\ jobs[JobOf(w)] \notin Finished
    BY <1>0, <1>3, HandlingKeepsOpen
  <2>2. /\ \A s \in TaskIds : s # i => tasks'[s] = tasks[s]
        /\ tasks'[i].job = tasks[i].job
        /\ tasks'[i].status \in {"queued", "done", "failed"}
    BY <1>0, <1>3, <2>1, SettleRowEffect
  <2>3. CASE tasks'[i].status = "queued"
    <3>1. QuietLedger
      BY <1>0, <2>1, <2>2, <2>3 DEF QuietLedger, LeaseHeld
    <3>. QED BY <1>0, <3>1, LedgerStutters
  <2>4. ASSUME NEW outcome \in {"done", "failed"}, tasks'[i].status = outcome
        PROVE  Ledger!Next
    <3>1. LedgerTask[i] = "pending" /\ LedgerTask'[i] = outcome
      BY <1>0, <2>1, <2>4, TaskView DEF LeaseHeld
    <3>2. \A s \in TaskIds : s # i => LedgerTask'[s] = LedgerTask[s]
      BY <1>0, <2>2, TaskView
    <3>3. LedgerTask' = [LedgerTask EXCEPT ![i] = outcome]
      BY <1>0, <2>1, <3>1, <3>2, TaskView
    <3>4. UNCHANGED [t \in TaskIds |-> tasks[t].job]
      BY <2>1, <2>2
    <3>5. UNCHANGED LedgerJob
      BY <1>0, JobView
    <3>6. LedgerJob[[t \in TaskIds |-> tasks[t].job][i]] = "open"
      BY <1>0, <1>3, <2>1, JobView DEF JobExists, JobStatus, Unfinished, StoreTypeOK
    <3>. QED BY <2>1, <3>1, <3>3, <3>4, <3>5, <3>6 DEF Ledger!Next, Ledger!Settle
  <2>. QED BY <2>2, <2>3, <2>4
<1>. QED BY <1>1, <1>2, <1>3 DEF Settle

\* The last statement of FinishJob is Close, unless another worker was first: then
\* it writes the status the job has.
LEMMA FinishLedger ==
  ASSUME TypeOK, ClaimInv, TypeOK', NEW w \in Workers, FinishJob(w)
  PROVE  Ledger!Next \/ UNCHANGED Ledger!vars
<1>0. /\ StoreTypeOK /\ StoreTypeOK' /\ UNCHANGED tasks
      /\ JobOf(w) \in Jobs /\ worker[w].verdict \in Finished
  BY DEF TypeOK, ClaimInv, Structure, SnapshotsOK, SnapshotOK, FinishJob, At, WorkerTypeOK,
         WorkerState
<1>1. CASE UNCHANGED jobs
  BY <1>0, <1>1, TablesStill
<1>2. CASE UpdateJobStatus(JobOf(w), worker[w].verdict) /\ JobExists(JobOf(w))
  <2>. DEFINE v == worker[w].verdict
  <2>1. PICK j \in Jobs : j = JobOf(w)
    BY <1>0
  <2>2. /\ Pending(j) = {}
        /\ v = "completed" <=> Failed(j) = {}
    BY <1>2, <2>1 DEF ClaimInv, ReadsStillTrue, FinishJob, At
  <2>3. jobs'[j] = v /\ \A k \in Jobs : k # j => jobs'[k] = jobs[k]
    BY <1>0, <1>2, <2>1, UpdateJobStatusEffect DEF JobStatus
  <2>4. CASE jobs[j] \in Finished
    <3>1. jobs[j] = v
      BY <1>0, <2>2, <2>4 DEF ClaimInv, VerdictIsTrue, Finished
    <3>2. QuietLedger
      BY <1>0, <2>3, <3>1 DEF QuietLedger
    <3>. QED BY <1>0, <3>2, LedgerStutters
  <2>5. CASE jobs[j] \notin Finished
    <3>1. jobs[j] \in Unfinished
      BY <1>0, <1>2, <2>1, <2>5 DEF JobExists, JobStatus, Unfinished, StoreTypeOK
    <3>2. LedgerJob[j] = "open" /\ LedgerJob' = [LedgerJob EXCEPT ![j] = v]
      BY <1>0, <2>3, <3>1, JobView
    <3>3. Ledger!PendingOf(j) = {} /\ Ledger!Verdict(j) = v
      BY <1>0, <2>2, LedgerCounts DEF Ledger!Verdict, Finished
    <3>4. UNCHANGED LedgerTask /\ UNCHANGED [t \in TaskIds |-> tasks[t].job]
      BY <1>0 DEF LedgerTask
    <3>. QED BY <3>2, <3>3, <3>4 DEF Ledger!Next, Ledger!Close
  <2>. QED BY <2>4, <2>5
<1>. QED BY <1>1, <1>2 DEF FinishJob, UpdateJobStatus

-----------------------------------------------------------------------------
(* Every step.                                                             *)

\* A claim leaves the task pending.
LEMMA ClaimLedger ==
  ASSUME TypeOK, TypeOK', NEW w \in Workers, NEW t \in TaskIds, Claim(w, t)
  PROVE  UNCHANGED Ledger!vars
<1>0. StoreTypeOK /\ StoreTypeOK' /\ UNCHANGED jobs
  BY DEF TypeOK, Claim
<1>1. tasks[t].status \in {"queued", "processing"}
  BY DEF Claim, Claimable, Eligible
<1>2. ClaimedRow(t).job = tasks[t].job /\ ClaimedRow(t).status = "processing"
  BY <1>0 DEF ClaimedRow, StoreTypeOK, TaskRow
<1>3. \A s \in TaskIds : tasks'[s] = IF s = t THEN ClaimedRow(t) ELSE tasks[s]
  BY <1>0 DEF Claim, StoreTypeOK
<1>4. QuietLedger
  BY <1>0, <1>1, <1>2, <1>3 DEF QuietLedger
<1>. QED BY <1>0, <1>4, LedgerStutters

\* Of the statements of handleTask the ledger sees the inserts only: a job that is
\* started or cancelled under its worker stays open.
LEMMA HandlerLedger ==
  ASSUME TypeOK, ClaimInv, TypeOK', NEW w \in Workers, HandlerStep(w)
  PROVE  Ledger!Next \/ UNCHANGED Ledger!vars
<1>0. /\ StoreTypeOK /\ StoreTypeOK' /\ worker[w].pc \in Handling
  <2>1. Moves(w)
    BY HandlerMoves DEF TypeOK
  <2>. QED BY <2>1 DEF TypeOK, Moves
<1>1. /\ worker[w].id \in TaskIds /\ JobOf(w) \in Jobs /\ worker[w].todo \in SUBSET Urls
  BY <1>0 DEF ClaimInv, Structure, SnapshotsOK, SnapshotOK, At, Handling, TypeOK,
              WorkerTypeOK, WorkerState
<1>2. CASE UNCHANGED <<jobs, tasks>>
  BY <1>0, <1>2, TablesStill
<1>3. ASSUME UNCHANGED tasks, NEW s \in {"cancelled", "running"},
             UpdateJobStatus(JobOf(w), s)
      PROVE  UNCHANGED Ledger!vars
  <2>1. \A k \in Jobs : jobs'[k] = IF k = JobOf(w) /\ JobExists(JobOf(w)) THEN s ELSE jobs[k]
    BY <1>0, <1>1, <1>3, UpdateJobStatusEffect DEF JobStatus
  <2>2. JobExists(JobOf(w)) => jobs[JobOf(w)] \in Unfinished
    BY <1>0, <1>1, HandlingKeepsOpen DEF JobExists, JobStatus, Unfinished, StoreTypeOK
  <2>3. QuietLedger
    BY <1>3, <2>1, <2>2 DEF QuietLedger, Unfinished
  <2>. QED BY <1>0, <2>3, LedgerStutters
<1>4. ASSUME NEW u, UpdateTaskFinalURL(worker[w].id, u), UNCHANGED jobs
      PROVE  UNCHANGED Ledger!vars
  <2>1. \A t \in TaskIds : /\ tasks'[t].job = tasks[t].job
                           /\ tasks'[t].status = tasks[t].status
    BY <1>0, <1>1, <1>4 DEF UpdateTaskFinalURL, StoreTypeOK, TaskRow
  <2>2. QuietLedger
    BY <1>4, <2>1 DEF QuietLedger
  <2>. QED BY <1>0, <2>2, LedgerStutters
<1>5. ASSUME NEW S \in SUBSET Urls, JobExists(JobOf(w)), UNCHANGED jobs,
             InsertTasks(JobOf(w), S, worker[w].row.depth + 1)
      PROVE  Ledger!Next
  BY <1>0, <1>5, LinksLedger
<1>6. CASE GetJob(w) \/ Dispatch(w) \/ StoreDocument(w) \/ MarkSeen(w) \/ Expand(w)
           \/ CountTasks(w) \/ \E u \in Urls : SkipSeen(w, u)
  BY <1>2, <1>6
  DEF GetJob, Dispatch, StoreDocument, MarkSeen, Expand, CountTasks, SkipSeen, tables
<1>7. CASE CancelOverdue(w) \/ StartQueued(w)
  BY <1>2, <1>3, <1>7 DEF CancelOverdue, StartQueued, StartJob
<1>8. CASE FetchPage(w) \/ FetchMapPage(w)
  BY <1>2, <1>4, <1>8 DEF FetchPage, FetchMapPage, tables
<1>9. ASSUME NEW u \in Urls, InsertLink(w, u)
      PROVE  Ledger!Next \/ UNCHANGED Ledger!vars
  BY <1>2, <1>5, <1>9 DEF InsertLink
<1>10. CASE InsertMap(w)
  BY <1>1, <1>2, <1>5, <1>10 DEF InsertMap
<1>11. CASE Settle(w)
  BY <1>11, SettleLedger
<1>. QED BY <1>6, <1>7, <1>8, <1>9, <1>10, <1>11 DEF HandlerStep

\* Heartbeats, crashes and lost leases are not seen.
LEMMA BackgroundLedger ==
  ASSUME TypeOK, ClaimInv, TypeOK',
         \/ \E w \in Workers : Heartbeat(w) \/ Crash(w)
         \/ \E t \in TaskIds : LeaseExpires(t)
  PROVE  UNCHANGED Ledger!vars
<1>0. StoreTypeOK /\ StoreTypeOK' /\ Structure
  BY DEF TypeOK, ClaimInv
<1>1. ASSUME NEW w \in Workers, Crash(w) PROVE UNCHANGED Ledger!vars
  BY <1>0, <1>1, TablesStill DEF Crash, tables
<1>2. ASSUME NEW w \in Workers, Heartbeat(w) PROVE UNCHANGED Ledger!vars
  <2>1. worker[w].id \in TaskIds /\ UNCHANGED jobs
    BY <1>0, <1>2 DEF Heartbeat, Structure, SnapshotsOK, SnapshotOK
  <2>2. \A t \in TaskIds : /\ tasks'[t].job = tasks[t].job
                           /\ tasks'[t].status = tasks[t].status
    BY <1>0, <1>2, <2>1
    DEF Heartbeat, UpdateTaskHeartbeat, UpdateTask, StoreTypeOK, TaskRow
  <2>3. QuietLedger
    BY <2>1, <2>2 DEF QuietLedger
  <2>. QED BY <1>0, <2>3, LedgerStutters
<1>3. ASSUME NEW t \in TaskIds, LeaseExpires(t) PROVE UNCHANGED Ledger!vars
  <2>1. \A s \in TaskIds : /\ tasks'[s].job = tasks[s].job
                           /\ tasks'[s].status = tasks[s].status
    BY <1>0, <1>3 DEF LeaseExpires, StoreTypeOK, TaskRow
  <2>2. QuietLedger
    BY <1>3, <2>1 DEF QuietLedger, LeaseExpires
  <2>. QED BY <1>0, <2>2, LedgerStutters
<1>. QED BY <1>1, <1>2, <1>3

\* The DELETE of a sweep is Drop: the cascade takes the rows of its jobs and no others.
LEMMA DeleteLedger ==
  ASSUME TypeOK, TypeOK', DeleteJobs(Deletable)
  PROVE  Ledger!Next
<1>0. /\ StoreTypeOK /\ StoreTypeOK'
      /\ Deletable \in SUBSET Jobs /\ \A j \in Deletable : JobExists(j)
  BY DEF TypeOK, Deletable, Expired
<1>1. PICK S \in SUBSET Jobs : S = Deletable
  BY <1>0
<1>2. /\ \A j \in Jobs : jobs'[j] = IF j \in S /\ JobExists(j) THEN "deleted" ELSE jobs[j]
      /\ \A t \in TaskIds : tasks'[t] = IF tasks[t].job \in S THEN NoTask ELSE tasks[t]
  BY <1>0, <1>1, DeleteJobsEffect
<1>3. \A j \in S : LedgerJob[j] \in {"open"} \union Ledger!Verdicts
  <2>1. \A j \in S : jobs[j] \in Unfinished \union Finished
    BY <1>0, <1>1 DEF StoreTypeOK, JobExists, JobStatus, Unfinished
  <2>. QED BY <2>1, JobView DEF Finished, Ledger!Verdicts
<1>4. LedgerJob' = [j \in Jobs |-> IF j \in S THEN "dropped" ELSE LedgerJob[j]]
  <2>1. ASSUME NEW j \in Jobs
        PROVE  LedgerJob'[j] = IF j \in S THEN "dropped" ELSE LedgerJob[j]
    BY <1>0, <1>1, <1>2, JobView
  <2>. QED BY <2>1, JobView
<1>5. [t \in TaskIds |-> tasks[t].job]'
        = [t \in TaskIds |-> IF [s \in TaskIds |-> tasks[s].job][t] \in S THEN NoJob
                             ELSE [s \in TaskIds |-> tasks[s].job][t]]
  BY <1>2 DEF NoTask
<1>6. LedgerTask'
        = [t \in TaskIds |-> IF [s \in TaskIds |-> tasks[s].job][t] \in S THEN "none"
                             ELSE LedgerTask[t]]
  <2>1. ASSUME NEW t \in TaskIds
        PROVE  LedgerTask'[t] = IF tasks[t].job \in S THEN "none" ELSE LedgerTask[t]
    BY <1>0, <1>2, TaskView DEF NoTask
  <2>. QED BY <1>0, <2>1, TaskView
<1>. QED BY <1>3, <1>4, <1>5, <1>6 DEF Ledger!Next, Ledger!Drop

\* A sweep cancels jobs that are not closed, and drops jobs.
LEMMA SweepLedger ==
  ASSUME TypeOK, TypeOK',
         \/ \E s \in Sweepers : SweepStep(s)
         \/ \E j \in Jobs : \E l \in Limits : LimitPasses(j, l)
  PROVE  Ledger!Next \/ UNCHANGED Ledger!vars
<1>0. StoreTypeOK /\ StoreTypeOK'
  BY DEF TypeOK
<1>1. ASSUME UNCHANGED <<jobs, tasks>> PROVE UNCHANGED Ledger!vars
  BY <1>0, <1>1, TablesStill
<1>2. ASSUME NEW s \in Sweepers, CancelExpired(s)
      PROVE  UNCHANGED Ledger!vars
  <2>1. CASE jobs' = [j \in Jobs |->
                        IF j \in Expired /\ jobs[j] \notin Finished
                        THEN "cancelled" ELSE jobs[j]]
    <3>1. \A j \in Expired : jobs[j] \in Unfinished \union Finished
      BY <1>0 DEF Expired, StoreTypeOK, JobExists, JobStatus, Unfinished
    <3>2. QuietLedger
      BY <1>2, <2>1, <3>1 DEF QuietLedger, CancelExpired, Unfinished
    <3>. QED BY <1>0, <3>2, LedgerStutters
  <2>. QED BY <1>1, <1>2, <2>1 DEF CancelExpired
<1>3. ASSUME NEW s \in Sweepers, DeleteExpired(s)
      PROVE  Ledger!Next \/ UNCHANGED Ledger!vars
  BY <1>1, <1>3, DeleteLedger DEF DeleteExpired
<1>4. ASSUME NEW j \in Jobs, NEW l \in Limits, LimitPasses(j, l)
      PROVE  UNCHANGED Ledger!vars
  BY <1>1, <1>4 DEF LimitPasses, tables
<1>. QED BY <1>2, <1>3, <1>4 DEF SweepStep

\* The initial states map to the initial state of the ledger.
LEMMA LedgerInit == Init => Ledger!Init
<1>. SUFFICES ASSUME Init PROVE Ledger!Init
  OBVIOUS
<1>1. jobs = [j \in Jobs |-> "absent"] /\ tasks = [t \in TaskIds |-> NoTask]
  BY DEF Init, StoreInit
<1>2. LedgerJob = [j \in Jobs |-> "none"]
  BY <1>1, JobView
<1>3. LedgerTask = [t \in TaskIds |-> "none"]
  BY <1>1 DEF LedgerTask, NoTask
<1>4. [t \in TaskIds |-> tasks[t].job] = [t \in TaskIds |-> NoJob]
  BY <1>1 DEF NoTask
<1>. QED BY <1>2, <1>3, <1>4 DEF Ledger!Init

\* Every step of the service is a step of the ledger or a stutter.
LEMMA LedgerStep ==
  ASSUME TypeOK, ClaimInv, TypeOK', [Next]_vars
  PROVE  [Ledger!Next]_(Ledger!vars)
<1>1. CASE UNCHANGED vars
  BY <1>1, TablesStill DEF vars, storeVars, TypeOK
<1>2. ASSUME NEW w \in Workers, WorkerStep(w)
      PROVE  Ledger!Next \/ UNCHANGED Ledger!vars
  <2>1. CASE CheckPending(w) \/ CheckFailed(w)
    BY <2>1, TablesStill DEF CheckPending, CheckFailed, tables, TypeOK
  <2>. QED BY <1>2, <2>1, ClaimLedger, HandlerLedger, FinishLedger DEF WorkerStep, HandlerStep
<1>. QED BY <1>1, <1>2, ApiLedger, BackgroundLedger, SweepLedger DEF Next

\* While heartbeats keep up, whatever API, workers and sweeps do between each other's
\* statements, a client sees a job of JobLedger: closed once, with a true verdict,
\* after its last task, and never changed again.
THEOREM ServiceImplementsLedger ==
  ASSUME HeartbeatsKeepUp
  PROVE  Spec => ImplementsLedger
<1>1. TypeOK /\ ClaimInv /\ TypeOK' /\ [Next]_vars => [Ledger!Next]_(Ledger!vars)
  BY LedgerStep
<1>2. Spec => [](TypeOK /\ Structure)
  BY TypeCorrect
<1>3. Spec => []ClaimInv
  BY ClaimsHold
<1>. QED BY <1>1, <1>2, <1>3, LedgerInit, PTL DEF Spec, ImplementsLedger, Ledger!Spec

=============================================================================
