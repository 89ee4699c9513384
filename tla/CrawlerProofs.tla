--------------------------- MODULE CrawlerProofs ---------------------------
(***************************************************************************)
(* Theorems about Crawler, for every set of jobs, URLs, workers and        *)
(* sweepers and every value of the bounds and of the configuration.        *)
(***************************************************************************)
EXTENDS Crawler, TLAPS

-----------------------------------------------------------------------------
(* What the statements of Store do.                                        *)

\* InsertTasks gives fresh ids to queued rows of its job and touches no other row.
LEMMA InsertTasksEffect ==
  ASSUME StoreTypeOK,
         NEW j \in Jobs, NEW S \in SUBSET Urls, NEW d \in Nat,
         InsertTasks(j, S, d)
  PROVE  /\ tasks' \in [TaskIds -> TaskRow]
         /\ nextId' \in 1 .. (MaxTaskId + 1)
         /\ nextId <= nextId'
         /\ \A t \in TaskIds :
              \/ tasks'[t] = tasks[t]
              \/ /\ nextId <= t /\ t < nextId'
                 /\ \E u \in S : tasks'[t] = NewTask(j, u, d)
<1>0. PICK n \in 0 .. MaxTaskId : \E order \in [1 .. n -> S] :
        /\ nextId + n <= MaxTaskId + 1
        /\ nextId' = nextId + n
        /\ tasks' = [t \in TaskIds |->
                       IF t \in nextId .. (nextId + n - 1)
                       THEN NewTask(j, order[t - nextId + 1], d)
                       ELSE tasks[t]]
  BY DEF InsertTasks
<1>1. PICK order \in [1 .. n -> S] :
        /\ nextId + n <= MaxTaskId + 1
        /\ nextId' = nextId + n
        /\ tasks' = [t \in TaskIds |->
                       IF t \in nextId .. (nextId + n - 1)
                       THEN NewTask(j, order[t - nextId + 1], d)
                       ELSE tasks[t]]
  BY <1>0
<1>2. nextId \in Nat /\ nextId >= 1 /\ MaxTaskId \in Nat
  BY BoundsAssumption DEF StoreTypeOK
<1>3. ASSUME NEW u \in S PROVE NewTask(j, u, d) \in TaskRow
  BY CanonAssumption DEF NewTask, TaskRow, TaskStatus
<1>4. ASSUME NEW t \in TaskIds, t \in nextId .. (nextId + n - 1)
      PROVE  order[t - nextId + 1] \in S /\ nextId <= t /\ t < nextId'
  <2>1. t - nextId + 1 \in 1 .. n
    BY <1>2, <1>4 DEF TaskIds
  <2>. QED BY <2>1, <1>1, <1>2, <1>4 DEF TaskIds
<1>5. tasks' \in [TaskIds -> TaskRow]
  BY <1>1, <1>3, <1>4 DEF StoreTypeOK
<1>. QED BY <1>1, <1>2, <1>4, <1>5 DEF TaskIds

-----------------------------------------------------------------------------
(* Types and the structure of the tables.                                  *)

\* The initial state is well formed: empty tables, no request, idle workers.
LEMMA TypeInit == Init => TypeOK /\ Structure
<1>. SUFFICES ASSUME Init PROVE TypeOK /\ Structure
  OBVIOUS
<1>. USE DEF Init, StoreInit, ApiInit, WorkerInit, CleanupInit
<1>0. NoTask \in TaskRow
  BY DEF NoTask, TaskRow
<1>1. StoreTypeOK
  BY <1>0, BoundsAssumption DEF StoreTypeOK, NoRow
<1>2. ApiTypeOK
  BY DEF ApiTypeOK, NoRequest
<1>3. WorkerTypeOK
  BY <1>0 DEF WorkerTypeOK, WorkerState, Idle, Finished
<1>4. CleanupTypeOK
  BY DEF CleanupTypeOK
<1>5. Structure
  BY DEF Structure, RowsOK, RequestsOK, SnapshotsOK, At, Idle
<1>. QED BY <1>1, <1>2, <1>3, <1>4, <1>5 DEF TypeOK

-----------------------------------------------------------------------------
(* What every step but a deletion does to jobs, rows and snapshots.        *)

\* No job that was created vanishes or comes back.
JobsEvolve ==
  \A k \in Jobs : jobs[k] # "absent" =>
    jobs'[k] # "absent" /\ (JobExists(k) <=> JobExists(k)')

KeptRow(t) ==
  \/ tasks'[t] = tasks[t]
  \/ /\ TaskExists(t) /\ TaskExists(t)'
     /\ tasks'[t].job = tasks[t].job
     /\ tasks'[t].requested = tasks[t].requested

FreshRow(t) ==
  /\ nextId <= t /\ t < nextId'
  /\ tasks'[t].status = "queued" /\ tasks'[t].attempts = 0
  /\ tasks'[t].job \in Jobs /\ JobExists(tasks[t].job)'
  /\ tasks'[t].requested \in Urls

\* A row keeps its job and its URL, or is new, under an id never used before.
RowsEvolve == nextId <= nextId' /\ \A t \in TaskIds : KeptRow(t) \/ FreshRow(t)

\* A worker keeps its snapshot, or has none.
Carried(w) ==
  \/ worker'[w].pc = "idle"
  \/ /\ worker[w].pc # "idle"
     /\ worker'[w].id = worker[w].id /\ worker'[w].row = worker[w].row

\* Rows stay complete under such a step.
LEMMA RowsFrame ==
  ASSUME TypeOK, StoreTypeOK', RowsOK, JobsEvolve, RowsEvolve
  PROVE  RowsOK'
<1>1. SUFFICES ASSUME NEW t \in TaskIds
               PROVE  \/ tasks'[t] = NoTask
                      \/ /\ TaskExists(t)' /\ t < nextId'
                         /\ tasks'[t].job \in Jobs /\ JobExists(tasks[t].job)'
                         /\ tasks'[t].requested \in Urls
  BY DEF RowsOK
<1>2. t \in Int /\ nextId \in Int /\ nextId' \in Int /\ nextId <= nextId'
  BY DEF TypeOK, StoreTypeOK, TaskIds, RowsEvolve
<1>3. CASE FreshRow(t)
  BY <1>3 DEF FreshRow, TaskExists
<1>4. CASE KeptRow(t)
  BY <1>2, <1>4 DEF KeptRow, RowsOK, JobsEvolve, TaskExists, JobExists, NoTask, NoRow
<1>. QED BY <1>3, <1>4 DEF RowsEvolve

\* Snapshots stay true under such a step.
LEMMA SnapshotsFrame ==
  ASSUME TypeOK, StoreTypeOK', RowsOK, SnapshotsOK, JobsEvolve, RowsEvolve,
         NEW w \in Workers, Carried(w), worker'[w].pc # "idle"
  PROVE  SnapshotOK(w)'
<1>1. SnapshotOK(w) /\ worker'[w].id = worker[w].id /\ worker'[w].row = worker[w].row
  BY DEF Carried, SnapshotsOK, At
<1>2. nextId \in Int /\ nextId' \in Int /\ nextId <= nextId' /\ worker[w].id \in Int
  BY <1>1 DEF TypeOK, StoreTypeOK, TaskIds, RowsEvolve, SnapshotOK
<1>3. KeptRow(worker[w].id)
  BY <1>1, <1>2 DEF RowsEvolve, SnapshotOK, FreshRow
<1>4. tasks'[worker[w].id].job = tasks[worker[w].id].job
      /\ (tasks[worker[w].id] = NoTask => tasks'[worker[w].id] = NoTask)
  BY <1>3 DEF KeptRow, TaskExists, NoTask
<1>. QED BY <1>1, <1>2, <1>4 DEF SnapshotOK, JobOf, JobsEvolve

\* One more fault, or none, stays within the bound.
LEMMA FaultsType ==
  ASSUME StoreTypeOK, Fault \/ NoFault
  PROVE  faults' \in 0 .. MaxFaults
BY BoundsAssumption DEF StoreTypeOK, Fault, NoFault

-----------------------------------------------------------------------------
\* A step of a request keeps the tables well formed: only its commit writes them.
LEMMA ApiType ==
  ASSUME TypeOK, Structure, NEW j \in Jobs, ApiStep(j), UNCHANGED <<worker, sweep>>
  PROVE  TypeOK' /\ Structure'
<1>0. StoreTypeOK /\ ApiTypeOK /\ WorkerTypeOK /\ CleanupTypeOK
      /\ RowsOK /\ RequestsOK /\ SnapshotsOK
  BY DEF TypeOK, Structure
<1>1. WorkerTypeOK' /\ CleanupTypeOK' /\ \A w \in Workers : Carried(w)
  BY <1>0 DEF WorkerTypeOK, CleanupTypeOK, Carried
<1>2. ASSUME UNCHANGED <<tables, past>>, Fault \/ NoFault,
             ApiTypeOK', RequestsOK'
      PROVE  TypeOK' /\ Structure'
  <2>1. StoreTypeOK'
    BY <1>0, <1>2, FaultsType DEF StoreTypeOK, tables
  <2>2. JobsEvolve /\ RowsEvolve
    BY <1>0, <1>2 DEF JobsEvolve, RowsEvolve, KeptRow, JobExists, tables, StoreTypeOK
  <2>3. RowsOK'
    BY <1>0, <2>1, <2>2, RowsFrame
  <2>4. SnapshotsOK'
    BY <1>0, <1>1, <2>1, <2>2, SnapshotsFrame DEF SnapshotsOK, At
  <2>. QED BY <1>1, <1>2, <2>1, <2>3, <2>4 DEF TypeOK, Structure
<1>3. ASSUME NEW a \in Answers, Answer(j, a)
      PROVE  ApiTypeOK' /\ \A k \in Jobs : request'[k].pc \in {"idle", "check"} =>
                            k # j /\ request'[k] = request[k]
  BY <1>0, <1>3 DEF Answer, Answers, NoRequest, ApiTypeOK
<1>4. CASE Submit(j)
  <2>0. UNCHANGED <<tables, past>> /\ (Fault \/ NoFault)
    BY <1>4 DEF Submit
  <2>1. ApiTypeOK' /\ RequestsOK'
    <3>1. CASE Answer(j, "rejected") \/ Answer(j, "error")
      BY <1>0, <1>3, <2>0, <3>1 DEF RequestsOK, Answers, tables
    <3>2. CASE request' = [request EXCEPT ![j] =
                 [pc |-> "check",
                  left |-> IF DedupeCache THEN Request[j].urls ELSE {},
                  keep |-> Request[j].urls]]
      BY <1>0, <1>4, <2>0, <3>2, RequestAssumption
      DEF Submit, RequestsOK, ApiTypeOK, tables
    <3>. QED BY <1>4, <3>1, <3>2 DEF Submit
  <2>. QED BY <1>2, <2>0, <2>1
<1>5. ASSUME NEW u \in Urls, CheckSeed(j, u)
      PROVE  TypeOK' /\ Structure'
  <2>0. UNCHANGED <<tables, past>> /\ (Fault \/ NoFault)
    BY <1>5 DEF CheckSeed
  <2>1. ApiTypeOK' /\ RequestsOK'
    <3>1. CASE Answer(j, "conflict") \/ Answer(j, "error")
      BY <1>0, <1>3, <2>0, <3>1 DEF RequestsOK, Answers, tables
    <3>2. CASE \/ request' = [request EXCEPT ![j].left = @ \ {u}]
               \/ request' = [request EXCEPT ![j].left = @ \ {u}, ![j].keep = @ \ {u}]
      BY <1>0, <1>5, <2>0, <3>2 DEF CheckSeed, RequestsOK, ApiTypeOK, tables
    <3>. QED BY <1>5, <3>1, <3>2 DEF CheckSeed
  <2>. QED BY <1>2, <2>0, <2>1
<1>6. CASE CommitJob(j)
  <2>0. jobs[j] = "absent" /\ (Fault \/ NoFault) /\ request[j].keep \in SUBSET Urls
        /\ UNCHANGED <<docs, mapped, seen, past>>
    BY <1>0, <1>6 DEF CommitJob, RequestsOK, ApiTypeOK
  <2>1. ApiTypeOK' /\ \A k \in Jobs : request'[k].pc \in {"idle", "check"} =>
                         k # j /\ request'[k] = request[k]
    BY <1>3, <1>6 DEF CommitJob, Answers
  <2>2. CASE UNCHANGED <<jobs, tasks, nextId>>
    BY <1>0, <1>2, <2>0, <2>1, <2>2 DEF tables, RequestsOK
  <2>3. CASE jobs' = [jobs EXCEPT ![j] = "queued"] /\ InsertTasks(j, request[j].keep, 0)
    <3>1. StoreTypeOK' /\ RowsEvolve
      <4>1. jobs' \in [Jobs -> JobStatus \union NoRow]
        BY <1>0, <2>3 DEF StoreTypeOK, JobStatus
      <4>2. /\ tasks' \in [TaskIds -> TaskRow]
            /\ nextId' \in 1 .. (MaxTaskId + 1)
            /\ nextId <= nextId'
            /\ \A t \in TaskIds :
                 \/ tasks'[t] = tasks[t]
                 \/ /\ nextId <= t /\ t < nextId'
                    /\ \E u \in request[j].keep : tasks'[t] = NewTask(j, u, 0)
        BY <1>0, <2>0, <2>3, InsertTasksEffect
      <4>3. StoreTypeOK'
        BY <1>0, <2>0, <4>1, <4>2, FaultsType DEF StoreTypeOK
      <4>4. jobs'[j] = "queued"
        BY <1>0, <2>3 DEF StoreTypeOK
      <4>5. RowsEvolve
        BY <2>0, <4>2, <4>4 DEF RowsEvolve, KeptRow, FreshRow, NewTask, JobExists, NoRow
      <4>. QED BY <4>3, <4>5
    <3>2. JobsEvolve
      BY <1>0, <2>0, <2>3 DEF JobsEvolve, JobExists, StoreTypeOK
    <3>3. RowsOK'
      BY <1>0, <3>1, <3>2, RowsFrame
    <3>4. SnapshotsOK'
      BY <1>0, <1>1, <3>1, <3>2, SnapshotsFrame DEF SnapshotsOK, At
    <3>5. RequestsOK'
      BY <1>0, <2>1, <2>3 DEF RequestsOK, StoreTypeOK
    <3>. QED BY <1>1, <2>1, <3>1, <3>3, <3>4, <3>5 DEF TypeOK, Structure
  <2>. QED BY <1>6, <2>2, <2>3 DEF CommitJob
<1>. QED BY <1>4, <1>5, <1>6 DEF ApiStep

-----------------------------------------------------------------------------
(* The pieces a worker step is made of.                                    *)

\* Nothing but an API commit creates a job.
AbsentStays == \A k \in Jobs : jobs[k] = "absent" => jobs'[k] = "absent"

\* A step that respects jobs, rows and snapshots keeps the tables well formed.
LEMMA WorkerFrame ==
  ASSUME TypeOK, Structure, StoreTypeOK', WorkerTypeOK',
         JobsEvolve, AbsentStays, RowsEvolve, \A v \in Workers : Carried(v),
         UNCHANGED <<request, sweep>>
  PROVE  TypeOK' /\ Structure'
<1>1. ApiTypeOK' /\ CleanupTypeOK'
  BY DEF TypeOK, ApiTypeOK, CleanupTypeOK
<1>2. RowsOK'
  BY RowsFrame DEF Structure
<1>3. SnapshotsOK'
  BY SnapshotsFrame DEF Structure, SnapshotsOK, At
<1>4. RequestsOK'
  BY DEF Structure, RequestsOK, AbsentStays
<1>. QED BY <1>1, <1>2, <1>3, <1>4 DEF TypeOK, Structure

\* Jobs that are left alone evolve.
LEMMA JobsUnchanged == UNCHANGED jobs => JobsEvolve /\ AbsentStays
BY DEF JobsEvolve, AbsentStays, JobExists

\* Rows that are left alone evolve.
LEMMA RowsUnchanged ==
  ASSUME StoreTypeOK, UNCHANGED <<tasks, nextId>>
  PROVE  RowsEvolve
BY DEF RowsEvolve, KeptRow, StoreTypeOK

\* UpdateJobStatus changes the status of a job that exists and nothing else.
LEMMA UpdateJobStatusEffect ==
  ASSUME StoreTypeOK, NEW j \in Jobs, NEW s \in JobStatus, UpdateJobStatus(j, s)
  PROVE  /\ jobs' \in [Jobs -> JobStatus \union NoRow]
         /\ JobsEvolve /\ AbsentStays
         /\ \A k \in Jobs : jobs'[k] = IF k = j /\ JobExists(j) THEN s ELSE jobs[k]
<1>1. s \notin NoRow
  BY DEF JobStatus, NoRow, Finished
<1>2. \A k \in Jobs : jobs'[k] = IF k = j /\ JobExists(j) THEN s ELSE jobs[k]
  BY DEF UpdateJobStatus, StoreTypeOK
<1>3. jobs' \in [Jobs -> JobStatus \union NoRow]
  BY DEF UpdateJobStatus, StoreTypeOK
<1>. QED BY <1>1, <1>2, <1>3 DEF JobsEvolve, AbsentStays, JobExists, NoRow

\* An UPDATE of one row that keeps its job and its URL.
LEMMA UpdateTaskEffect ==
  ASSUME StoreTypeOK, NEW t \in TaskIds, NEW row \in TaskRow,
         row.job = tasks[t].job, row.requested = tasks[t].requested,
         row.status # "absent",
         UpdateTask(t, row), UNCHANGED nextId
  PROVE  /\ tasks' \in [TaskIds -> TaskRow]
         /\ RowsEvolve
         /\ \A s \in TaskIds : tasks'[s] = IF s = t /\ TaskExists(t) THEN row ELSE tasks[s]
<1>1. \A s \in TaskIds : tasks'[s] = IF s = t /\ TaskExists(t) THEN row ELSE tasks[s]
  BY DEF UpdateTask, StoreTypeOK
<1>2. tasks' \in [TaskIds -> TaskRow]
  BY DEF UpdateTask, StoreTypeOK
<1>3. nextId <= nextId'
  BY DEF StoreTypeOK
<1>. QED BY <1>1, <1>2, <1>3 DEF RowsEvolve, KeptRow, TaskExists

\* The three ways to settle a row.
LEMMA SettleRowEffect ==
  ASSUME StoreTypeOK, NEW t \in TaskIds, UNCHANGED nextId,
         CompleteTask(t) \/ RetryTask(t) \/ FailTask(t)
  PROVE  /\ tasks' \in [TaskIds -> TaskRow]
         /\ RowsEvolve
         /\ \A s \in TaskIds : s # t => tasks'[s] = tasks[s]
         /\ ~TaskExists(t) => tasks'[t] = tasks[t]
         /\ TaskExists(t) =>
              /\ tasks'[t].job = tasks[t].job
              /\ \/ /\ CompleteTask(t)
                    /\ tasks'[t].status = "done"
                    /\ tasks'[t].attempts = tasks[t].attempts
                 \/ /\ RetryTask(t)
                    /\ tasks'[t].status = "queued"
                    /\ tasks'[t].attempts = tasks[t].attempts + 1
                 \/ /\ FailTask(t)
                    /\ tasks'[t].status = "failed"
                    /\ tasks'[t].attempts = tasks[t].attempts + 1
<1>0. tasks[t] \in TaskRow /\ tasks[t].attempts \in Nat
  BY DEF StoreTypeOK, TaskRow
<1>1. CASE CompleteTask(t)
  <2>. DEFINE row == [tasks[t] EXCEPT !.status = "done"]
  <2>1. /\ row \in TaskRow /\ row.job = tasks[t].job
        /\ row.requested = tasks[t].requested
        /\ row.status = "done" /\ row.attempts = tasks[t].attempts
    BY <1>0 DEF TaskRow, TaskStatus
  <2>2. UpdateTask(t, row)
    BY <1>1 DEF CompleteTask
  <2>. HIDE DEF row
  <2>. QED BY <1>1, <2>1, <2>2, UpdateTaskEffect
<1>2. CASE RetryTask(t)
  <2>0. PICK n \in Nat : n = tasks[t].attempts + 1
    BY <1>0
  <2>. DEFINE row == [tasks[t] EXCEPT !.status = "queued", !.attempts = n,
                                      !.heartbeat = "null"]
  <2>1. /\ row \in TaskRow /\ row.job = tasks[t].job
        /\ row.requested = tasks[t].requested
        /\ row.status = "queued" /\ row.attempts = n
    BY <1>0 DEF TaskRow, TaskStatus
  <2>2. UpdateTask(t, row)
    BY <1>2, <2>0 DEF RetryTask
  <2>. HIDE DEF row
  <2>. QED BY <1>2, <2>0, <2>1, <2>2, UpdateTaskEffect
<1>3. CASE FailTask(t)
  <2>0. PICK n \in Nat : n = tasks[t].attempts + 1
    BY <1>0
  <2>. DEFINE row == [tasks[t] EXCEPT !.status = "failed", !.attempts = n]
  <2>1. /\ row \in TaskRow /\ row.job = tasks[t].job
        /\ row.requested = tasks[t].requested
        /\ row.status = "failed" /\ row.attempts = n
    BY <1>0 DEF TaskRow, TaskStatus
  <2>2. UpdateTask(t, row)
    BY <1>3, <2>0 DEF FailTask
  <2>. HIDE DEF row
  <2>. QED BY <1>3, <2>0, <2>1, <2>2, UpdateTaskEffect
<1>. QED BY <1>1, <1>2, <1>3

\* The rows InsertTasks adds to a job that exists.
LEMMA InsertRowsEvolve ==
  ASSUME TypeOK, NEW w \in Workers, NEW S \in SUBSET Urls,
         JobOf(w) \in Jobs, JobExists(JobOf(w)), UNCHANGED jobs,
         worker[w].row \in TaskRow,
         InsertTasks(JobOf(w), S, worker[w].row.depth + 1)
  PROVE  /\ nextId' \in 1 .. (MaxTaskId + 1)
         /\ tasks' \in [TaskIds -> TaskRow]
         /\ RowsEvolve
         /\ \A t \in TaskIds :
              tasks'[t] = tasks[t] \/ (FreshRow(t) /\ tasks'[t].job = JobOf(w))
<1>1. worker[w].row.depth + 1 \in Nat
  BY DEF TaskRow
<1>2. /\ tasks' \in [TaskIds -> TaskRow]
      /\ nextId' \in 1 .. (MaxTaskId + 1)
      /\ nextId <= nextId'
      /\ \A t \in TaskIds :
           \/ tasks'[t] = tasks[t]
           \/ /\ nextId <= t /\ t < nextId'
              /\ \E u \in S : tasks'[t] = NewTask(JobOf(w), u, worker[w].row.depth + 1)
  BY <1>1, InsertTasksEffect DEF TypeOK
<1>3. ASSUME NEW t \in TaskIds
      PROVE  tasks'[t] = tasks[t] \/ (FreshRow(t) /\ tasks'[t].job = JobOf(w))
  <2>1. CASE \E u \in S : tasks'[t] = NewTask(JobOf(w), u, worker[w].row.depth + 1)
    <3>1. /\ tasks'[t].job = JobOf(w) /\ tasks'[t].status = "queued"
          /\ tasks'[t].attempts = 0 /\ tasks'[t].requested \in Urls
      BY <2>1 DEF NewTask
    <3>. QED BY <1>2, <3>1 DEF FreshRow, JobExists
  <2>. QED BY <1>2, <2>1
<1>. QED BY <1>2, <1>3 DEF RowsEvolve, KeptRow

\* The goroutine changes its own state and keeps the snapshot it has.
LEMMA BecomeEffect ==
  ASSUME WorkerTypeOK, NEW w \in Workers, ~At(w, "idle"),
         NEW state \in WorkerState, Become(w, state),
         state.id = worker[w].id, state.row = worker[w].row
  PROVE  /\ WorkerTypeOK' /\ \A v \in Workers : Carried(v)
         /\ \A v \in Workers : worker'[v] = IF v = w THEN state ELSE worker[v]
<1>1. \A v \in Workers : worker'[v] = IF v = w THEN state ELSE worker[v]
  BY DEF Become, WorkerTypeOK
<1>2. WorkerTypeOK'
  BY DEF Become, WorkerTypeOK
<1>3. ASSUME NEW v \in Workers PROVE Carried(v)
  BY <1>1 DEF Carried, At
<1>. QED BY <1>1, <1>2, <1>3

\* It moves on to the next statement.
LEMMA GotoEffect ==
  ASSUME WorkerTypeOK, NEW w \in Workers, ~At(w, "idle"),
         NEW pc \in Handling \union Closing, Goto(w, pc)
  PROVE  /\ WorkerTypeOK' /\ \A v \in Workers : Carried(v)
         /\ \A v \in Workers : v # w => worker'[v] = worker[v]
         /\ worker'[w].pc = pc
<1>. DEFINE state == [worker[w] EXCEPT !.pc = pc]
<1>1. worker[w] \in WorkerState
  BY DEF WorkerTypeOK
<1>2. /\ state \in WorkerState /\ state.pc = pc
      /\ state.id = worker[w].id /\ state.row = worker[w].row
  BY <1>1 DEF WorkerState
<1>3. Become(w, state)
  BY DEF Goto
<1>. HIDE DEF state
<1>. QED BY <1>2, <1>3, BecomeEffect

\* It drops its snapshot.
LEMMA ReleaseEffect ==
  ASSUME WorkerTypeOK, NEW w \in Workers, Release(w)
  PROVE  /\ WorkerTypeOK' /\ \A v \in Workers : Carried(v)
         /\ \A v \in Workers : v # w => worker'[v] = worker[v]
         /\ worker'[w].pc = "idle"
<1>1. \A v \in Workers : worker'[v] = IF v = w THEN Idle ELSE worker[v]
  BY DEF Release, Become, WorkerTypeOK
<1>2. Idle.pc = "idle" /\ Idle \in WorkerState
  BY DEF Idle, WorkerState, NoTask, TaskRow, Finished
<1>3. WorkerTypeOK'
  BY <1>2 DEF Release, Become, WorkerTypeOK
<1>4. ASSUME NEW v \in Workers PROVE Carried(v)
  <2>1. worker'[v].pc = "idle" \/ worker'[v] = worker[v]
    BY <1>1, <1>2
  <2>. QED BY <2>1 DEF Carried
<1>. QED BY <1>1, <1>2, <1>3, <1>4

\* A step of a worker keeps the tables well formed, whatever fails in it.
LEMMA WorkerType ==
  ASSUME TypeOK, Structure, NEW w \in Workers, WorkerStep(w),
         UNCHANGED <<request, sweep>>
  PROVE  TypeOK' /\ Structure'
<1>0. StoreTypeOK /\ WorkerTypeOK /\ RowsOK /\ SnapshotsOK
  BY DEF TypeOK, Structure
<1>1. ASSUME ~At(w, "idle")
      PROVE  /\ worker[w].id \in TaskIds /\ worker[w].row \in TaskRow
             /\ JobOf(w) \in Jobs /\ worker[w].row.requested \in Urls
  BY <1>0, <1>1 DEF SnapshotsOK, SnapshotOK, WorkerTypeOK, WorkerState
\* Steps that write no job and no task.
<1>2. ASSUME UNCHANGED <<jobs, tasks, nextId, past>>, Fault \/ NoFault,
             docs' \in [TaskIds -> Nat], mapped' \in [TaskIds -> SUBSET Urls],
             seen' \in SUBSET Urls,
             WorkerTypeOK', \A v \in Workers : Carried(v)
      PROVE  TypeOK' /\ Structure'
  <2>1. StoreTypeOK'
    BY <1>0, <1>2, FaultsType DEF StoreTypeOK
  <2>. QED BY <1>0, <1>2, <2>1, JobsUnchanged, RowsUnchanged, WorkerFrame
\* Steps that write nothing but the worker itself.
<1>3. ASSUME UNCHANGED <<tables, past>>, Fault \/ NoFault,
             WorkerTypeOK', \A v \in Workers : Carried(v)
      PROVE  TypeOK' /\ Structure'
  BY <1>0, <1>2, <1>3 DEF StoreTypeOK, tables
\* Steps that write the status of the job.
<1>4. ASSUME UNCHANGED <<tasks, nextId, docs, mapped, seen, past>>, Fault \/ NoFault,
             NEW s \in JobStatus, UpdateJobStatus(JobOf(w), s) \/ UNCHANGED jobs,
             ~At(w, "idle"), WorkerTypeOK', \A v \in Workers : Carried(v)
      PROVE  TypeOK' /\ Structure'
  <2>1. jobs' \in [Jobs -> JobStatus \union NoRow] /\ JobsEvolve /\ AbsentStays
    BY <1>0, <1>1, <1>4, UpdateJobStatusEffect, JobsUnchanged DEF StoreTypeOK
  <2>2. StoreTypeOK'
    BY <1>0, <1>4, <2>1, FaultsType DEF StoreTypeOK
  <2>. QED BY <1>0, <1>4, <2>1, <2>2, RowsUnchanged, WorkerFrame
\* Steps that write rows of crawl_tasks in place or add some.
<1>5. ASSUME UNCHANGED <<jobs, docs, seen, past>>, Fault \/ NoFault,
             nextId' \in 1 .. (MaxTaskId + 1),
             tasks' \in [TaskIds -> TaskRow], mapped' \in [TaskIds -> SUBSET Urls],
             RowsEvolve,
             WorkerTypeOK', \A v \in Workers : Carried(v)
      PROVE  TypeOK' /\ Structure'
  <2>1. StoreTypeOK'
    BY <1>0, <1>5, FaultsType DEF StoreTypeOK
  <2>. QED BY <1>5, <2>1, JobsUnchanged, WorkerFrame
<1>6. ASSUME NEW t \in TaskIds, Claim(w, t)
      PROVE  TypeOK' /\ Structure'
  <2>1. t \in Eligible /\ UNCHANGED <<jobs, nextId, docs, mapped, seen, past>> /\ NoFault
    BY <1>6 DEF Claim, Claimable
  <2>2. TaskExists(t) /\ tasks[t] \in TaskRow /\ tasks[t] # NoTask
    BY <1>0, <2>1 DEF Eligible, TaskExists, StoreTypeOK, NoTask
  <2>3. /\ ClaimedRow(t) \in TaskRow
        /\ ClaimedRow(t).job = tasks[t].job
        /\ ClaimedRow(t).requested = tasks[t].requested
        /\ ClaimedRow(t).status = "processing"
    BY <2>2 DEF ClaimedRow, TaskRow, TaskStatus
  <2>4. UpdateTask(t, ClaimedRow(t))
    BY <1>6, <2>2 DEF Claim, UpdateTask
  <2>5. /\ tasks' \in [TaskIds -> TaskRow] /\ RowsEvolve
        /\ \A s \in TaskIds : tasks'[s] = IF s = t THEN ClaimedRow(t) ELSE tasks[s]
    BY <1>0, <2>1, <2>2, <2>3, <2>4, UpdateTaskEffect
  <2>6. StoreTypeOK'
    BY <1>0, <2>1, <2>5, FaultsType DEF StoreTypeOK
  <2>7. WorkerTypeOK'
    <3>. DEFINE state == [Idle EXCEPT !.pc = "getjob", !.id = t, !.row = ClaimedRow(t)]
    <3>1. state \in WorkerState
      BY <2>3 DEF WorkerState, Idle, Handling, Finished
    <3>2. worker' = [worker EXCEPT ![w] = state]
      BY <1>6 DEF Claim, Become
    <3>. HIDE DEF state
    <3>. QED BY <1>0, <3>1, <3>2 DEF WorkerTypeOK
  <2>8. /\ worker'[w].pc = "getjob" /\ worker'[w].id = t /\ worker'[w].row = ClaimedRow(t)
        /\ \A v \in Workers : v # w => worker'[v] = worker[v]
    BY <1>0, <1>6 DEF Claim, Become, WorkerTypeOK, Idle
  <2>9. RowsOK'
    BY <1>0, <2>1, <2>5, <2>6, JobsUnchanged, RowsFrame
  <2>10. SnapshotOK(w)'
    <3>1. /\ t < nextId /\ tasks[t].job \in Jobs /\ JobExists(tasks[t].job)
          /\ tasks[t].requested \in Urls
      BY <1>0, <2>2 DEF RowsOK
    <3>2. worker'[w].row.job = tasks[t].job /\ worker'[w].row.requested = tasks[t].requested
      BY <2>3, <2>8
    <3>3. tasks'[t].job = tasks[t].job
      BY <2>3, <2>5
    <3>. QED BY <2>1, <2>8, <3>1, <3>2, <3>3 DEF SnapshotOK, JobOf, JobExists, NoRow
  <2>11. SnapshotsOK'
    <3>. SUFFICES ASSUME NEW v \in Workers, worker'[v].pc # "idle" PROVE SnapshotOK(v)'
      BY DEF SnapshotsOK, At
    <3>1. CASE v = w
      BY <2>10, <3>1
    <3>2. CASE v # w
      <4>1. Carried(v)
        BY <2>8, <3>2 DEF Carried
      <4>. QED BY <1>0, <2>1, <2>5, <2>6, <4>1, JobsUnchanged, SnapshotsFrame
    <3>. QED BY <3>1, <3>2
  <2>. QED BY <2>1, <2>6, <2>7, <2>9, <2>11
       DEF TypeOK, Structure, ApiTypeOK, CleanupTypeOK, RequestsOK
<1>7. CASE GetJob(w)
  <2>1. PICK pc \in Handling : Goto(w, pc)
    BY <1>7 DEF GetJob, Handling
  <2>. QED BY <1>0, <1>3, <1>7, <2>1, GotoEffect DEF GetJob, At
<1>8. CASE CancelOverdue(w)
  BY <1>0, <1>4, <1>8, GotoEffect DEF CancelOverdue, At, Handling, JobStatus
<1>9. CASE StartQueued(w)
  BY <1>0, <1>4, <1>9, GotoEffect DEF StartQueued, StartJob, At, Handling, JobStatus
<1>10. CASE Dispatch(w)
  <2>1. PICK bounded \in BOOLEAN : bounded = ~Overdue(JobOf(w))
    BY Zenon DEF Overdue
  <2>. DEFINE state == [worker[w] EXCEPT !.pc = "fetch", !.bounded = bounded]
  <2>2. state \in WorkerState /\ state.id = worker[w].id /\ state.row = worker[w].row
    BY <1>0 DEF WorkerTypeOK, WorkerState, Handling
  <2>3. Become(w, state)
    BY <1>10, <2>1 DEF Dispatch
  <2>. HIDE DEF state
  <2>4. WorkerTypeOK' /\ \A v \in Workers : Carried(v)
    BY <1>0, <1>10, <2>2, <2>3, BecomeEffect DEF Dispatch, At
  <2>. QED BY <1>3, <1>10, <2>4 DEF Dispatch
<1>11. CASE FetchPage(w)
  <2>. DEFINE final == Canon[Redirect[worker[w].row.requested]]
  <2>0. ~At(w, "idle") /\ (Fault \/ NoFault)
        /\ UNCHANGED <<jobs, nextId, docs, mapped, seen, past>>
    BY <1>11 DEF FetchPage, At, Succeeds, Fails
  <2>1. WorkerTypeOK' /\ \A v \in Workers : Carried(v)
    <3>1. PICK pc \in Handling : Goto(w, pc)
      BY <1>11 DEF FetchPage, Handling
    <3>. QED BY <1>0, <2>0, <3>1, GotoEffect
  <2>2. CASE UNCHANGED tasks
    BY <1>0, <1>2, <2>0, <2>1, <2>2 DEF StoreTypeOK
  <2>3. CASE UpdateTaskFinalURL(worker[w].id, final)
    <3>. DEFINE t == worker[w].id
    <3>0. final \in Urls /\ t \in TaskIds
      BY <1>1, <2>0, CanonAssumption, PagesAssumption
    <3>. HIDE DEF final
    <3>1. tasks[t] \in TaskRow
      BY <1>0, <3>0 DEF StoreTypeOK
    <3>2. /\ [tasks[t] EXCEPT !.final = final] \in TaskRow
          /\ [tasks[t] EXCEPT !.final = final].job = tasks[t].job
          /\ [tasks[t] EXCEPT !.final = final].requested = tasks[t].requested
          /\ [tasks[t] EXCEPT !.final = final].status = tasks[t].status
      BY <3>0, <3>1 DEF TaskRow
    <3>3. CASE tasks' = tasks
      BY <2>2, <3>3
    <3>4. CASE TaskExists(t) /\ tasks' = [tasks EXCEPT ![t].final = final]
      <4>1. UpdateTask(t, [tasks[t] EXCEPT !.final = final])
        BY <1>0, <3>0, <3>4 DEF UpdateTask, StoreTypeOK
      <4>2. tasks' \in [TaskIds -> TaskRow] /\ RowsEvolve
        BY <1>0, <2>0, <3>0, <3>2, <3>4, <4>1, UpdateTaskEffect DEF TaskExists
      <4>. QED BY <1>0, <1>5, <2>0, <2>1, <4>2 DEF StoreTypeOK
    <3>. QED BY <2>3, <3>3, <3>4 DEF UpdateTaskFinalURL
  <2>. QED BY <1>11, <2>2, <2>3 DEF FetchPage
<1>12. CASE FetchMapPage(w)
  <2>1. PICK pc \in Handling : Goto(w, pc)
    BY <1>12 DEF FetchMapPage, Handling
  <2>2. WorkerTypeOK' /\ \A v \in Workers : Carried(v)
    BY <1>0, <1>12, <2>1, GotoEffect DEF FetchMapPage, At
  <2>. QED BY <1>3, <1>12, <2>2 DEF FetchMapPage, Succeeds, Fails
<1>13. CASE StoreDocument(w)
  <2>1. ~At(w, "idle") /\ (Fault \/ NoFault)
        /\ UNCHANGED <<jobs, tasks, nextId, mapped, seen, past>>
    BY <1>13 DEF StoreDocument, At, Succeeds, Fails
  <2>2. docs' \in [TaskIds -> Nat]
    BY <1>0, <1>13 DEF StoreDocument, InsertDocument, StoreTypeOK
  <2>3. PICK pc \in Handling : Goto(w, pc)
    BY <1>13 DEF StoreDocument, Handling
  <2>. QED BY <1>0, <1>2, <2>1, <2>2, <2>3, GotoEffect DEF StoreTypeOK
<1>14. CASE MarkSeen(w)
  <2>1. ~At(w, "idle") /\ (Fault \/ NoFault) /\ Goto(w, "expand")
        /\ UNCHANGED <<jobs, tasks, nextId, docs, mapped, past>>
    BY <1>14 DEF MarkSeen, At, Succeeds, Fails
  <2>2. Canon[Redirect[worker[w].row.requested]] \in Urls
    BY <1>1, <2>1, CanonAssumption, PagesAssumption
  <2>3. seen' \in SUBSET Urls
    BY <1>0, <1>14, <2>2 DEF MarkSeen, MarkCanonical, StoreTypeOK
  <2>. QED BY <1>0, <1>2, <2>1, <2>3, GotoEffect DEF StoreTypeOK, Handling
<1>15. CASE Expand(w)
  <2>0. ~At(w, "idle") /\ NoFault /\ UNCHANGED <<tables, past>>
    BY <1>15 DEF Expand, At
  <2>1. CASE Goto(w, "ok") \/ Goto(w, "err")
    BY <1>0, <1>3, <2>0, <2>1, GotoEffect DEF Handling
  <2>2. ASSUME NEW found \in SUBSET Urls,
               Become(w, [worker[w] EXCEPT
                 !.pc = IF found = {} THEN "ok" ELSE "filter",
                 !.links = found,
                 !.check = IF DedupeCache THEN found ELSE {},
                 !.todo = found])
        PROVE  TypeOK' /\ Structure'
    <3>1. PICK pc \in Handling : pc = IF found = {} THEN "ok" ELSE "filter"
      BY DEF Handling
    <3>2. PICK check \in SUBSET Urls : check = IF DedupeCache THEN found ELSE {}
      OBVIOUS
    <3>. DEFINE state == [worker[w] EXCEPT !.pc = pc, !.links = found, !.check = check,
                                           !.todo = found]
    <3>3. state \in WorkerState /\ state.id = worker[w].id /\ state.row = worker[w].row
      BY <1>0 DEF WorkerTypeOK, WorkerState
    <3>4. Become(w, state)
      BY <2>2, <3>1, <3>2
    <3>. HIDE DEF state
    <3>. QED BY <1>0, <1>3, <2>0, <3>3, <3>4, BecomeEffect
  <2>3. /\ PageLinks(w) \in SUBSET Urls
        /\ SitemapLinks[worker[w].row.requested] \in SUBSET Urls
    BY <1>1, <2>0, PagesAssumption DEF PageLinks
  <2>4. CASE \E sitemap \in IF UsesSitemaps(w)
                            THEN SUBSET SitemapLinks[worker[w].row.requested]
                            ELSE {{}} :
               LET found == PageLinks(w) \union sitemap IN
               Become(w, [worker[w] EXCEPT
                 !.pc = IF found = {} THEN "ok" ELSE "filter",
                 !.links = found,
                 !.check = IF DedupeCache THEN found ELSE {},
                 !.todo = found])
    <3>1. PICK sitemap \in SUBSET Urls :
               Become(w, [worker[w] EXCEPT
                 !.pc = IF PageLinks(w) \union sitemap = {} THEN "ok" ELSE "filter",
                 !.links = PageLinks(w) \union sitemap,
                 !.check = IF DedupeCache THEN PageLinks(w) \union sitemap ELSE {},
                 !.todo = PageLinks(w) \union sitemap])
      BY <2>3, <2>4
    <3>2. PageLinks(w) \union sitemap \in SUBSET Urls
      BY <2>3
    <3>. QED BY <2>2, <3>1, <3>2
  <2>. QED BY <1>15, <2>1, <2>4 DEF Expand
<1>16. ASSUME NEW u \in Urls, SkipSeen(w, u)
       PROVE  TypeOK' /\ Structure'
  <2>0. ~At(w, "idle") /\ (Fault \/ NoFault) /\ UNCHANGED <<tables, past>>
    BY <1>16 DEF SkipSeen, At, Succeeds, Fails
  <2>1. CASE Goto(w, "err")
    BY <1>0, <1>3, <2>0, <2>1, GotoEffect DEF Handling
  <2>2. CASE Become(w, [worker[w] EXCEPT
               !.check = @ \ {u},
               !.todo = IF u \in seen THEN @ \ {u} ELSE @])
    <3>0. worker[w].check \in SUBSET Urls /\ worker[w].todo \in SUBSET Urls
      BY <1>0 DEF WorkerTypeOK, WorkerState
    <3>1. PICK check \in SUBSET Urls : check = worker[w].check \ {u}
      BY <3>0
    <3>2. PICK todo \in SUBSET Urls :
            todo = IF u \in seen THEN worker[w].todo \ {u} ELSE worker[w].todo
      BY <3>0
    <3>. DEFINE state == [worker[w] EXCEPT !.check = check, !.todo = todo]
    <3>3. state \in WorkerState /\ state.id = worker[w].id /\ state.row = worker[w].row
      BY <1>0 DEF WorkerTypeOK, WorkerState
    <3>4. Become(w, state)
      BY <2>2, <3>1, <3>2
    <3>. HIDE DEF state
    <3>. QED BY <1>0, <1>3, <2>0, <3>3, <3>4, BecomeEffect
  <2>. QED BY <1>16, <2>1, <2>2 DEF SkipSeen
<1>17. CASE CountTasks(w)
  <2>0. ~At(w, "idle") /\ (Fault \/ NoFault) /\ UNCHANGED <<tables, past>>
    BY <1>17 DEF CountTasks, At, Fails
  <2>1. CASE Goto(w, "err")
    BY <1>0, <1>3, <2>0, <2>1, GotoEffect DEF Handling
  <2>2. ASSUME NEW kept \in SUBSET worker[w].todo,
               Become(w, [worker[w] EXCEPT
                 !.pc = IF kept = {} /\ TypeOf(w) = "crawl" THEN "ok" ELSE "insert",
                 !.todo = kept])
        PROVE  TypeOK' /\ Structure'
    <3>1. PICK pc \in Handling :
            pc = IF kept = {} /\ TypeOf(w) = "crawl" THEN "ok" ELSE "insert"
      BY DEF Handling
    <3>2. kept \in SUBSET Urls
      BY <1>0 DEF WorkerTypeOK, WorkerState
    <3>. DEFINE state == [worker[w] EXCEPT !.pc = pc, !.todo = kept]
    <3>3. state \in WorkerState /\ state.id = worker[w].id /\ state.row = worker[w].row
      BY <1>0, <3>2 DEF WorkerTypeOK, WorkerState
    <3>4. Become(w, state)
      BY <2>2, <3>1
    <3>. HIDE DEF state
    <3>. QED BY <1>0, <1>3, <2>0, <3>3, <3>4, BecomeEffect
  <2>. QED BY <1>17, <2>1, <2>2 DEF CountTasks, Capped
<1>18. ASSUME NEW u \in Urls, InsertLink(w, u)
       PROVE  TypeOK' /\ Structure'
  <2>0. ~At(w, "idle") /\ (Fault \/ NoFault) /\ UNCHANGED <<jobs, docs, mapped, seen, past>>
    BY <1>18 DEF InsertLink, At, Succeeds, Fails
  <2>1. WorkerTypeOK' /\ \A v \in Workers : Carried(v)
    <3>1. CASE Goto(w, "err")
      BY <1>0, <2>0, <3>1, GotoEffect DEF Handling
    <3>2. CASE Become(w, [worker[w] EXCEPT
                 !.pc = IF worker[w].todo = {u} THEN "ok" ELSE "insert",
                 !.todo = @ \ {u}])
      <4>1. PICK pc \in Handling : pc = IF worker[w].todo = {u} THEN "ok" ELSE "insert"
        BY DEF Handling
      <4>2. PICK todo \in SUBSET Urls : todo = worker[w].todo \ {u}
        BY <1>0 DEF WorkerTypeOK, WorkerState
      <4>. DEFINE state == [worker[w] EXCEPT !.pc = pc, !.todo = todo]
      <4>3. state \in WorkerState /\ state.id = worker[w].id /\ state.row = worker[w].row
        BY <1>0 DEF WorkerTypeOK, WorkerState
      <4>4. Become(w, state)
        BY <3>2, <4>1, <4>2
      <4>. HIDE DEF state
      <4>. QED BY <1>0, <2>0, <4>3, <4>4, BecomeEffect
    <3>. QED BY <1>18, <3>1, <3>2 DEF InsertLink
  <2>2. CASE UNCHANGED <<tasks, nextId>>
    BY <1>0, <1>2, <2>0, <2>1, <2>2 DEF StoreTypeOK
  <2>3. CASE JobExists(JobOf(w)) /\ InsertTasks(JobOf(w), {u}, worker[w].row.depth + 1)
    <3>1. nextId' \in 1 .. (MaxTaskId + 1) /\ tasks' \in [TaskIds -> TaskRow] /\ RowsEvolve
      BY <1>0, <1>1, <2>0, <2>3, InsertRowsEvolve
    <3>. QED BY <1>0, <1>5, <2>0, <2>1, <3>1 DEF StoreTypeOK
  <2>. QED BY <1>18, <2>2, <2>3 DEF InsertLink
<1>19. CASE InsertMap(w)
  <2>0. ~At(w, "idle") /\ (Fault \/ NoFault) /\ UNCHANGED <<jobs, docs, seen, past>>
    BY <1>19 DEF InsertMap, At, Succeeds, Fails
  <2>1. WorkerTypeOK' /\ \A v \in Workers : Carried(v)
    BY <1>0, <1>19, <2>0, GotoEffect DEF InsertMap, Handling
  <2>2. CASE UNCHANGED <<tasks, nextId, mapped>>
    BY <1>0, <1>2, <2>0, <2>1, <2>2 DEF StoreTypeOK
  <2>3. CASE /\ JobExists(JobOf(w))
             /\ InsertMappedBatch(worker[w].id, worker[w].links)
             /\ InsertTasks(JobOf(w), worker[w].todo, worker[w].row.depth + 1)
    <3>1. worker[w].links \in SUBSET Urls /\ worker[w].todo \in SUBSET Urls
      BY <1>0 DEF WorkerTypeOK, WorkerState
    <3>2. mapped' \in [TaskIds -> SUBSET Urls]
      BY <1>0, <2>3, <3>1 DEF InsertMappedBatch, StoreTypeOK
    <3>3. nextId' \in 1 .. (MaxTaskId + 1) /\ tasks' \in [TaskIds -> TaskRow] /\ RowsEvolve
      BY <1>0, <1>1, <2>0, <2>3, <3>1, InsertRowsEvolve
    <3>. QED BY <1>5, <2>0, <2>1, <3>2, <3>3
  <2>. QED BY <1>19, <2>2, <2>3 DEF InsertMap
<1>20. CASE Settle(w)
  <2>0. ~At(w, "idle") /\ (Fault \/ NoFault) /\ Goto(w, "pending")
        /\ UNCHANGED <<jobs, nextId, docs, mapped, seen, past>>
    BY <1>20 DEF Settle, At
  <2>1. WorkerTypeOK' /\ \A v \in Workers : Carried(v)
    BY <1>0, <2>0, GotoEffect DEF Closing
  <2>2. CASE UNCHANGED tasks
    BY <1>0, <1>2, <2>0, <2>1, <2>2 DEF StoreTypeOK
  <2>3. CASE \/ CompleteTask(worker[w].id)
             \/ RetryTask(worker[w].id) \/ FailTask(worker[w].id)
    <3>1. tasks' \in [TaskIds -> TaskRow] /\ RowsEvolve
      BY <1>0, <1>1, <2>0, <2>3, SettleRowEffect
    <3>. QED BY <1>0, <1>5, <2>0, <2>1, <3>1 DEF StoreTypeOK
  <2>. QED BY <1>20, <2>2, <2>3 DEF Settle
<1>21. CASE CheckPending(w)
  <2>1. WorkerTypeOK' /\ \A v \in Workers : Carried(v)
    BY <1>0, <1>21, GotoEffect, ReleaseEffect DEF CheckPending, At, Closing
  <2>. QED BY <1>3, <1>21, <2>1 DEF CheckPending
<1>22. CASE CheckFailed(w)
  <2>1. CASE Release(w)
    BY <1>0, <1>3, <1>22, <2>1, ReleaseEffect DEF CheckFailed
  <2>2. CASE Become(w, [worker[w] EXCEPT
               !.pc = "finish",
               !.verdict = IF Failed(JobOf(w)) = {}
                           THEN "completed" ELSE "completed_with_errors"])
    <3>1. PICK verdict \in Finished :
            verdict = IF Failed(JobOf(w)) = {}
                      THEN "completed" ELSE "completed_with_errors"
      BY DEF Finished
    <3>. DEFINE state == [worker[w] EXCEPT !.pc = "finish", !.verdict = verdict]
    <3>2. state \in WorkerState /\ state.id = worker[w].id /\ state.row = worker[w].row
      BY <1>0 DEF WorkerTypeOK, WorkerState, Closing
    <3>3. Become(w, state)
      BY <2>2, <3>1
    <3>. HIDE DEF state
    <3>4. WorkerTypeOK' /\ \A v \in Workers : Carried(v)
      BY <1>0, <1>22, <3>2, <3>3, BecomeEffect DEF CheckFailed, At
    <3>. QED BY <1>3, <1>22, <3>4 DEF CheckFailed
  <2>. QED BY <1>22, <2>1, <2>2 DEF CheckFailed
<1>23. CASE FinishJob(w)
  <2>1. worker[w].verdict \in JobStatus
    BY <1>0 DEF WorkerTypeOK, WorkerState, JobStatus
  <2>. QED BY <1>0, <1>4, <1>23, <2>1, ReleaseEffect DEF FinishJob, At
<1>. QED
  BY <1>6, <1>7, <1>8, <1>9, <1>10, <1>11, <1>12, <1>13, <1>14, <1>15, <1>16, <1>17,
     <1>18, <1>19, <1>20, <1>21, <1>22, <1>23
  DEF WorkerStep

\* Heartbeats, lease timeouts and crashes keep the tables well formed.
LEMMA BackgroundType ==
  ASSUME TypeOK, Structure, UNCHANGED <<request, sweep>>,
         \/ \E w \in Workers : Heartbeat(w) \/ Crash(w)
         \/ \E t \in TaskIds : LeaseExpires(t)
  PROVE  TypeOK' /\ Structure'
<1>0. StoreTypeOK /\ WorkerTypeOK /\ SnapshotsOK
  BY DEF TypeOK, Structure
<1>1. ASSUME NEW t \in TaskIds, NEW h \in {"fresh", "stale"},
             UpdateTask(t, [tasks[t] EXCEPT !.heartbeat = h]), TaskExists(t),
             NoFault, UNCHANGED <<jobs, nextId, docs, mapped, seen, past, worker>>
      PROVE  TypeOK' /\ Structure'
  <2>. DEFINE row == [tasks[t] EXCEPT !.heartbeat = h]
  <2>1. /\ row \in TaskRow /\ row.job = tasks[t].job
        /\ row.requested = tasks[t].requested /\ row.status # "absent"
    BY <1>0, <1>1 DEF StoreTypeOK, TaskRow, TaskExists
  <2>2. UpdateTask(t, row)
    BY <1>1
  <2>. HIDE DEF row
  <2>3. tasks' \in [TaskIds -> TaskRow] /\ RowsEvolve
    BY <1>0, <1>1, <2>1, <2>2, UpdateTaskEffect
  <2>4. StoreTypeOK'
    BY <1>0, <1>1, <2>3, FaultsType DEF StoreTypeOK
  <2>5. WorkerTypeOK' /\ \A v \in Workers : Carried(v)
    BY <1>0, <1>1 DEF WorkerTypeOK, Carried
  <2>. QED BY <1>1, <2>3, <2>4, <2>5, JobsUnchanged, WorkerFrame
<1>2. ASSUME UNCHANGED <<tables, past>>, Fault \/ NoFault,
             WorkerTypeOK', \A v \in Workers : Carried(v)
      PROVE  TypeOK' /\ Structure'
  <2>1. StoreTypeOK'
    BY <1>0, <1>2, FaultsType DEF StoreTypeOK, tables
  <2>. QED BY <1>0, <1>2, <2>1, JobsUnchanged, RowsUnchanged, WorkerFrame DEF tables
<1>3. ASSUME NEW w \in Workers, Heartbeat(w) PROVE TypeOK' /\ Structure'
  <2>1. worker[w].id \in TaskIds
    BY <1>0, <1>3 DEF Heartbeat, SnapshotsOK, SnapshotOK
  <2>2. CASE TaskExists(worker[w].id)
    BY <1>1, <1>3, <2>1, <2>2 DEF Heartbeat, UpdateTaskHeartbeat
  <2>3. CASE ~TaskExists(worker[w].id)
    <3>1. UNCHANGED <<tables, past>> /\ UNCHANGED worker /\ NoFault
      BY <1>3, <2>3 DEF Heartbeat, UpdateTaskHeartbeat, UpdateTask, tables
    <3>2. WorkerTypeOK' /\ \A v \in Workers : Carried(v)
      BY <1>0, <3>1 DEF WorkerTypeOK, Carried
    <3>. QED BY <1>2, <3>1, <3>2
  <2>. QED BY <2>2, <2>3
<1>4. ASSUME NEW w \in Workers, Crash(w) PROVE TypeOK' /\ Structure'
  BY <1>0, <1>2, <1>4, ReleaseEffect DEF Crash
<1>5. ASSUME NEW t \in TaskIds, LeaseExpires(t) PROVE TypeOK' /\ Structure'
  <2>1. TaskExists(t)
    BY <1>5 DEF LeaseExpires, TaskExists
  <2>2. UpdateTask(t, [tasks[t] EXCEPT !.heartbeat = "stale"])
    BY <1>0, <1>5, <2>1 DEF LeaseExpires, UpdateTask, StoreTypeOK
  <2>. QED BY <1>1, <1>5, <2>1, <2>2 DEF LeaseExpires
<1>. QED BY <1>3, <1>4, <1>5

\* The DELETE of a sweep takes jobs and, with them, all of their rows.
LEMMA DeleteJobsEffect ==
  ASSUME StoreTypeOK, NEW S \in SUBSET Jobs, DeleteJobs(S)
  PROVE  /\ jobs' \in [Jobs -> JobStatus \union NoRow]
         /\ tasks' \in [TaskIds -> TaskRow]
         /\ docs' \in [TaskIds -> Nat]
         /\ mapped' \in [TaskIds -> SUBSET Urls]
         /\ \A j \in Jobs : jobs'[j] = IF j \in S /\ JobExists(j) THEN "deleted" ELSE jobs[j]
         /\ \A t \in TaskIds : tasks'[t] = IF tasks[t].job \in S THEN NoTask ELSE tasks[t]
<1>1. NoTask \in TaskRow
  BY DEF NoTask, TaskRow
<1>. QED BY <1>1 DEF DeleteJobs, StoreTypeOK, NoRow

\* A sweep and the passing of time keep the tables well formed.
LEMMA SweepType ==
  ASSUME TypeOK, Structure, UNCHANGED <<request, worker>>,
         \/ \E s \in Sweepers : SweepStep(s)
         \/ \E j \in Jobs : \E l \in Limits : LimitPasses(j, l) /\ UNCHANGED sweep
  PROVE  TypeOK' /\ Structure'
<1>0. StoreTypeOK /\ CleanupTypeOK /\ RowsOK /\ RequestsOK /\ SnapshotsOK
  BY DEF TypeOK, Structure
<1>1. ApiTypeOK' /\ WorkerTypeOK' /\ \A w \in Workers : Carried(w)
  BY DEF TypeOK, ApiTypeOK, WorkerTypeOK, Carried
<1>2. ASSUME StoreTypeOK', CleanupTypeOK', JobsEvolve, AbsentStays,
             UNCHANGED <<tasks, nextId>>
      PROVE  TypeOK' /\ Structure'
  <2>1. RowsEvolve
    BY <1>0, <1>2, RowsUnchanged
  <2>2. RowsOK' /\ SnapshotsOK'
    BY <1>0, <1>1, <1>2, <2>1, RowsFrame, SnapshotsFrame DEF SnapshotsOK, At
  <2>3. RequestsOK'
    BY <1>0, <1>2 DEF RequestsOK, AbsentStays
  <2>. QED BY <1>1, <1>2, <2>2, <2>3 DEF TypeOK, Structure
<1>3. ASSUME NEW s \in Sweepers, CancelExpired(s) PROVE TypeOK' /\ Structure'
  <2>1. CleanupTypeOK'
    BY <1>0, <1>3 DEF CancelExpired, CleanupTypeOK
  <2>2. jobs' \in [Jobs -> JobStatus \union NoRow] /\ JobsEvolve /\ AbsentStays
    <3>1. CASE UNCHANGED jobs
      BY <1>0, <3>1, JobsUnchanged DEF StoreTypeOK
    <3>2. CASE jobs' = [j \in Jobs |->
                          IF j \in Expired /\ jobs[j] \notin Finished
                          THEN "cancelled" ELSE jobs[j]]
      <4>1. jobs' \in [Jobs -> JobStatus \union NoRow]
        BY <1>0, <3>2 DEF StoreTypeOK, JobStatus
      <4>2. \A k \in Jobs : jobs'[k] = jobs[k] \/ (JobExists(k) /\ jobs'[k] = "cancelled")
        BY <3>2 DEF Expired
      <4>. QED BY <4>1, <4>2 DEF JobsEvolve, AbsentStays, JobExists, NoRow
    <3>. QED BY <1>3, <3>1, <3>2 DEF CancelExpired
  <2>3. StoreTypeOK'
    BY <1>0, <1>3, <2>2, FaultsType DEF CancelExpired, StoreTypeOK
  <2>. QED BY <1>2, <1>3, <2>1, <2>2, <2>3 DEF CancelExpired
<1>4. ASSUME NEW s \in Sweepers, DeleteExpired(s) PROVE TypeOK' /\ Structure'
  <2>1. CleanupTypeOK' /\ (Fault \/ NoFault) /\ UNCHANGED <<nextId, seen, past>>
    BY <1>0, <1>4 DEF DeleteExpired, CleanupTypeOK
  <2>2. CASE UNCHANGED <<jobs, tasks, docs, mapped>>
    <3>1. StoreTypeOK'
      BY <1>0, <2>1, <2>2, FaultsType DEF StoreTypeOK
    <3>. QED BY <1>2, <2>1, <2>2, <3>1, JobsUnchanged
  <2>3. CASE DeleteJobs(Deletable)
    <3>0. Deletable \in SUBSET Jobs /\ \A j \in Deletable : JobExists(j)
      BY DEF Deletable, Expired
    <3>1. /\ StoreTypeOK'
          /\ \A j \in Jobs : jobs'[j] = IF j \in Deletable THEN "deleted" ELSE jobs[j]
          /\ \A t \in TaskIds :
               tasks'[t] = IF tasks[t].job \in Deletable THEN NoTask ELSE tasks[t]
      BY <1>0, <2>1, <2>3, <3>0, DeleteJobsEffect, FaultsType DEF StoreTypeOK
    <3>2. RowsOK'
      BY <1>0, <2>1, <3>1 DEF RowsOK, TaskExists, JobExists
    <3>3. RequestsOK'
      BY <1>0, <3>0, <3>1 DEF RequestsOK, JobExists, NoRow
    <3>4. SnapshotsOK'
      <4>. SUFFICES ASSUME NEW w \in Workers, worker[w].pc # "idle" PROVE SnapshotOK(w)'
        BY DEF SnapshotsOK, At
      <4>1. SnapshotOK(w)
        BY <1>0 DEF SnapshotsOK, At
      <4>2. CASE JobOf(w) \in Deletable
        BY <2>1, <3>0, <3>1, <4>1, <4>2 DEF SnapshotOK, JobOf, JobExists, NoRow
      <4>3. CASE JobOf(w) \notin Deletable
        <5>1. tasks'[worker[w].id] = tasks[worker[w].id]
          BY <3>0, <3>1, <4>1, <4>3, NoneAssumption DEF SnapshotOK, NoTask
        <5>. QED BY <2>1, <3>1, <4>1, <4>3, <5>1 DEF SnapshotOK, JobOf, JobExists
      <4>. QED BY <4>2, <4>3
    <3>. QED BY <1>1, <2>1, <3>1, <3>2, <3>3, <3>4 DEF TypeOK, Structure
  <2>. QED BY <1>4, <2>2, <2>3 DEF DeleteExpired
<1>5. ASSUME NEW j \in Jobs, NEW l \in Limits, LimitPasses(j, l), UNCHANGED sweep
      PROVE  TypeOK' /\ Structure'
  <2>1. StoreTypeOK'
    BY <1>0, <1>5 DEF LimitPasses, StoreTypeOK, tables
  <2>2. CleanupTypeOK'
    BY <1>0, <1>5 DEF CleanupTypeOK
  <2>. QED BY <1>2, <1>5, <2>1, <2>2, JobsUnchanged DEF LimitPasses, tables
<1>. QED BY <1>3, <1>4, <1>5 DEF SweepStep

\* Every step keeps the tables well formed.
LEMMA TypeStep ==
  ASSUME TypeOK, Structure, [Next]_vars
  PROVE  TypeOK' /\ Structure'
<1>1. CASE UNCHANGED vars
  <2>1. TypeOK'
    BY <1>1 DEF vars, storeVars, TypeOK, StoreTypeOK, ApiTypeOK, WorkerTypeOK, CleanupTypeOK
  <2>2. Structure'
    BY <1>1 DEF vars, storeVars, Structure, RowsOK, RequestsOK, SnapshotsOK, SnapshotOK,
                At, JobOf, TaskExists, JobExists
  <2>. QED BY <2>1, <2>2
<1>2. CASE Next
  BY <1>2, ApiType, WorkerType, BackgroundType, SweepType DEF Next
<1>. QED BY <1>1, <1>2

\* Every reachable state is well typed, and the tables are consistent: rows belong
\* to existing jobs, and what a worker remembers of a row still names it.
THEOREM TypeCorrect == Spec => [](TypeOK /\ Structure)
<1>1. TypeOK /\ Structure /\ [Next]_vars => (TypeOK /\ Structure)'
  BY TypeStep
<1>. QED BY <1>1, TypeInit, PTL DEF Spec

=============================================================================
