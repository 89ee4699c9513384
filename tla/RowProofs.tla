----------------------------- MODULE RowProofs -----------------------------
(***************************************************************************)
(* Theorems about single rows of Crawler that need no lease: they hold     *)
(* when two workers handle the same task, for every set of jobs, URLs,     *)
(* workers and sweepers and any number of faults.                          *)
(***************************************************************************)
EXTENDS CrawlerProofs

-----------------------------------------------------------------------------
(* The invariant.                                                          *)

\* Where a worker is once the document of its task is stored.
WithDocument == {"mark", "expand", "filter", "insert", "ok"}

\* The attempts a worker remembers are not more than those of the row.
AttemptsKnown ==
  \A w \in Workers :
    (~At(w, "idle") /\ TaskExists(worker[w].id))
      => worker[w].row.attempts <= tasks[worker[w].id].attempts

DocumentStored ==
  \A w \in Workers :
    (worker[w].pc \in WithDocument /\ TypeOf(w) # "map" /\ TaskExists(worker[w].id))
      => docs[worker[w].id] > 0

RowInv ==
  NoOrphans /\ AttemptsKnown /\ FailedOnlyAfterRetries /\ DocumentStored /\ DoneHasDocument

-----------------------------------------------------------------------------
(* What a step may do to a row and to a worker.                            *)

\* The row is there after the step (t names the same row before and after it).
Remains(t) == tasks'[t].status # "absent"

Dropped(t) == tasks'[t] = NoTask /\ docs'[t] = 0 /\ mapped'[t] = {}

Added(t) == nextId <= t /\ Remains(t) /\ tasks'[t].status = "queued"

Empty(t) == ~TaskExists(t) /\ ~Remains(t) /\ docs'[t] = docs[t] /\ mapped'[t] = mapped[t]

Kept(t) ==
  /\ TaskExists(t) /\ Remains(t)
  /\ tasks'[t].job = tasks[t].job
  /\ tasks[t].attempts <= tasks'[t].attempts
  /\ docs[t] <= docs'[t]
  /\ tasks'[t].status = "failed" =>
       tasks[t].status = "failed" \/ tasks'[t].attempts > MaxRetries
  /\ (tasks'[t].status = "done" /\ Request[tasks[t].job].type # "map") =>
       tasks[t].status = "done" \/ docs[t] > 0

RowMoves(t) == Dropped(t) \/ Added(t) \/ Empty(t) \/ Kept(t)

Claims(w) ==
  /\ worker'[w].pc = "getjob"
  /\ worker'[w].id \in TaskIds
  /\ worker'[w].row.attempts <= tasks'[worker'[w].id].attempts

Continues(w) ==
  /\ worker[w].pc # "idle"
  /\ worker'[w].id = worker[w].id /\ worker'[w].row = worker[w].row
  /\ worker'[w].pc \in WithDocument =>
       worker[w].pc \in WithDocument \/ TypeOf(w) = "map" \/ docs'[worker[w].id] > 0

WorkerMoves(w) == worker'[w].pc = "idle" \/ Claims(w) \/ Continues(w)

\* The row a worker remembers is kept, or it is gone.
LEMMA RememberedRow ==
  ASSUME TypeOK, Structure, TypeOK', NEW w \in Workers, worker[w].pc # "idle",
         \A t \in TaskIds : RowMoves(t), Remains(worker[w].id)
  PROVE  worker[w].id \in TaskIds /\ Kept(worker[w].id)
<1>1. worker[w].id \in TaskIds /\ worker[w].id < nextId
  BY DEF Structure, SnapshotsOK, SnapshotOK, At
<1>2. RowMoves(worker[w].id)
  BY <1>1
<1>3. ~Added(worker[w].id)
  BY <1>1 DEF Added, TypeOK, StoreTypeOK, TaskIds
<1>4. ~Dropped(worker[w].id)
  BY DEF Dropped, Remains, NoTask
<1>5. ~Empty(worker[w].id)
  BY DEF Empty
<1>. QED BY <1>1, <1>2, <1>3, <1>4, <1>5 DEF RowMoves

\* Such steps preserve the invariant.
LEMMA RowFrame ==
  ASSUME TypeOK, Structure, RowInv, TypeOK', Structure',
         \A t \in TaskIds : RowMoves(t), \A w \in Workers : WorkerMoves(w)
  PROVE  RowInv'
<1>0. /\ \A t \in TaskIds : /\ tasks[t].attempts \in Nat /\ tasks'[t].attempts \in Nat
                            /\ docs[t] \in Nat /\ docs'[t] \in Nat
      /\ \A w \in Workers : worker[w].row.attempts \in Nat /\ worker'[w].row.attempts \in Nat
  BY DEF TypeOK, StoreTypeOK, WorkerTypeOK, WorkerState, TaskRow
<1>1. NoOrphans'
  <2>. SUFFICES ASSUME NEW t \in TaskIds
                PROVE  IF TaskExists(t)' THEN JobExists(tasks[t].job)'
                                         ELSE docs'[t] = 0 /\ mapped'[t] = {}
    BY DEF NoOrphans
  <2>1. CASE TaskExists(t)'
    BY <2>1 DEF Structure, RowsOK, TaskExists, NoTask
  <2>2. CASE ~TaskExists(t)'
    <3>1. Dropped(t) \/ Empty(t)
      BY <2>2 DEF RowMoves, Added, Kept, Remains, TaskExists
    <3>. QED BY <2>2, <3>1 DEF Dropped, Empty, RowInv, NoOrphans, TaskExists
  <2>. QED BY <2>1, <2>2
<1>2. AttemptsKnown'
  <2>. SUFFICES ASSUME NEW w \in Workers, worker'[w].pc # "idle", Remains(worker'[w].id)
                PROVE  worker'[w].row.attempts <= tasks'[worker'[w].id].attempts
    BY DEF AttemptsKnown, At, TaskExists, Remains
  <2>1. CASE Claims(w)
    BY <2>1 DEF Claims
  <2>2. CASE Continues(w)
    <3>1. worker[w].id \in TaskIds /\ Kept(worker[w].id)
      BY <2>2, RememberedRow DEF Continues
    <3>2. worker[w].row.attempts <= tasks[worker[w].id].attempts
      BY <2>2, <3>1 DEF RowInv, AttemptsKnown, At, Kept, Continues
    <3>. QED BY <1>0, <2>2, <3>1, <3>2 DEF Kept, Continues
  <2>. QED BY <2>1, <2>2 DEF WorkerMoves
<1>3. FailedOnlyAfterRetries'
  <2>. SUFFICES ASSUME NEW t \in TaskIds, tasks'[t].status = "failed"
                PROVE  tasks'[t].attempts > MaxRetries
    BY DEF FailedOnlyAfterRetries
  <2>1. Kept(t)
    BY DEF RowMoves, Dropped, Added, Empty, Remains, NoTask
  <2>. QED BY <1>0, <2>1, ConfigAssumption DEF Kept, RowInv, FailedOnlyAfterRetries
<1>4. DocumentStored'
  <2>. SUFFICES ASSUME NEW w \in Workers, worker'[w].pc \in WithDocument,
                       TypeOf(w)' # "map", Remains(worker'[w].id)
                PROVE  docs'[worker'[w].id] > 0
    BY DEF DocumentStored, TaskExists, Remains
  <2>1. Continues(w)
    BY DEF WorkerMoves, Claims, WithDocument
  <2>2. worker[w].id \in TaskIds /\ Kept(worker[w].id)
    BY <2>1, RememberedRow DEF Continues, WithDocument
  <2>3. TypeOf(w) # "map"
    BY <2>1 DEF Continues, TypeOf, JobOf
  <2>4. CASE docs'[worker[w].id] > 0
    BY <2>1, <2>4 DEF Continues
  <2>5. CASE worker[w].pc \in WithDocument
    <3>1. docs[worker[w].id] > 0
      BY <2>2, <2>3, <2>5 DEF RowInv, DocumentStored, Kept
    <3>. QED BY <1>0, <2>1, <2>2, <3>1 DEF Continues, Kept
  <2>. QED BY <2>1, <2>3, <2>4, <2>5 DEF Continues
<1>5. DoneHasDocument'
  <2>. SUFFICES ASSUME NEW t \in TaskIds, tasks'[t].status = "done",
                       Request[tasks'[t].job].type # "map"
                PROVE  docs'[t] > 0
    BY DEF DoneHasDocument
  <2>1. Kept(t)
    BY DEF RowMoves, Dropped, Added, Empty, Remains, NoTask
  <2>2. docs[t] > 0
    BY <2>1 DEF Kept, RowInv, DoneHasDocument
  <2>. QED BY <1>0, <2>1, <2>2 DEF Kept
<1>. QED BY <1>1, <1>2, <1>3, <1>4, <1>5 DEF RowInv

-----------------------------------------------------------------------------
(* The pieces a step is made of.                                           *)

\* Rows that are left alone.
LEMMA RowsStill ==
  ASSUME TypeOK, UNCHANGED <<tasks, docs, mapped>>
  PROVE  \A t \in TaskIds : RowMoves(t)
<1>. SUFFICES ASSUME NEW t \in TaskIds PROVE RowMoves(t)
  OBVIOUS
<1>1. tasks[t].attempts \in Nat /\ docs[t] \in Nat
  BY DEF TypeOK, StoreTypeOK, TaskRow
<1>2. CASE TaskExists(t)
  BY <1>1, <1>2 DEF RowMoves, Kept, Remains, TaskExists
<1>3. CASE ~TaskExists(t)
  BY <1>3 DEF RowMoves, Empty, Remains, TaskExists
<1>. QED BY <1>2, <1>3

\* An UPDATE of one row that leaves its job, its status and its attempts alone, or
\* hands it to a worker.
LEMMA RowTouched ==
  ASSUME TypeOK, NEW t \in TaskIds, TaskExists(t), UNCHANGED <<docs, mapped>>,
         \A s \in TaskIds : s # t => tasks'[s] = tasks[s],
         tasks'[t].job = tasks[t].job, tasks'[t].attempts = tasks[t].attempts,
         tasks'[t].status = tasks[t].status \/ tasks'[t].status = "processing"
  PROVE  \A s \in TaskIds : RowMoves(s)
<1>. SUFFICES ASSUME NEW s \in TaskIds PROVE RowMoves(s)
  OBVIOUS
<1>1. tasks[s].attempts \in Nat /\ docs[s] \in Nat
  BY DEF TypeOK, StoreTypeOK, TaskRow
<1>2. CASE TaskExists(s)
  BY <1>1, <1>2 DEF RowMoves, Kept, Remains, TaskExists
<1>3. CASE ~TaskExists(s)
  BY <1>3 DEF RowMoves, Empty, Remains, TaskExists
<1>. QED BY <1>2, <1>3

\* Rows that are added, or left alone.
LEMMA RowsInserted ==
  ASSUME TypeOK, Structure, UNCHANGED docs,
         \A t \in TaskIds : TaskExists(t) \/ mapped'[t] = mapped[t],
         \A t \in TaskIds :
           tasks'[t] = tasks[t] \/ (nextId <= t /\ tasks'[t].status = "queued")
  PROVE  \A t \in TaskIds : RowMoves(t)
<1>. SUFFICES ASSUME NEW t \in TaskIds PROVE RowMoves(t)
  OBVIOUS
<1>1. tasks[t].attempts \in Nat /\ docs[t] \in Nat
  BY DEF TypeOK, StoreTypeOK, TaskRow
<1>2. CASE nextId <= t /\ tasks'[t].status = "queued"
  BY <1>2 DEF RowMoves, Added, Remains
<1>3. CASE tasks'[t] = tasks[t] /\ TaskExists(t)
  BY <1>1, <1>3 DEF RowMoves, Kept, Remains, TaskExists
<1>4. CASE tasks'[t] = tasks[t] /\ ~TaskExists(t)
  BY <1>4 DEF RowMoves, Empty, Remains, TaskExists
<1>. QED BY <1>2, <1>3, <1>4

\* A worker that is left alone.
LEMMA WorkerStill ==
  ASSUME NEW v \in Workers, worker'[v] = worker[v]
  PROVE  WorkerMoves(v)
BY DEF WorkerMoves, Continues

\* A goroutine changes its own state and keeps the snapshot it has.
LEMMA BecomeMoves ==
  ASSUME TypeOK, NEW w \in Workers, ~At(w, "idle"), NEW state, Become(w, state),
         state.id = worker[w].id, state.row = worker[w].row,
         state.pc \in WithDocument =>
           worker[w].pc \in WithDocument \/ TypeOf(w) = "map" \/ docs'[worker[w].id] > 0
  PROVE  \A v \in Workers : WorkerMoves(v)
<1>1. \A v \in Workers : worker'[v] = IF v = w THEN state ELSE worker[v]
  BY DEF Become, TypeOK, WorkerTypeOK
<1>2. WorkerMoves(w)
  BY <1>1 DEF WorkerMoves, Continues, At
<1>. QED BY <1>1, <1>2, WorkerStill

\* It moves on to the next statement.
LEMMA GotoMoves ==
  ASSUME TypeOK, NEW w \in Workers, ~At(w, "idle"), NEW pc, Goto(w, pc),
         pc \in WithDocument =>
           worker[w].pc \in WithDocument \/ TypeOf(w) = "map" \/ docs'[worker[w].id] > 0
  PROVE  \A v \in Workers : WorkerMoves(v)
<1>. DEFINE state == [worker[w] EXCEPT !.pc = pc]
<1>1. /\ state.pc = pc /\ state.id = worker[w].id /\ state.row = worker[w].row
  BY DEF TypeOK, WorkerTypeOK, WorkerState
<1>2. Become(w, state)
  BY DEF Goto
<1>. HIDE DEF state
<1>. QED BY <1>1, <1>2, BecomeMoves

\* It drops its snapshot.
LEMMA ReleaseMoves ==
  ASSUME TypeOK, NEW w \in Workers, Release(w)
  PROVE  \A v \in Workers : WorkerMoves(v)
<1>1. \A v \in Workers : v # w => worker'[v] = worker[v]
  BY ReleaseEffect DEF TypeOK
<1>2. WorkerMoves(w)
  BY ReleaseEffect DEF TypeOK, WorkerMoves
<1>. QED BY <1>1, <1>2, WorkerStill

-----------------------------------------------------------------------------
\* The row that a worker handles while its job is there.
LEMMA SnapshotRow ==
  ASSUME TypeOK, Structure, NEW w \in Workers, ~At(w, "idle")
  PROVE  /\ worker[w].id \in TaskIds /\ JobOf(w) \in Jobs /\ worker[w].row.depth + 1 \in Nat
         /\ TaskExists(worker[w].id) => tasks[worker[w].id].job = JobOf(w)
         /\ JobExists(JobOf(w)) => TaskExists(worker[w].id)
<1>1. SnapshotOK(w) /\ worker[w].row \in TaskRow
  BY DEF Structure, SnapshotsOK, TypeOK, WorkerTypeOK, WorkerState
<1>2. CASE JobExists(JobOf(w))
  <2>1. tasks[worker[w].id] # NoTask
    BY <1>1, <1>2, NoneAssumption DEF SnapshotOK, NoTask
  <2>. QED BY <1>1, <1>2, <2>1 DEF SnapshotOK, Structure, RowsOK, TaskRow
<1>3. CASE ~JobExists(JobOf(w))
  BY <1>1, <1>3 DEF SnapshotOK, TaskExists, NoTask, TaskRow
<1>. QED BY <1>2, <1>3

\* Which statement settled a row shows in its status.
LEMMA SettledStatus ==
  ASSUME TypeOK, NEW t \in TaskIds, TaskExists(t)
  PROVE  /\ CompleteTask(t) => tasks'[t].status = "done"
         /\ RetryTask(t) => tasks'[t].status = "queued"
         /\ FailTask(t) => tasks'[t].status = "failed"
<1>0. tasks[t] \in TaskRow /\ tasks \in [TaskIds -> TaskRow]
  BY DEF TypeOK, StoreTypeOK
<1>1. PICK n : n = tasks[t].attempts + 1
  OBVIOUS
<1>2. ASSUME CompleteTask(t) PROVE tasks'[t].status = "done"
  BY <1>0, <1>2 DEF CompleteTask, UpdateTask, TaskRow
<1>3. ASSUME RetryTask(t) PROVE tasks'[t].status = "queued"
  <2>1. tasks'[t] = [tasks[t] EXCEPT !.status = "queued", !.attempts = n,
                                     !.heartbeat = "null"]
    BY <1>0, <1>1, <1>3 DEF RetryTask, UpdateTask
  <2>. QED BY <1>0, <2>1 DEF TaskRow
<1>4. ASSUME FailTask(t) PROVE tasks'[t].status = "failed"
  <2>1. tasks'[t] = [tasks[t] EXCEPT !.status = "failed", !.attempts = n]
    BY <1>0, <1>1, <1>4 DEF FailTask, UpdateTask
  <2>. QED BY <1>0, <2>1 DEF TaskRow
<1>. QED BY <1>2, <1>3, <1>4

\* Settling a row: it fails only when no retry is left, and it is done only if its
\* worker has come past the document.
LEMMA SettleRows ==
  ASSUME TypeOK, Structure, RowInv, NEW w \in Workers, Settle(w)
  PROVE  \A t \in TaskIds : RowMoves(t)
<1>0. ~At(w, "idle") /\ UNCHANGED <<nextId, docs, mapped>>
  BY DEF Settle, At
<1>. DEFINE i == worker[w].id
<1>1. CASE UNCHANGED tasks
  BY <1>0, <1>1, RowsStill
<1>2. CASE \/ At(w, "ok") /\ CompleteTask(i)
           \/ At(w, "err") /\ shouldRetry(worker[w].row.attempts) /\ RetryTask(i)
           \/ At(w, "err") /\ ~shouldRetry(worker[w].row.attempts) /\ FailTask(i)
  <2>0. i \in TaskIds /\ (TaskExists(i) => tasks[i].job = JobOf(w))
    BY <1>0, SnapshotRow
  <2>1. /\ \A s \in TaskIds : s # i => tasks'[s] = tasks[s]
        /\ ~TaskExists(i) => tasks'[i] = tasks[i]
        /\ TaskExists(i) =>
             /\ tasks'[i].job = tasks[i].job
             /\ \/ /\ CompleteTask(i)
                   /\ tasks'[i].status = "done"
                   /\ tasks'[i].attempts = tasks[i].attempts
                \/ /\ RetryTask(i)
                   /\ tasks'[i].status = "queued"
                   /\ tasks'[i].attempts = tasks[i].attempts + 1
                \/ /\ FailTask(i)
                   /\ tasks'[i].status = "failed"
                   /\ tasks'[i].attempts = tasks[i].attempts + 1
    BY <1>0, <1>2, <2>0, SettleRowEffect DEF TypeOK
  <2>2. CASE ~TaskExists(i)
    <3>1. \A s \in TaskIds : tasks'[s] = tasks[s]
      BY <2>1, <2>2
    <3>. QED BY <1>0, <3>1, RowsInserted
  <2>3. ASSUME TaskExists(i), NEW s \in TaskIds PROVE RowMoves(s)
    <3>1. /\ tasks[s].attempts \in Nat /\ tasks[i].attempts \in Nat /\ docs[s] \in Nat
          /\ worker[w].row.attempts \in Nat /\ MaxRetries \in Nat
      BY <2>0, ConfigAssumption
      DEF TypeOK, StoreTypeOK, TaskRow, WorkerTypeOK, WorkerState
    <3>2. CASE s # i /\ TaskExists(s)
      BY <1>0, <2>1, <3>1, <3>2 DEF RowMoves, Kept, Remains, TaskExists
    <3>3. CASE s # i /\ ~TaskExists(s)
      BY <1>0, <2>1, <3>3 DEF RowMoves, Empty, Remains, TaskExists
    <3>4. CASE s = i
      <4>1. tasks'[i].status = "done" => tasks'[i].attempts = tasks[i].attempts
        BY <2>1, <2>3
      <4>2. tasks[i].attempts <= tasks'[i].attempts /\ Remains(i)
        BY <2>1, <2>3, <3>1 DEF Remains
      <4>3. tasks'[i].status = "failed" => tasks'[i].attempts > MaxRetries
        <5>. SUFFICES ASSUME tasks'[i].status = "failed" PROVE tasks'[i].attempts > MaxRetries
          OBVIOUS
        <5>1. FailTask(i) /\ tasks'[i].attempts = tasks[i].attempts + 1
          BY <2>1, <2>3
        <5>2. ~shouldRetry(worker[w].row.attempts)
          BY <1>2, <2>0, <2>3, SettledStatus
        <5>3. worker[w].row.attempts <= tasks[i].attempts
          BY <1>0, <2>3 DEF RowInv, AttemptsKnown
        <5>. QED BY <3>1, <5>1, <5>2, <5>3 DEF shouldRetry
      <4>4. (tasks'[i].status = "done" /\ Request[tasks[i].job].type # "map") => docs[i] > 0
        <5>. SUFFICES ASSUME tasks'[i].status = "done", Request[tasks[i].job].type # "map"
                      PROVE  docs[i] > 0
          OBVIOUS
        <5>1. At(w, "ok")
          BY <1>2, <2>0, <2>3, SettledStatus
        <5>2. TypeOf(w) # "map"
          BY <2>0, <2>3 DEF TypeOf
        <5>. QED BY <2>3, <5>1, <5>2 DEF RowInv, DocumentStored, WithDocument, At
      <4>. QED BY <1>0, <2>1, <2>3, <3>1, <3>4, <4>2, <4>3, <4>4 DEF RowMoves, Kept
    <3>. QED BY <3>2, <3>3, <3>4
  <2>. QED BY <2>2, <2>3
<1>. QED BY <1>1, <1>2 DEF Settle

-----------------------------------------------------------------------------
\* Rows that a page or a map inserts for the job of a worker.
LEMMA LinkRows ==
  ASSUME TypeOK, Structure, NEW w \in Workers, ~At(w, "idle"), NEW S \in SUBSET Urls,
         JobExists(JobOf(w)), UNCHANGED <<jobs, docs>>,
         InsertTasks(JobOf(w), S, worker[w].row.depth + 1),
         UNCHANGED mapped \/ InsertMappedBatch(worker[w].id, worker[w].links)
  PROVE  \A t \in TaskIds : RowMoves(t)
<1>1. /\ worker[w].id \in TaskIds /\ JobOf(w) \in Jobs /\ TaskExists(worker[w].id)
      /\ worker[w].row.depth + 1 \in Nat
  BY SnapshotRow
<1>2. \A t \in TaskIds : TaskExists(t) \/ mapped'[t] = mapped[t]
  BY <1>1 DEF InsertMappedBatch, TypeOK, StoreTypeOK
<1>3. \A t \in TaskIds :
        tasks'[t] = tasks[t] \/ (nextId <= t /\ tasks'[t].status = "queued")
  <2>. DEFINE d == worker[w].row.depth + 1
  <2>1. d \in Nat /\ InsertTasks(JobOf(w), S, d)
    BY <1>1
  <2>. HIDE DEF d
  <2>2. \A t \in TaskIds :
          \/ tasks'[t] = tasks[t]
          \/ nextId <= t /\ \E u \in S : tasks'[t] = NewTask(JobOf(w), u, d)
    BY <1>1, <2>1, InsertTasksEffect DEF TypeOK
  <2>3. \A u : NewTask(JobOf(w), u, d).status = "queued"
    BY DEF NewTask
  <2>4. ASSUME NEW t \in TaskIds, NEW u, tasks'[t] = NewTask(JobOf(w), u, d)
        PROVE  tasks'[t].status = "queued"
    BY <2>3, <2>4
  <2>. QED BY <2>2, <2>4
<1>. QED BY <1>2, <1>3, RowsInserted

\* A step of a worker, whatever fails in it.
LEMMA WorkerRows ==
  ASSUME TypeOK, Structure, RowInv, NEW w \in Workers, WorkerStep(w)
  PROVE  /\ \A t \in TaskIds : RowMoves(t)
         /\ \A v \in Workers : WorkerMoves(v)
<1>0. WorkerTypeOK /\ StoreTypeOK
  BY DEF TypeOK
<1>1. ASSUME NEW t \in TaskIds, Claim(w, t)
      PROVE  /\ \A s \in TaskIds : RowMoves(s)
             /\ \A v \in Workers : WorkerMoves(v)
  <2>1. t \in Eligible /\ UNCHANGED <<docs, mapped>>
    BY <1>1 DEF Claim, Claimable
  <2>2. TaskExists(t) /\ tasks[t] \in TaskRow
    BY <1>0, <2>1 DEF Eligible, TaskExists, StoreTypeOK
  <2>3. /\ ClaimedRow(t).job = tasks[t].job /\ ClaimedRow(t).status = "processing"
        /\ ClaimedRow(t).attempts = tasks[t].attempts
    BY <2>2 DEF ClaimedRow, TaskRow
  <2>4. \A s \in TaskIds : tasks'[s] = IF s = t THEN ClaimedRow(t) ELSE tasks[s]
    BY <1>0, <1>1 DEF Claim, StoreTypeOK
  <2>5. \A s \in TaskIds : RowMoves(s)
    BY <2>1, <2>2, <2>3, <2>4, RowTouched
  <2>6. /\ worker'[w].pc = "getjob" /\ worker'[w].id = t /\ worker'[w].row = ClaimedRow(t)
        /\ \A v \in Workers : v # w => worker'[v] = worker[v]
    BY <1>0, <1>1 DEF Claim, Become, WorkerTypeOK, Idle
  <2>7. Claims(w)
    <3>1. ClaimedRow(t).attempts \in Nat
      BY <2>2, <2>3 DEF TaskRow
    <3>. QED BY <2>4, <2>6, <3>1 DEF Claims
  <2>. QED BY <2>5, <2>6, <2>7, WorkerStill DEF WorkerMoves
\* Steps that write no row.
<1>2. CASE GetJob(w) \/ CancelOverdue(w) \/ StartQueued(w) \/ CheckPending(w)
           \/ FinishJob(w) \/ MarkSeen(w) \/ FetchMapPage(w)
  <2>1. UNCHANGED <<tasks, docs, mapped>> /\ ~At(w, "idle")
    BY <1>2 DEF GetJob, CancelOverdue, StartQueued, CheckPending, FinishJob, MarkSeen,
                FetchMapPage, tables, At
  <2>2. CASE Release(w)
    BY <2>1, <2>2, RowsStill, ReleaseMoves
  <2>3. CASE ~Release(w)
    <3>1. PICK pc : /\ Goto(w, pc)
                    /\ pc \in WithDocument => At(w, "mark") \/ TypeOf(w) = "map"
      BY <1>2, <2>3 DEF GetJob, CancelOverdue, StartQueued, CheckPending, FinishJob, MarkSeen,
                        FetchMapPage, WithDocument
    <3>2. pc \in WithDocument => worker[w].pc \in WithDocument \/ TypeOf(w) = "map"
      BY <3>1 DEF At, WithDocument
    <3>. QED BY <2>1, <3>1, <3>2, RowsStill, GotoMoves
  <2>. QED BY <2>2, <2>3
<1>3. CASE Dispatch(w)
  <2>0. UNCHANGED <<tasks, docs, mapped>> /\ ~At(w, "idle")
    BY <1>3 DEF Dispatch, tables, At
  <2>1. PICK bounded \in BOOLEAN : bounded = ~Overdue(JobOf(w))
    BY Zenon DEF Overdue
  <2>. DEFINE state == [worker[w] EXCEPT !.pc = "fetch", !.bounded = bounded]
  <2>2. state.pc = "fetch" /\ state.id = worker[w].id /\ state.row = worker[w].row
    BY <1>0 DEF WorkerTypeOK, WorkerState
  <2>3. Become(w, state)
    BY <1>3, <2>1 DEF Dispatch
  <2>. HIDE DEF state
  <2>. QED BY <2>0, <2>2, <2>3, BecomeMoves, RowsStill DEF WithDocument
<1>4. CASE Expand(w)
  <2>0. UNCHANGED <<tasks, docs, mapped>> /\ ~At(w, "idle") /\ worker[w].pc \in WithDocument
    BY <1>4 DEF Expand, tables, At, WithDocument
  <2>1. CASE Goto(w, "ok") \/ Goto(w, "err")
    BY <2>0, <2>1, GotoMoves, RowsStill
  <2>2. ASSUME NEW found, Become(w, [worker[w] EXCEPT
                 !.pc = IF found = {} THEN "ok" ELSE "filter",
                 !.links = found,
                 !.check = IF DedupeCache THEN found ELSE {},
                 !.todo = found])
        PROVE  /\ \A t \in TaskIds : RowMoves(t)
               /\ \A v \in Workers : WorkerMoves(v)
    <3>. DEFINE state == [worker[w] EXCEPT
                 !.pc = IF found = {} THEN "ok" ELSE "filter",
                 !.links = found,
                 !.check = IF DedupeCache THEN found ELSE {},
                 !.todo = found]
    <3>1. state.id = worker[w].id /\ state.row = worker[w].row
      BY <1>0 DEF WorkerTypeOK, WorkerState
    <3>2. Become(w, state)
      BY <2>2
    <3>. HIDE DEF state
    <3>. QED BY <2>0, <3>1, <3>2, BecomeMoves, RowsStill
  <2>. QED BY <1>4, <2>1, <2>2 DEF Expand
<1>5. ASSUME NEW u \in Urls, SkipSeen(w, u)
      PROVE  /\ \A t \in TaskIds : RowMoves(t)
             /\ \A v \in Workers : WorkerMoves(v)
  <2>0. UNCHANGED <<tasks, docs, mapped>> /\ ~At(w, "idle") /\ worker[w].pc \in WithDocument
    BY <1>5 DEF SkipSeen, tables, At, WithDocument
  <2>1. CASE Goto(w, "err")
    BY <2>0, <2>1, GotoMoves, RowsStill
  <2>2. CASE Become(w, [worker[w] EXCEPT
               !.check = @ \ {u},
               !.todo = IF u \in seen THEN @ \ {u} ELSE @])
    <3>1. PICK check, todo : Become(w, [worker[w] EXCEPT !.check = check, !.todo = todo])
      BY <2>2
    <3>. DEFINE state == [worker[w] EXCEPT !.check = check, !.todo = todo]
    <3>2. state.id = worker[w].id /\ state.row = worker[w].row
      BY <1>0 DEF WorkerTypeOK, WorkerState
    <3>3. Become(w, state)
      BY <3>1
    <3>. HIDE DEF state
    <3>. QED BY <2>0, <3>2, <3>3, BecomeMoves, RowsStill
  <2>. QED BY <1>5, <2>1, <2>2 DEF SkipSeen
<1>6. CASE CountTasks(w)
  <2>0. UNCHANGED <<tasks, docs, mapped>> /\ ~At(w, "idle") /\ worker[w].pc \in WithDocument
    BY <1>6 DEF CountTasks, tables, At, WithDocument
  <2>1. CASE Goto(w, "err")
    BY <2>0, <2>1, GotoMoves, RowsStill
  <2>2. ASSUME NEW pc, NEW kept, Become(w, [worker[w] EXCEPT !.pc = pc, !.todo = kept])
        PROVE  /\ \A t \in TaskIds : RowMoves(t)
               /\ \A v \in Workers : WorkerMoves(v)
    <3>. DEFINE state == [worker[w] EXCEPT !.pc = pc, !.todo = kept]
    <3>1. state.id = worker[w].id /\ state.row = worker[w].row
      BY <1>0 DEF WorkerTypeOK, WorkerState
    <3>2. Become(w, state)
      BY <2>2
    <3>. HIDE DEF state
    <3>. QED BY <2>0, <3>1, <3>2, BecomeMoves, RowsStill
  <2>. QED BY <1>6, <2>1, <2>2 DEF CountTasks
<1>7. CASE CheckFailed(w)
  <2>0. UNCHANGED <<tasks, docs, mapped>> /\ ~At(w, "idle")
    BY <1>7 DEF CheckFailed, tables, At
  <2>1. CASE Release(w)
    BY <2>0, <2>1, ReleaseMoves, RowsStill
  <2>2. ASSUME NEW verdict,
               Become(w, [worker[w] EXCEPT !.pc = "finish", !.verdict = verdict])
        PROVE  /\ \A t \in TaskIds : RowMoves(t)
               /\ \A v \in Workers : WorkerMoves(v)
    <3>. DEFINE state == [worker[w] EXCEPT !.pc = "finish", !.verdict = verdict]
    <3>1. state.pc = "finish" /\ state.id = worker[w].id /\ state.row = worker[w].row
      BY <1>0 DEF WorkerTypeOK, WorkerState
    <3>2. Become(w, state)
      BY <2>2
    <3>. HIDE DEF state
    <3>. QED BY <2>0, <3>1, <3>2, BecomeMoves, RowsStill DEF WithDocument
  <2>. QED BY <1>7, <2>1, <2>2 DEF CheckFailed
\* Steps that write one.
<1>8. CASE FetchPage(w)
  <2>. DEFINE i == worker[w].id
              final == Canon[Redirect[worker[w].row.requested]]
  <2>0. UNCHANGED <<docs, mapped>> /\ ~At(w, "idle") /\ i \in TaskIds
    BY <1>8, SnapshotRow DEF FetchPage, At
  <2>1. \A v \in Workers : WorkerMoves(v)
    BY <1>8, <2>0, GotoMoves DEF FetchPage, WithDocument
  <2>2. CASE UNCHANGED tasks
    BY <2>0, <2>1, <2>2, RowsStill
  <2>3. CASE TaskExists(i) /\ tasks' = [tasks EXCEPT ![i].final = final]
    <3>. HIDE DEF final
    <3>1. /\ \A s \in TaskIds : s # i => tasks'[s] = tasks[s]
          /\ tasks'[i].job = tasks[i].job /\ tasks'[i].attempts = tasks[i].attempts
          /\ tasks'[i].status = tasks[i].status
      BY <1>0, <2>0, <2>3 DEF StoreTypeOK, TaskRow
    <3>. QED BY <2>0, <2>1, <2>3, <3>1, RowTouched
  <2>. QED BY <1>8, <2>2, <2>3 DEF FetchPage, UpdateTaskFinalURL
<1>9. CASE StoreDocument(w)
  <2>. DEFINE i == worker[w].id
  <2>0. UNCHANGED <<tasks, mapped>> /\ ~At(w, "idle") /\ i \in TaskIds
    BY <1>9, SnapshotRow DEF StoreDocument, At
  <2>1. CASE UNCHANGED docs /\ Goto(w, "err")
    BY <2>0, <2>1, GotoMoves, RowsStill DEF WithDocument
  <2>2. CASE JobExists(JobOf(w)) /\ InsertDocument(i) /\ \E pc \in Handling : Goto(w, pc)
    <3>1. TaskExists(i)
      BY <2>0, <2>2, SnapshotRow
    <3>2. /\ \A s \in TaskIds : docs[s] \in Nat /\ tasks[s].attempts \in Nat
          /\ \A s \in TaskIds : docs'[s] = IF s = i THEN docs[i] + 1 ELSE docs[s]
      BY <1>0, <2>0, <2>2 DEF InsertDocument, StoreTypeOK, TaskRow
    <3>3. docs'[i] > 0
      BY <2>0, <3>2
    <3>4. ASSUME NEW s \in TaskIds PROVE RowMoves(s)
      <4>1. CASE TaskExists(s)
        BY <2>0, <3>2, <4>1 DEF RowMoves, Kept, Remains, TaskExists
      <4>2. CASE ~TaskExists(s)
        BY <2>0, <3>1, <3>2, <4>2 DEF RowMoves, Empty, Remains, TaskExists
      <4>. QED BY <4>1, <4>2
    <3>. QED BY <2>0, <2>2, <3>3, <3>4, GotoMoves
  <2>. QED BY <1>9, <2>1, <2>2 DEF StoreDocument, Handling
<1>10. ASSUME NEW u \in Urls, InsertLink(w, u)
       PROVE  /\ \A t \in TaskIds : RowMoves(t)
              /\ \A v \in Workers : WorkerMoves(v)
  <2>0. UNCHANGED <<jobs, docs, mapped>> /\ ~At(w, "idle") /\ worker[w].pc \in WithDocument
    BY <1>10 DEF InsertLink, At, WithDocument
  <2>1. \A v \in Workers : WorkerMoves(v)
    <3>1. CASE Goto(w, "err")
      BY <2>0, <3>1, GotoMoves
    <3>2. ASSUME NEW pc, NEW todo, Become(w, [worker[w] EXCEPT !.pc = pc, !.todo = todo])
          PROVE  \A v \in Workers : WorkerMoves(v)
      <4>. DEFINE state == [worker[w] EXCEPT !.pc = pc, !.todo = todo]
      <4>1. state.id = worker[w].id /\ state.row = worker[w].row
        BY <1>0 DEF WorkerTypeOK, WorkerState
      <4>2. Become(w, state)
        BY <3>2
      <4>. HIDE DEF state
      <4>. QED BY <2>0, <4>1, <4>2, BecomeMoves
    <3>. QED BY <1>10, <3>1, <3>2 DEF InsertLink
  <2>2. CASE UNCHANGED <<tasks, nextId>>
    BY <2>0, <2>1, <2>2, RowsStill
  <2>3. CASE JobExists(JobOf(w)) /\ InsertTasks(JobOf(w), {u}, worker[w].row.depth + 1)
    BY <2>0, <2>1, <2>3, LinkRows
  <2>. QED BY <1>10, <2>2, <2>3 DEF InsertLink
<1>11. CASE InsertMap(w)
  <2>0. UNCHANGED <<jobs, docs>> /\ ~At(w, "idle") /\ worker[w].pc \in WithDocument
        /\ worker[w].todo \in SUBSET Urls
    BY <1>0, <1>11 DEF InsertMap, At, WithDocument, WorkerTypeOK, WorkerState
  <2>1. \A v \in Workers : WorkerMoves(v)
    BY <1>11, <2>0, GotoMoves DEF InsertMap
  <2>2. CASE UNCHANGED <<tasks, nextId, mapped>>
    BY <2>0, <2>1, <2>2, RowsStill
  <2>3. CASE /\ JobExists(JobOf(w))
             /\ InsertMappedBatch(worker[w].id, worker[w].links)
             /\ InsertTasks(JobOf(w), worker[w].todo, worker[w].row.depth + 1)
    BY <2>0, <2>1, <2>3, LinkRows
  <2>. QED BY <1>11, <2>2, <2>3 DEF InsertMap
<1>12. CASE Settle(w)
  <2>1. Goto(w, "pending") /\ ~At(w, "idle")
    BY <1>12 DEF Settle, At
  <2>. QED BY <1>12, <2>1, SettleRows, GotoMoves DEF WithDocument
<1>. QED
  BY <1>1, <1>2, <1>3, <1>4, <1>5, <1>6, <1>7, <1>8, <1>9, <1>10, <1>11, <1>12
  DEF WorkerStep

-----------------------------------------------------------------------------
\* A step of a request: only its commit writes rows, and it adds them.
LEMMA ApiRows ==
  ASSUME TypeOK, Structure, NEW j \in Jobs, ApiStep(j)
  PROVE  \A t \in TaskIds : RowMoves(t)
<1>1. CASE Submit(j) \/ \E u \in Urls : CheckSeed(j, u)
  BY <1>1, RowsStill DEF Submit, CheckSeed, tables
<1>2. CASE CommitJob(j)
  <2>0. UNCHANGED <<docs, mapped>> /\ request[j].keep \in SUBSET Urls
    BY <1>2 DEF CommitJob, TypeOK, ApiTypeOK
  <2>1. CASE UNCHANGED <<jobs, tasks, nextId>>
    BY <2>0, <2>1, RowsStill
  <2>2. CASE InsertTasks(j, request[j].keep, 0)
    <3>1. \A t \in TaskIds :
            \/ tasks'[t] = tasks[t]
            \/ nextId <= t /\ \E u \in request[j].keep : tasks'[t] = NewTask(j, u, 0)
      BY <2>0, <2>2, InsertTasksEffect DEF TypeOK
    <3>2. \A u : NewTask(j, u, 0).status = "queued"
      BY DEF NewTask
    <3>3. ASSUME NEW t \in TaskIds, NEW u, tasks'[t] = NewTask(j, u, 0)
          PROVE  tasks'[t].status = "queued"
      BY <3>2, <3>3
    <3>4. \A t \in TaskIds :
            tasks'[t] = tasks[t] \/ (nextId <= t /\ tasks'[t].status = "queued")
      BY <3>1, <3>3
    <3>. QED BY <2>0, <3>4, RowsInserted
  <2>. QED BY <1>2, <2>1, <2>2 DEF CommitJob
<1>. QED BY <1>1, <1>2 DEF ApiStep

\* Heartbeats, lease timeouts and crashes.
LEMMA BackgroundRows ==
  ASSUME TypeOK, Structure,
         \/ \E w \in Workers : Heartbeat(w) \/ Crash(w)
         \/ \E t \in TaskIds : LeaseExpires(t)
  PROVE  /\ \A t \in TaskIds : RowMoves(t)
         /\ \A v \in Workers : WorkerMoves(v)
<1>0. StoreTypeOK
  BY DEF TypeOK
<1>1. ASSUME NEW t \in TaskIds, TaskExists(t), NEW h,
             tasks' = [tasks EXCEPT ![t].heartbeat = h], UNCHANGED <<docs, mapped, worker>>
      PROVE  /\ \A s \in TaskIds : RowMoves(s)
             /\ \A v \in Workers : WorkerMoves(v)
  <2>1. /\ \A s \in TaskIds : s # t => tasks'[s] = tasks[s]
        /\ tasks'[t].job = tasks[t].job /\ tasks'[t].attempts = tasks[t].attempts
        /\ tasks'[t].status = tasks[t].status
    BY <1>0, <1>1 DEF StoreTypeOK, TaskRow
  <2>. QED BY <1>1, <2>1, RowTouched, WorkerStill
<1>2. ASSUME NEW w \in Workers, Heartbeat(w)
      PROVE  /\ \A s \in TaskIds : RowMoves(s)
             /\ \A v \in Workers : WorkerMoves(v)
  <2>1. worker[w].id \in TaskIds /\ UNCHANGED <<docs, mapped, worker>>
    BY <1>2, SnapshotRow DEF Heartbeat
  <2>2. CASE TaskExists(worker[w].id)
    <3>1. tasks' = [tasks EXCEPT ![worker[w].id].heartbeat = "fresh"]
      BY <1>0, <1>2, <2>1, <2>2
      DEF Heartbeat, UpdateTaskHeartbeat, UpdateTask, StoreTypeOK
    <3>. QED BY <1>1, <2>1, <2>2, <3>1
  <2>3. CASE ~TaskExists(worker[w].id)
    BY <1>2, <2>1, <2>3, RowsStill, WorkerStill
    DEF Heartbeat, UpdateTaskHeartbeat, UpdateTask
  <2>. QED BY <2>2, <2>3
<1>3. ASSUME NEW w \in Workers, Crash(w)
      PROVE  /\ \A s \in TaskIds : RowMoves(s)
             /\ \A v \in Workers : WorkerMoves(v)
  BY <1>3, RowsStill, ReleaseMoves DEF Crash, tables
<1>4. ASSUME NEW t \in TaskIds, LeaseExpires(t)
      PROVE  /\ \A s \in TaskIds : RowMoves(s)
             /\ \A v \in Workers : WorkerMoves(v)
  BY <1>1, <1>4 DEF LeaseExpires, TaskExists
<1>. QED BY <1>2, <1>3, <1>4

\* A sweep, and the passing of time: a deleted job takes its rows with it.
LEMMA SweepRows ==
  ASSUME TypeOK, Structure, RowInv,
         \/ \E s \in Sweepers : SweepStep(s)
         \/ \E j \in Jobs : \E l \in Limits : LimitPasses(j, l)
  PROVE  \A t \in TaskIds : RowMoves(t)
<1>1. CASE UNCHANGED <<tasks, docs, mapped>>
  BY <1>1, RowsStill
<1>2. CASE DeleteJobs(Deletable)
  <2>. SUFFICES ASSUME NEW t \in TaskIds PROVE RowMoves(t)
    OBVIOUS
  <2>1. tasks[t].attempts \in Nat /\ docs[t] \in Nat
    BY DEF TypeOK, StoreTypeOK, TaskRow
  <2>2. CASE tasks[t].job \in Deletable
    BY <1>2, <2>2 DEF DeleteJobs, RowMoves, Dropped
  <2>3. CASE tasks[t].job \notin Deletable
    <3>1. tasks'[t] = tasks[t] /\ docs'[t] = docs[t] /\ mapped'[t] = mapped[t]
      BY <1>2, <2>3 DEF DeleteJobs
    <3>2. CASE TaskExists(t)
      BY <2>1, <3>1, <3>2 DEF RowMoves, Kept, Remains, TaskExists
    <3>3. CASE ~TaskExists(t)
      BY <3>1, <3>3 DEF RowMoves, Empty, Remains, TaskExists
    <3>. QED BY <3>2, <3>3
  <2>. QED BY <2>2, <2>3
<1>. QED BY <1>1, <1>2 DEF SweepStep, CancelExpired, DeleteExpired, LimitPasses, tables

\* Every step preserves the invariant.
LEMMA RowStep ==
  ASSUME TypeOK, Structure, RowInv, TypeOK', Structure', [Next]_vars
  PROVE  RowInv'
<1>1. ASSUME UNCHANGED worker PROVE \A v \in Workers : WorkerMoves(v)
  BY <1>1, WorkerStill
<1>2. CASE UNCHANGED vars
  BY <1>1, <1>2, RowsStill, RowFrame DEF vars, storeVars
<1>3. CASE \E j \in Jobs : ApiStep(j) /\ UNCHANGED <<worker, sweep>>
  BY <1>1, <1>3, ApiRows, RowFrame
<1>4. CASE \E w \in Workers : WorkerStep(w)
  BY <1>4, WorkerRows, RowFrame
<1>5. CASE \/ \E w \in Workers : Heartbeat(w) \/ Crash(w)
           \/ \E t \in TaskIds : LeaseExpires(t)
  BY <1>5, BackgroundRows, RowFrame
<1>6. CASE \/ \E s \in Sweepers : SweepStep(s) /\ UNCHANGED <<request, worker>>
           \/ \E j \in Jobs : \E l \in Limits :
                LimitPasses(j, l) /\ UNCHANGED <<request, worker, sweep>>
  BY <1>1, <1>6, SweepRows, RowFrame
<1>. QED BY <1>2, <1>3, <1>4, <1>5, <1>6 DEF Next

\* At the start there is no row and no worker has one.
LEMMA RowInit == Init => RowInv
BY DEF Init, StoreInit, WorkerInit, RowInv, NoOrphans, AttemptsKnown, FailedOnlyAfterRetries,
       DocumentStored, DoneHasDocument, At, Idle, TaskExists, NoTask, WithDocument

\* The invariant holds along every behaviour.
LEMMA RowsHold == Spec => []RowInv
<1>1. RowInv /\ (TypeOK /\ Structure) /\ (TypeOK /\ Structure)' /\ [Next]_vars => RowInv'
  BY RowStep
<1>. QED BY <1>1, RowInit, TypeCorrect, PTL DEF Spec

-----------------------------------------------------------------------------
\* store.go, migrations: a job's rows go with it, and no statement a worker issues for
\* a deleted job leaves a task, a document or a mapped URL behind.
THEOREM NoOrphansRemain == Spec => []NoOrphans
<1>1. RowInv => NoOrphans
  BY DEF RowInv
<1>. QED BY <1>1, RowsHold, PTL

\* worker.go: a task fails for good only after all of its retries, also when
\* several workers hold it and each counts from the attempts it claimed with.
THEOREM GivenUpOnlyAfterRetries == Spec => []FailedOnlyAfterRetries
<1>1. RowInv => FailedOnlyAfterRetries
  BY DEF RowInv
<1>. QED BY <1>1, RowsHold, PTL

\* worker.go: a batch or crawl task that is done has its document, whoever settled it.
THEOREM DoneTasksHaveDocuments == Spec => []DoneHasDocument
<1>1. RowInv => DoneHasDocument
  BY DEF RowInv
<1>. QED BY <1>1, RowsHold, PTL

=============================================================================
