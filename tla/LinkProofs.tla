----------------------------- MODULE LinkProofs -----------------------------
(***************************************************************************)
(* Where tasks come from and what becomes of the links of a page, for      *)
(* every site, configuration and number of workers, whatever fails and     *)
(* whoever holds a task.                                                   *)
(***************************************************************************)
EXTENDS RowProofs, FiniteSetTheorems

-----------------------------------------------------------------------------
(* The invariant.                                                          *)

\* The final URL of a row is the one asked for or the one it redirects to.
FinalKnown ==
  \A t \in TaskIds : TaskExists(t) =>
    \/ tasks[t].final = Canon[tasks[t].requested]
    \/ tasks[t].final = Canon[Redirect[tasks[t].requested]]

\* What a worker remembers of its row, other than its state, is still true.
SnapshotsTrue ==
  \A w \in Workers :
    (~At(w, "idle") /\ TaskExists(worker[w].id)) =>
      /\ tasks[worker[w].id].requested = worker[w].row.requested
      /\ tasks[worker[w].id].depth = worker[w].row.depth

SeedsAsked == \A j \in Jobs : request[j].keep \subseteq Request[j].urls

Covered(j, u) == HasTaskFor(j, u) \/ (DedupeCache /\ u \in seen)

OverCap(j, u) ==
  /\ MaxTasks > 0
  /\ Cardinality(TasksOf(j)) + Cardinality(Links[u] \union SitemapLinks[u]) > MaxTasks

Follows(w) == TypeOf(w) # "batch_scrape" /\ ~AtDepthLimit(w)

\* The links a worker has in hand are those of its page.
LinksInHand(w) ==
  worker[w].pc \in {"filter", "insert"} =>
    /\ Follows(w)
    /\ PageLinks(w) \subseteq worker[w].links
    /\ worker[w].todo \subseteq worker[w].links
    /\ worker[w].links \subseteq Links[worker[w].row.requested]
                                   \union SitemapLinks[worker[w].row.requested]
    /\ worker[w].check # {} => DedupeCache

\* A link of the page is still to be inserted, or need not be.
LinksKept(w) ==
  (/\ worker[w].pc \in {"filter", "insert", "ok"}
   /\ Follows(w)
   /\ TaskExists(worker[w].id)) =>
     \A u \in PageLinks(w) :
       \/ Covered(JobOf(w), u)
       \/ OverCap(JobOf(w), worker[w].row.requested)
       \/ ~At(w, "ok") /\ u \in worker[w].todo

\* A map task that is about to succeed has reported its links.
LinksMapped(w) ==
  (At(w, "ok") /\ Follows(w) /\ TypeOf(w) = "map" /\ TaskExists(worker[w].id)) =>
    Links[worker[w].row.requested] \subseteq mapped[worker[w].id]

HandOK(w) == LinksInHand(w) /\ LinksKept(w) /\ LinksMapped(w)

LinkInv ==
  /\ FinalKnown /\ SnapshotsTrue /\ SeedsAsked
  /\ \A w \in Workers : HandOK(w)
  /\ DoneCoversLinks /\ TasksAreDiscovered

\* A page, and a sitemap, is a finite document.
FiniteLinks == \A u \in Urls : IsFiniteSet(Links[u] \union SitemapLinks[u])

-----------------------------------------------------------------------------
(* What a step may do to a row.                                            *)

\* A worker is about to complete the task.
Reported(t) == \E w \in Workers : At(w, "ok") /\ worker[w].id = t

\* The row keeps what it was created with, and what was stored for it.
Stays(t) ==
  /\ TaskExists(t) /\ Remains(t)
  /\ tasks'[t].job = tasks[t].job
  /\ tasks'[t].requested = tasks[t].requested
  /\ tasks'[t].depth = tasks[t].depth
  /\ \/ tasks'[t].final = tasks[t].final
     \/ tasks'[t].final = Canon[Redirect[tasks[t].requested]]
  /\ docs[t] <= docs'[t]
  /\ mapped[t] \subseteq mapped'[t]
  /\ tasks'[t].status = "done" => tasks[t].status = "done" \/ Reported(t)

\* It goes, and its job with it.
Goes(t) == TaskExists(t) /\ ~Remains(t) /\ jobs'[tasks[t].job] \in NoRow

Seeded(t) ==
  \E j \in Jobs : \E u \in request[j].keep : tasks'[t] = NewTask(j, u, 0)

Linked(t) ==
  \E w \in Workers :
    /\ At(w, "insert") /\ JobExists(JobOf(w))
    /\ \E u \in worker[w].todo :
         tasks'[t] = NewTask(JobOf(w), u, worker[w].row.depth + 1)

Comes(t) == nextId <= t /\ (Seeded(t) \/ Linked(t))

Vacant(t) == ~TaskExists(t) /\ ~Remains(t)

RowLives(t) == Stays(t) \/ Goes(t) \/ Comes(t) \/ Vacant(t)

\* No row is lost from a job that is there.
LEMMA RowStays ==
  ASSUME TypeOK, Structure, NEW t \in TaskIds, TaskExists(t), RowLives(t),
         jobs'[tasks[t].job] \notin NoRow
  PROVE  Stays(t)
<1>1. t < nextId
  BY DEF Structure, RowsOK, TaskExists, NoTask
<1>2. t \in Int /\ nextId \in Int
  BY DEF TypeOK, StoreTypeOK, TaskIds
<1>. QED BY <1>1, <1>2 DEF RowLives, Goes, Comes, Vacant

\* A row that is there after a step was there before, or is new.
LEMMA RowOrigin ==
  ASSUME TypeOK, Structure, NEW t \in TaskIds, RowLives(t), Remains(t)
  PROVE  Stays(t) \/ Comes(t)
BY DEF RowLives, Goes, Vacant

\* A row a worker remembers was not just created.
LEMMA RememberedStays ==
  ASSUME TypeOK, Structure, NEW w \in Workers, worker[w].pc # "idle",
         RowLives(worker[w].id), Remains(worker[w].id)
  PROVE  Stays(worker[w].id)
<1>1. worker[w].id \in TaskIds /\ worker[w].id < nextId
  BY DEF Structure, SnapshotsOK, SnapshotOK, At
<1>2. worker[w].id \in Int /\ nextId \in Int
  BY <1>1 DEF TypeOK, StoreTypeOK, TaskIds
<1>. QED BY <1>1, <1>2 DEF RowLives, Goes, Comes, Vacant

\* What stands for a URL stands for it as long as the job exists.
LEMMA CoverLasts ==
  ASSUME TypeOK, Structure, FinalKnown, seen \subseteq seen', \A t \in TaskIds : RowLives(t),
         NEW j \in Jobs, jobs'[j] \notin NoRow, NEW u, Covered(j, u)
  PROVE  Covered(j, u)'
<1>1. CASE DedupeCache /\ u \in seen
  BY <1>1 DEF Covered
<1>2. CASE HasTaskFor(j, u)
  <2>1. PICK t \in TaskIds : /\ tasks[t].job = j
                             /\ Canon[tasks[t].requested] = u \/ tasks[t].final = u
    BY <1>2 DEF HasTaskFor, TasksOf
  <2>2. TaskExists(t)
    BY <2>1, NoneAssumption DEF Structure, RowsOK, NoTask
  <2>3. Stays(t)
    BY <2>1, <2>2, RowStays
  <2>4. Canon[tasks'[t].requested] = u \/ tasks'[t].final = u
    BY <2>1, <2>2, <2>3 DEF Stays, FinalKnown
  <2>. QED BY <2>1, <2>3, <2>4 DEF Covered, HasTaskFor, TasksOf, Stays
<1>. QED BY <1>1, <1>2 DEF Covered

\* A job that is full stays so: its rows go only with it.
LEMMA CapLasts ==
  ASSUME TypeOK, Structure, \A t \in TaskIds : RowLives(t), FiniteLinks,
         NEW j \in Jobs, jobs'[j] \notin NoRow, NEW u \in Urls, OverCap(j, u)
  PROVE  OverCap(j, u)'
<1>1. TasksOf(j) \subseteq TasksOf(j)'
  <2>. SUFFICES ASSUME NEW t \in TaskIds, tasks[t].job = j PROVE tasks'[t].job = j
    BY DEF TasksOf
  <2>1. TaskExists(t)
    BY NoneAssumption DEF Structure, RowsOK, NoTask
  <2>. QED BY <2>1, RowStays DEF Stays
<1>2. IsFiniteSet(TaskIds)
  BY FS_Interval, BoundsAssumption DEF TaskIds
<1>3. IsFiniteSet(TasksOf(j)) /\ IsFiniteSet(TasksOf(j)')
  BY <1>2, FS_Subset DEF TasksOf
<1>4. /\ Cardinality(TasksOf(j)) \in Nat /\ Cardinality(TasksOf(j)') \in Nat
      /\ Cardinality(TasksOf(j)) <= Cardinality(TasksOf(j)')
  BY <1>1, <1>3, FS_Subset, FS_CardinalityType
<1>5. Cardinality(Links[u] \union SitemapLinks[u]) \in Nat
  BY FS_CardinalityType DEF FiniteLinks
<1>6. PICK n, m : n = Cardinality(TasksOf(j)) /\ m = Cardinality(TasksOf(j)')
  OBVIOUS
<1>. QED BY <1>4, <1>5, <1>6, ConfigAssumption DEF OverCap

-----------------------------------------------------------------------------
(* Such steps preserve the invariant.                                      *)

Remembers(w) ==
  /\ worker'[w].pc = "getjob"
  /\ worker'[w].row.requested = tasks'[worker'[w].id].requested
  /\ worker'[w].row.depth = tasks'[worker'[w].id].depth

\* The goroutine keeps its snapshot, and its links unless HandOK is shown anew.
HandMoves(w) ==
  /\ worker[w].pc # "idle"
  /\ worker'[w].id = worker[w].id /\ worker'[w].row = worker[w].row
  /\ \/ worker'[w].pc \notin {"filter", "insert", "ok"}
     \/ /\ worker'[w].pc = worker[w].pc
        /\ worker'[w].links = worker[w].links /\ worker'[w].todo = worker[w].todo
        /\ worker'[w].check = worker[w].check
     \/ HandOK(w)'

LinkMoves(w) == worker'[w].pc = "idle" \/ Remembers(w) \/ HandMoves(w)

\* The fields of a new row.
LEMMA NewRow ==
  ASSUME NEW j, NEW u, NEW d
  PROVE  /\ NewTask(j, u, d).job = j /\ NewTask(j, u, d).requested = u
         /\ NewTask(j, u, d).final = Canon[u] /\ NewTask(j, u, d).depth = d
         /\ NewTask(j, u, d).status = "queued"
BY DEF NewTask

LEMMA FinalFrame ==
  ASSUME TypeOK, Structure, FinalKnown, \A t \in TaskIds : RowLives(t)
  PROVE  FinalKnown'
<1>. SUFFICES ASSUME NEW t \in TaskIds, Remains(t)
              PROVE  \/ tasks'[t].final = Canon[tasks'[t].requested]
                     \/ tasks'[t].final = Canon[Redirect[tasks'[t].requested]]
  BY DEF FinalKnown, TaskExists, Remains
<1>1. CASE Stays(t)
  BY <1>1 DEF Stays, FinalKnown
<1>2. CASE Comes(t)
  <2>1. PICK j, u, d : tasks'[t] = NewTask(j, u, d)
    BY <1>2 DEF Comes, Seeded, Linked
  <2>. QED BY <2>1, NewRow
<1>. QED BY <1>1, <1>2, RowOrigin

LEMMA SnapshotsFrameTrue ==
  ASSUME TypeOK, Structure, SnapshotsTrue,
         \A t \in TaskIds : RowLives(t), \A w \in Workers : LinkMoves(w)
  PROVE  SnapshotsTrue'
<1>. SUFFICES ASSUME NEW w \in Workers, worker'[w].pc # "idle", Remains(worker'[w].id)
              PROVE  /\ tasks'[worker'[w].id].requested = worker'[w].row.requested
                     /\ tasks'[worker'[w].id].depth = worker'[w].row.depth
  BY DEF SnapshotsTrue, At, TaskExists, Remains
<1>1. CASE Remembers(w)
  BY <1>1 DEF Remembers
<1>2. CASE HandMoves(w)
  <2>1. worker[w].id \in TaskIds
    BY <1>2 DEF HandMoves, Structure, SnapshotsOK, SnapshotOK, At
  <2>2. Stays(worker[w].id)
    BY <1>2, <2>1, RememberedStays DEF HandMoves
  <2>. QED BY <1>2, <2>1, <2>2 DEF HandMoves, Stays, SnapshotsTrue, At
<1>. QED BY <1>1, <1>2 DEF LinkMoves

\* A worker that keeps its links keeps the promise about them.
LEMMA HandFrame ==
  ASSUME TypeOK, Structure, TypeOK', Structure', FinalKnown, FiniteLinks, seen \subseteq seen',
         \A t \in TaskIds : RowLives(t),
         NEW w \in Workers, HandOK(w), worker[w].pc # "idle",
         worker'[w].id = worker[w].id, worker'[w].row = worker[w].row,
         worker'[w].pc = worker[w].pc,
         worker'[w].links = worker[w].links, worker'[w].todo = worker[w].todo,
         worker'[w].check = worker[w].check
  PROVE  HandOK(w)'
<1>. DEFINE i == worker[w].id
<1>0. PICK j \in Jobs, r \in Urls : j = JobOf(w) /\ r = worker[w].row.requested
  BY DEF Structure, SnapshotsOK, SnapshotOK, At
<1>1. /\ JobOf(w)' = j /\ worker'[w].row.requested = r
      /\ TypeOf(w)' = TypeOf(w) /\ AtDepthLimit(w)' = AtDepthLimit(w)
      /\ PageLinks(w)' = PageLinks(w) /\ Follows(w)' = Follows(w)
  BY <1>0 DEF JobOf, TypeOf, AtDepthLimit, PageLinks, Follows
<1>2. LinksInHand(w)'
  BY <1>1 DEF HandOK, LinksInHand
<1>3. ASSUME Remains(i)
      PROVE  /\ TaskExists(i) /\ mapped[i] \subseteq mapped'[i]
             /\ jobs'[j] \notin NoRow
  <2>1. i \in TaskIds /\ (TaskExists(i) => tasks[i].job = j)
    BY <1>0, SnapshotRow DEF At
  <2>2. Stays(i)
    BY <1>3, <2>1, RememberedStays
  <2>3. jobs'[tasks'[i].job] \notin NoRow
    BY <2>1, <1>3 DEF Structure, RowsOK, Remains, NoTask, JobExists
  <2>. QED BY <2>1, <2>2, <2>3 DEF Stays
<1>4. LinksKept(w)'
  <2>. SUFFICES ASSUME worker[w].pc \in {"filter", "insert", "ok"}, Follows(w), Remains(i),
                       NEW u \in PageLinks(w)
                PROVE  \/ Covered(j, u)'
                       \/ OverCap(j, r)'
                       \/ worker[w].pc # "ok" /\ u \in worker[w].todo
    BY <1>0, <1>1 DEF LinksKept, TaskExists, Remains, At, Covered, OverCap, HasTaskFor, TasksOf
  <2>1. \/ Covered(j, u)
        \/ OverCap(j, r)
        \/ worker[w].pc # "ok" /\ u \in worker[w].todo
    BY <1>0, <1>3 DEF HandOK, LinksKept, At
  <2>. QED BY <1>3, <2>1, CoverLasts, CapLasts
<1>5. LinksMapped(w)'
  BY <1>0, <1>1, <1>3 DEF HandOK, LinksMapped, TaskExists, Remains, At
<1>. QED BY <1>2, <1>4, <1>5 DEF HandOK

LEMMA HandsFrame ==
  ASSUME TypeOK, Structure, TypeOK', Structure', LinkInv, FiniteLinks, seen \subseteq seen',
         \A t \in TaskIds : RowLives(t), NEW w \in Workers, LinkMoves(w)
  PROVE  HandOK(w)'
<1>1. CASE worker'[w].pc \notin {"filter", "insert", "ok"}
  BY <1>1 DEF HandOK, LinksInHand, LinksKept, LinksMapped, At
<1>2. CASE HandMoves(w)
  BY <1>1, <1>2, HandFrame DEF HandMoves, LinkInv
<1>. QED BY <1>1, <1>2 DEF LinkMoves, Remembers

\* What a done task owes its job: the links of its page.
Owes(t, j, r) ==
  /\ \A u \in Followed(t) : Covered(j, u) \/ OverCap(j, r)
  /\ Request[j].type = "map" => Links[r] \subseteq mapped[t]

LEMMA DoneOwes ==
  ASSUME NEW t \in TaskIds, NEW j, NEW r, tasks[t].job = j, tasks[t].requested = r
  PROVE  (Expanded(t, MaxDepth(j)) => Owes(t, j, r)) <=>
           (Expanded(t, MaxDepth(tasks[t].job)) =>
              /\ \A u \in Followed(t) :
                   \/ HasTaskFor(tasks[t].job, u)
                   \/ DedupeCache /\ u \in seen
                   \/ MaxTasks > 0 /\ Cardinality(TasksOf(tasks[t].job)) +
                                       Cardinality(Links[tasks[t].requested]
                                         \union SitemapLinks[tasks[t].requested]) > MaxTasks
              /\ Request[tasks[t].job].type = "map" =>
                   Links[tasks[t].requested] \subseteq mapped[t])
BY DEF Owes, Covered, OverCap

LEMMA DoneFrame ==
  ASSUME TypeOK, Structure, TypeOK', Structure', LinkInv, FiniteLinks, seen \subseteq seen',
         \A t \in TaskIds : RowLives(t)
  PROVE  DoneCoversLinks'
<1>. SUFFICES ASSUME NEW t \in TaskIds, Expanded(t, MaxDepth(tasks[t].job))'
              PROVE  /\ \A u \in Followed(t)' :
                          \/ HasTaskFor(tasks[t].job, u)'
                          \/ DedupeCache /\ u \in seen'
                          \/ /\ MaxTasks > 0
                             /\ Cardinality(TasksOf(tasks[t].job)') +
                                Cardinality(Links[tasks'[t].requested]
                                  \union SitemapLinks[tasks'[t].requested]) > MaxTasks
                     /\ Request[tasks'[t].job].type = "map" =>
                          Links[tasks'[t].requested] \subseteq mapped'[t]
  BY DEF DoneCoversLinks
<1>0. tasks'[t].status = "done" /\ Remains(t)
  BY DEF Expanded, Remains
<1>1. Stays(t)
  <2>1. ASSUME Comes(t) PROVE FALSE
    <3>1. PICK j, u, d : tasks'[t] = NewTask(j, u, d)
      BY <2>1 DEF Comes, Seeded, Linked
    <3>. QED BY <1>0, <3>1, NewRow
  <2>. QED BY <1>0, <2>1, RowOrigin
<1>2. PICK j \in Jobs, r \in Urls : tasks[t].job = j /\ tasks[t].requested = r
  BY <1>1 DEF Stays, Structure, RowsOK, TaskExists, NoTask
<1>3. /\ tasks'[t].job = j /\ tasks'[t].requested = r /\ tasks'[t].depth = tasks[t].depth
      /\ mapped[t] \subseteq mapped'[t]
      /\ tasks[t].status = "done" \/ Reported(t)
  BY <1>0, <1>1, <1>2 DEF Stays
<1>4. jobs'[j] \notin NoRow
  BY <1>0, <1>3 DEF Structure, RowsOK, Remains, NoTask, JobExists
<1>5. Followed(t)' = Followed(t)
  BY <1>2, <1>3 DEF Followed
<1>6. Request[j].type # "batch_scrape" /\ tasks[t].depth < MaxDepth(j)
  BY <1>3 DEF Expanded, MaxDepth
<1>7. Owes(t, j, r)
  <2>1. CASE tasks[t].status = "done"
    <3>1. Expanded(t, MaxDepth(j))
      BY <1>2, <1>6, <2>1 DEF Expanded
    <3>. QED BY <1>2, <3>1, DoneOwes DEF LinkInv, DoneCoversLinks
  <2>2. CASE Reported(t)
    <3>1. PICK w \in Workers : At(w, "ok") /\ worker[w].id = t
      BY <2>2 DEF Reported
    <3>2. TaskExists(t) /\ worker[w].pc # "idle"
      BY <1>1, <3>1 DEF Stays, At
    <3>3. JobOf(w) = j /\ worker[w].row.requested = r /\ worker[w].row.depth = tasks[t].depth
      BY <1>2, <3>1, <3>2, SnapshotRow DEF LinkInv, SnapshotsTrue, At
    <3>4. Follows(w)
      <4>1. tasks[t].depth \in Int /\ MaxDepth(j) \in Int
        BY RequestAssumption DEF MaxDepth, TypeOK, StoreTypeOK, TaskRow
      <4>. QED BY <1>6, <3>3, <4>1 DEF Follows, TypeOf, AtDepthLimit
    <3>5. PageLinks(w) = Followed(t)
      BY <1>2, <3>3 DEF PageLinks, Followed, TypeOf
    <3>6. \A u \in Followed(t) : Covered(j, u) \/ OverCap(j, r)
      BY <3>1, <3>2, <3>3, <3>4, <3>5 DEF LinkInv, HandOK, LinksKept, At
    <3>7. Request[j].type = "map" => Links[r] \subseteq mapped[t]
      BY <3>1, <3>2, <3>3, <3>4 DEF LinkInv, HandOK, LinksMapped, TypeOf
    <3>. QED BY <3>6, <3>7 DEF Owes
  <2>. QED BY <1>3, <2>1, <2>2
<1>8. \A u \in Followed(t) : Covered(j, u)' \/ OverCap(j, r)'
  BY <1>4, <1>7, CoverLasts, CapLasts DEF Owes, LinkInv
<1>. QED
  BY <1>3, <1>5, <1>7, <1>8 DEF Owes, Covered, OverCap, HasTaskFor, TasksOf

\* A page of job j that links to u, one level above d.
Parent(p, j, u, d) ==
  /\ tasks[p].job = j
  /\ tasks[p].depth = d - 1
  /\ u \in Links[tasks[p].requested] \union SitemapLinks[tasks[p].requested]
  /\ Request[j].type = "crawl" => docs[p] > 0

\* The page a link came from is there as long as the task of the link.
LEMMA DiscoveryFrame ==
  ASSUME TypeOK, Structure, TypeOK', Structure', RowInv, LinkInv,
         \A t \in TaskIds : RowLives(t)
  PROVE  TasksAreDiscovered'
<1>. SUFFICES ASSUME NEW t \in TaskIds, Remains(t)
              PROVE  \/ /\ tasks'[t].depth = 0
                        /\ tasks'[t].requested \in Request[tasks'[t].job].urls
                     \/ /\ tasks'[t].depth \in 1 .. MaxDepth(tasks'[t].job)
                        /\ \E p \in TaskIds :
                             /\ tasks'[p].job = tasks'[t].job
                             /\ tasks'[p].depth = tasks'[t].depth - 1
                             /\ tasks'[t].requested \in Links[tasks'[p].requested]
                                                  \union SitemapLinks[tasks'[p].requested]
                             /\ Request[tasks'[p].job].type = "crawl" => docs'[p] > 0
  BY DEF TasksAreDiscovered, TasksOf, TaskExists, Remains, MaxDepth
<1>0. /\ jobs'[tasks'[t].job] \notin NoRow /\ tasks'[t].job \in Jobs
      /\ \A s \in TaskIds : docs[s] \in Nat /\ docs'[s] \in Nat
  BY DEF Structure, RowsOK, Remains, NoTask, JobExists, TypeOK, StoreTypeOK
<1>1. ASSUME NEW p \in TaskIds, NEW u, NEW d, TaskExists(p), Parent(p, tasks'[t].job, u, d)
      PROVE  /\ tasks'[p].job = tasks'[t].job
             /\ tasks'[p].depth = d - 1
             /\ u \in Links[tasks'[p].requested] \union SitemapLinks[tasks'[p].requested]
             /\ Request[tasks'[p].job].type = "crawl" => docs'[p] > 0
  <2>1. Stays(p)
    BY <1>0, <1>1, RowStays DEF Parent
  <2>. QED BY <1>0, <1>1, <2>1 DEF Parent, Stays
<1>2. CASE Stays(t)
  <2>1. /\ tasks'[t].job = tasks[t].job /\ tasks'[t].depth = tasks[t].depth
        /\ tasks'[t].requested = tasks[t].requested /\ TaskExists(t)
    BY <1>2 DEF Stays
  <2>2. CASE tasks[t].depth = 0 /\ tasks[t].requested \in Request[tasks[t].job].urls
    BY <2>1, <2>2
  <2>3. ASSUME ~(tasks[t].depth = 0 /\ tasks[t].requested \in Request[tasks[t].job].urls)
        PROVE  /\ tasks[t].depth \in 1 .. MaxDepth(tasks[t].job)
               /\ \E p \in TaskIds : TaskExists(p)
                    /\ Parent(p, tasks[t].job, tasks[t].requested, tasks[t].depth)
    <3>1. /\ tasks[t].depth \in 1 .. MaxDepth(tasks[t].job)
          /\ \E p \in TaskIds :
               /\ tasks[p].job = tasks[t].job
               /\ tasks[p].depth = tasks[t].depth - 1
               /\ tasks[t].requested \in Links[tasks[p].requested]
                                          \union SitemapLinks[tasks[p].requested]
               /\ Request[tasks[p].job].type = "crawl" => docs[p] > 0
      BY <2>1, <2>3 DEF LinkInv, TasksAreDiscovered, TasksOf
    <3>2. PICK p \in TaskIds :
               /\ tasks[p].job = tasks[t].job
               /\ tasks[p].depth = tasks[t].depth - 1
               /\ tasks[t].requested \in Links[tasks[p].requested]
                                          \union SitemapLinks[tasks[p].requested]
               /\ Request[tasks[p].job].type = "crawl" => docs[p] > 0
      BY <3>1
    <3>3. TaskExists(p)
      BY <1>0, <2>1, <3>2, NoneAssumption DEF Structure, RowsOK, NoTask
    <3>. QED BY <3>1, <3>2, <3>3 DEF Parent
  <2>4. CASE ~(tasks[t].depth = 0 /\ tasks[t].requested \in Request[tasks[t].job].urls)
    <3>1. PICK p \in TaskIds : TaskExists(p)
            /\ Parent(p, tasks'[t].job, tasks'[t].requested, tasks'[t].depth)
      BY <2>1, <2>3, <2>4
    <3>. QED BY <1>1, <2>1, <2>3, <2>4, <3>1
  <2>. QED BY <2>2, <2>4
<1>3. CASE Seeded(t)
  <2>1. PICK j \in Jobs : \E u \in request[j].keep : tasks'[t] = NewTask(j, u, 0)
    BY <1>3 DEF Seeded
  <2>2. PICK u \in request[j].keep : tasks'[t] = NewTask(j, u, 0)
    BY <2>1
  <2>. QED BY <2>2, NewRow DEF LinkInv, SeedsAsked
<1>4. CASE Linked(t)
  <2>1. PICK w \in Workers : /\ At(w, "insert") /\ JobExists(JobOf(w))
                             /\ \E u \in worker[w].todo :
                                  tasks'[t] = NewTask(JobOf(w), u, worker[w].row.depth + 1)
    BY <1>4 DEF Linked
  <2>2. PICK d : d = worker[w].row.depth + 1
    OBVIOUS
  <2>3. PICK u \in worker[w].todo :
          d = worker[w].row.depth + 1 /\ tasks'[t] = NewTask(JobOf(w), u, d)
    BY <2>1, <2>2
  <2>4. tasks'[t].job = JobOf(w) /\ tasks'[t].requested = u /\ tasks'[t].depth = d
    BY <2>3, NewRow
  <2>. DEFINE p == worker[w].id
  <2>5. /\ worker[w].pc # "idle" /\ p \in TaskIds /\ TaskExists(p)
        /\ tasks[p].job = JobOf(w) /\ JobOf(w) \in Jobs
    BY <2>1, SnapshotRow DEF At
  <2>6. tasks[p].requested = worker[w].row.requested /\ tasks[p].depth = worker[w].row.depth
    BY <2>5 DEF LinkInv, SnapshotsTrue, At
  <2>7. worker[w].row.depth \in Nat /\ MaxDepth(JobOf(w)) \in Int
    BY <2>5, <2>6, RequestAssumption DEF MaxDepth, TypeOK, StoreTypeOK, TaskRow
  <2>8. /\ worker[w].row.depth < MaxDepth(JobOf(w))
        /\ u \in Links[tasks[p].requested] \union SitemapLinks[tasks[p].requested]
    <3>1. LinksInHand(w) /\ worker[w].pc \in {"filter", "insert"}
      BY <2>1 DEF LinkInv, HandOK, At
    <3>. QED BY <2>6, <2>7, <3>1 DEF LinksInHand, Follows, AtDepthLimit
  <2>9. Request[JobOf(w)].type = "crawl" => docs[p] > 0
    BY <2>1, <2>5 DEF RowInv, DocumentStored, WithDocument, At, TypeOf
  <2>10. Parent(p, tasks'[t].job, u, d)
    BY <2>3, <2>4, <2>5, <2>6, <2>7, <2>8, <2>9 DEF Parent
  <2>11. d \in 1 .. MaxDepth(tasks'[t].job)
    BY <2>3, <2>4, <2>7, <2>8
  <2>. QED BY <1>1, <2>4, <2>5, <2>10, <2>11
<1>. QED BY <1>2, <1>3, <1>4, RowOrigin DEF Comes

LEMMA LinkFrame ==
  ASSUME TypeOK, Structure, TypeOK', Structure', RowInv, LinkInv, FiniteLinks,
         seen \subseteq seen', SeedsAsked',
         \A t \in TaskIds : RowLives(t), \A w \in Workers : LinkMoves(w)
  PROVE  LinkInv'
<1>1. FinalKnown' /\ SnapshotsTrue'
  BY FinalFrame, SnapshotsFrameTrue DEF LinkInv
<1>2. \A w \in Workers : HandOK(w)'
  BY HandsFrame
<1>3. DoneCoversLinks' /\ TasksAreDiscovered'
  BY DoneFrame, DiscoveryFrame
<1>. QED BY <1>1, <1>2, <1>3 DEF LinkInv

-----------------------------------------------------------------------------
(* The pieces a step is made of.                                           *)

\* No row is written.
LEMMA RowsQuiet ==
  ASSUME TypeOK, UNCHANGED <<tasks, docs, mapped>>
  PROVE  \A t \in TaskIds : RowLives(t)
<1>. SUFFICES ASSUME NEW t \in TaskIds PROVE RowLives(t)
  OBVIOUS
<1>1. docs[t] \in Nat
  BY DEF TypeOK, StoreTypeOK
<1>. QED BY <1>1 DEF RowLives, Stays, Vacant, Remains, TaskExists

\* One row is updated, and not in what it was created with.
LEMMA RowEdited ==
  ASSUME TypeOK, UNCHANGED <<docs, mapped>>, NEW i \in TaskIds,
         \A s \in TaskIds : s # i => tasks'[s] = tasks[s],
         TaskExists(i), Remains(i),
         tasks'[i].job = tasks[i].job, tasks'[i].requested = tasks[i].requested,
         tasks'[i].depth = tasks[i].depth,
         \/ tasks'[i].final = tasks[i].final
         \/ tasks'[i].final = Canon[Redirect[tasks[i].requested]],
         tasks'[i].status = "done" => tasks[i].status = "done" \/ Reported(i)
  PROVE  \A t \in TaskIds : RowLives(t)
<1>. SUFFICES ASSUME NEW t \in TaskIds PROVE RowLives(t)
  OBVIOUS
<1>1. docs[t] \in Nat
  BY DEF TypeOK, StoreTypeOK
<1>2. CASE t = i
  BY <1>1, <1>2 DEF RowLives, Stays
<1>3. CASE t # i
  BY <1>1, <1>3 DEF RowLives, Stays, Vacant, Remains, TaskExists
<1>. QED BY <1>2, <1>3

\* Rows are added, and nothing is taken away.
LEMMA RowsCome ==
  ASSUME TypeOK, UNCHANGED docs, \A t \in TaskIds : mapped[t] \subseteq mapped'[t],
         \A t \in TaskIds : tasks'[t] = tasks[t] \/ Comes(t)
  PROVE  \A t \in TaskIds : RowLives(t)
<1>. SUFFICES ASSUME NEW t \in TaskIds PROVE RowLives(t)
  OBVIOUS
<1>1. docs[t] \in Nat
  BY DEF TypeOK, StoreTypeOK
<1>. QED BY <1>1 DEF RowLives, Stays, Vacant, Remains, TaskExists

\* A goroutine is left alone.
LEMMA HandStill ==
  ASSUME NEW v \in Workers, worker'[v] = worker[v]
  PROVE  LinkMoves(v)
BY DEF LinkMoves, HandMoves

\* It keeps its snapshot; its links stay too, or are not needed, or are in order.
LEMMA HandBecomes ==
  ASSUME TypeOK, NEW w \in Workers, ~At(w, "idle"), NEW state, Become(w, state),
         state.id = worker[w].id, state.row = worker[w].row,
         state.pc \notin {"filter", "insert", "ok"} \/ HandOK(w)'
  PROVE  \A v \in Workers : LinkMoves(v)
<1>1. \A v \in Workers : worker'[v] = IF v = w THEN state ELSE worker[v]
  BY DEF Become, TypeOK, WorkerTypeOK
<1>2. LinkMoves(w)
  BY <1>1 DEF LinkMoves, HandMoves, At
<1>. QED BY <1>1, <1>2, HandStill

LEMMA HandGoes ==
  ASSUME TypeOK, NEW w \in Workers, ~At(w, "idle"), NEW pc, Goto(w, pc),
         pc \notin {"filter", "insert", "ok"} \/ HandOK(w)'
  PROVE  \A v \in Workers : LinkMoves(v)
<1>. DEFINE state == [worker[w] EXCEPT !.pc = pc]
<1>1. /\ state.pc = pc /\ state.id = worker[w].id /\ state.row = worker[w].row
  BY DEF TypeOK, WorkerTypeOK, WorkerState
<1>2. Become(w, state)
  BY DEF Goto
<1>. HIDE DEF state
<1>. QED BY <1>1, <1>2, HandBecomes

LEMMA HandDropped ==
  ASSUME TypeOK, NEW w \in Workers, Release(w)
  PROVE  \A v \in Workers : LinkMoves(v)
<1>1. /\ \A v \in Workers : v # w => worker'[v] = worker[v]
      /\ worker'[w].pc = "idle"
  BY ReleaseEffect DEF TypeOK
<1>. QED BY <1>1, HandStill DEF LinkMoves

\* What a worker knows of its page comes from its snapshot.
LEMMA SamePage ==
  ASSUME NEW w \in Workers, worker'[w].row = worker[w].row
  PROVE  /\ JobOf(w)' = JobOf(w) /\ TypeOf(w)' = TypeOf(w)
         /\ Follows(w)' = Follows(w) /\ PageLinks(w)' = PageLinks(w)
BY DEF JobOf, TypeOf, Follows, AtDepthLimit, PageLinks

\* The rows an INSERT of links or seeds adds come from where they should.
LEMMA LinksCome ==
  ASSUME TypeOK, NEW w \in Workers, At(w, "insert"), JobExists(JobOf(w)),
         JobOf(w) \in Jobs, worker[w].row.depth + 1 \in Nat,
         NEW S \in SUBSET worker[w].todo,
         InsertTasks(JobOf(w), S, worker[w].row.depth + 1)
  PROVE  \A t \in TaskIds : tasks'[t] = tasks[t] \/ Comes(t)
<1>1. PICK d \in Nat : d = worker[w].row.depth + 1
  OBVIOUS
<1>2. S \in SUBSET Urls
  BY DEF TypeOK, WorkerTypeOK, WorkerState
<1>3. InsertTasks(JobOf(w), S, d)
  BY <1>1
<1>4. \A t \in TaskIds :
        \/ tasks'[t] = tasks[t]
        \/ nextId <= t /\ \E u \in S : tasks'[t] = NewTask(JobOf(w), u, d)
  BY <1>2, <1>3, InsertTasksEffect DEF TypeOK
<1>. QED BY <1>1, <1>4 DEF Comes, Linked

\* After an INSERT each of its URLs that is canonical has a row.
LEMMA InsertCovers ==
  ASSUME TypeOK, Structure, FinalKnown, seen \subseteq seen', \A t \in TaskIds : RowLives(t),
         NEW j \in Jobs, jobs'[j] \notin NoRow, NEW S \in SUBSET Urls, NEW d,
         InsertTasks(j, S, d), NEW u \in S, Canon[u] = u
  PROVE  Covered(j, u)'
<1>1. CASE u \in Finals(j)
  <2>1. HasTaskFor(j, u)
    BY <1>1 DEF Finals, HasTaskFor
  <2>. QED BY <2>1, CoverLasts DEF Covered
<1>2. CASE u \notin Finals(j)
  <2>1. PICK n \in 0 .. MaxTaskId : \E order \in [1 .. n -> S] :
          /\ {Canon[order[a]] : a \in 1 .. n} = {Canon[v] : v \in S} \ Finals(j)
          /\ nextId + n <= MaxTaskId + 1
          /\ tasks' = [t \in TaskIds |->
                         IF t \in nextId .. (nextId + n - 1)
                         THEN NewTask(j, order[t - nextId + 1], d)
                         ELSE tasks[t]]
    BY DEF InsertTasks
  <2>2. PICK order \in [1 .. n -> S] :
          /\ {Canon[order[a]] : a \in 1 .. n} = {Canon[v] : v \in S} \ Finals(j)
          /\ nextId + n <= MaxTaskId + 1
          /\ tasks' = [t \in TaskIds |->
                         IF t \in nextId .. (nextId + n - 1)
                         THEN NewTask(j, order[t - nextId + 1], d)
                         ELSE tasks[t]]
    BY <2>1
  <2>3. Canon[u] \in {Canon[v] : v \in S} \ Finals(j)
    BY <1>2
  <2>4. PICK a \in 1 .. n : Canon[order[a]] = u
    BY <2>2, <2>3
  <2>5. PICK t : t = nextId + a - 1
    OBVIOUS
  <2>6. /\ t \in TaskIds /\ t \in nextId .. (nextId + n - 1) /\ t - nextId + 1 = a
    BY <2>2, <2>5, BoundsAssumption DEF TypeOK, StoreTypeOK, TaskIds
  <2>7. tasks'[t] = NewTask(j, order[a], d)
    BY <2>2, <2>6
  <2>8. tasks'[t].job = j /\ tasks'[t].final = u
    BY <2>4, <2>7, NewRow
  <2>. QED BY <2>6, <2>8 DEF Covered, HasTaskFor, TasksOf
<1>. QED BY <1>1, <1>2

\* The cap keeps all of the links, or the job is full.
LEMMA CapKeeps ==
  ASSUME FiniteLinks, NEW j \in Jobs, NEW r \in Urls,
         NEW S \in SUBSET (Links[r] \union SitemapLinks[r]),
         NEW kept \in Capped(S, Cardinality(TasksOf(j)))
  PROVE  kept \subseteq S /\ (kept = S \/ OverCap(j, r))
<1>. DEFINE page == Links[r] \union SitemapLinks[r]
            count == Cardinality(TasksOf(j))
<1>1. IsFiniteSet(page) /\ S \subseteq page
  BY DEF FiniteLinks
<1>2. /\ IsFiniteSet(S) /\ Cardinality(S) \in Nat /\ Cardinality(page) \in Nat
      /\ Cardinality(S) <= Cardinality(page)
  BY <1>1, FS_Subset, FS_CardinalityType
<1>3. IsFiniteSet(TaskIds)
  BY FS_Interval, BoundsAssumption DEF TaskIds
<1>4. IsFiniteSet(TasksOf(j))
  BY <1>3, FS_Subset DEF TasksOf
<1>5. count \in Nat
  BY <1>4, FS_CardinalityType
<1>6. /\ kept \subseteq S
      /\ (MaxTasks = 0 \/ count + Cardinality(S) <= MaxTasks) =>
           Cardinality(kept) = Cardinality(S)
  BY DEF Capped
<1>. HIDE DEF count, page
<1>7. CASE MaxTasks = 0 \/ count + Cardinality(S) <= MaxTasks
  BY <1>2, <1>6, <1>7, FS_Subset
<1>8. CASE ~(MaxTasks = 0 \/ count + Cardinality(S) <= MaxTasks)
  <2>1. MaxTasks > 0 /\ count + Cardinality(page) > MaxTasks
    BY <1>2, <1>5, <1>8, ConfigAssumption
  <2>. QED BY <1>6, <2>1 DEF OverCap, count, page
<1>. QED BY <1>6, <1>7, <1>8

-----------------------------------------------------------------------------
(* The steps.                                                              *)

\* Settling: a task is done only if its worker was about to say so.
LEMMA SettleLives ==
  ASSUME TypeOK, Structure, NEW w \in Workers, Settle(w)
  PROVE  \A t \in TaskIds : RowLives(t)
<1>. DEFINE i == worker[w].id
<1>0. ~At(w, "idle") /\ UNCHANGED <<nextId, docs, mapped>> /\ i \in TaskIds
  BY SnapshotRow DEF Settle, At
<1>1. CASE UNCHANGED tasks
  BY <1>0, <1>1, RowsQuiet
<1>2. CASE ~TaskExists(i) /\ (CompleteTask(i) \/ RetryTask(i) \/ FailTask(i))
  BY <1>0, <1>2, RowsQuiet DEF CompleteTask, RetryTask, FailTask, UpdateTask
<1>3. ASSUME TaskExists(i), NEW row \in TaskRow, UpdateTask(i, row),
             row.job = tasks[i].job, row.requested = tasks[i].requested,
             row.depth = tasks[i].depth, row.final = tasks[i].final,
             row.status \in {"queued", "failed"} \/ (row.status = "done" /\ At(w, "ok"))
      PROVE  \A t \in TaskIds : RowLives(t)
  <2>1. \A s \in TaskIds : tasks'[s] = IF s = i THEN row ELSE tasks[s]
    BY <1>0, <1>3 DEF UpdateTask, TypeOK, StoreTypeOK
  <2>2. Remains(i) /\ (tasks'[i].status = "done" => Reported(i))
    BY <1>0, <1>3, <2>1 DEF Remains, Reported
  <2>. QED BY <1>0, <1>3, <2>1, <2>2, RowEdited
<1>4. tasks[i] \in TaskRow /\ tasks[i].attempts + 1 \in Nat
  BY <1>0 DEF TypeOK, StoreTypeOK, TaskRow
<1>5. PICK n \in Nat : n = tasks[i].attempts + 1
  BY <1>4
<1>6. ASSUME TaskExists(i), At(w, "ok"), CompleteTask(i)
      PROVE  \A t \in TaskIds : RowLives(t)
  <2>. DEFINE row == [tasks[i] EXCEPT !.status = "done"]
  <2>1. /\ row \in TaskRow /\ row.job = tasks[i].job /\ row.requested = tasks[i].requested
        /\ row.depth = tasks[i].depth /\ row.final = tasks[i].final /\ row.status = "done"
    BY <1>4 DEF TaskRow, TaskStatus
  <2>2. UpdateTask(i, row)
    BY <1>6 DEF CompleteTask
  <2>. HIDE DEF row
  <2>. QED BY <1>3, <1>6, <2>1, <2>2
<1>7. ASSUME TaskExists(i), RetryTask(i)
      PROVE  \A t \in TaskIds : RowLives(t)
  <2>. DEFINE row == [tasks[i] EXCEPT !.status = "queued", !.attempts = n,
                                      !.heartbeat = "null"]
  <2>1. /\ row \in TaskRow /\ row.job = tasks[i].job /\ row.requested = tasks[i].requested
        /\ row.depth = tasks[i].depth /\ row.final = tasks[i].final /\ row.status = "queued"
    BY <1>4, <1>5 DEF TaskRow, TaskStatus
  <2>2. UpdateTask(i, row)
    BY <1>5, <1>7 DEF RetryTask
  <2>. HIDE DEF row
  <2>. QED BY <1>3, <1>7, <2>1, <2>2
<1>8. ASSUME TaskExists(i), FailTask(i)
      PROVE  \A t \in TaskIds : RowLives(t)
  <2>. DEFINE row == [tasks[i] EXCEPT !.status = "failed", !.attempts = n]
  <2>1. /\ row \in TaskRow /\ row.job = tasks[i].job /\ row.requested = tasks[i].requested
        /\ row.depth = tasks[i].depth /\ row.final = tasks[i].final /\ row.status = "failed"
    BY <1>4, <1>5 DEF TaskRow, TaskStatus
  <2>2. UpdateTask(i, row)
    BY <1>5, <1>8 DEF FailTask
  <2>. HIDE DEF row
  <2>. QED BY <1>3, <1>8, <2>1, <2>2
<1>. QED BY <1>1, <1>2, <1>6, <1>7, <1>8 DEF Settle

\* Claiming a row and looking for the page.
LEMMA ClaimLives ==
  ASSUME TypeOK, Structure, NEW w \in Workers, NEW t \in TaskIds, Claim(w, t)
  PROVE  /\ \A s \in TaskIds : RowLives(s)
         /\ \A v \in Workers : LinkMoves(v)
<1>1. t \in Eligible /\ UNCHANGED <<docs, mapped>>
  BY DEF Claim, Claimable
<1>2. TaskExists(t) /\ tasks[t] \in TaskRow
  BY <1>1 DEF Eligible, TaskExists, TypeOK, StoreTypeOK
<1>3. /\ ClaimedRow(t).job = tasks[t].job /\ ClaimedRow(t).requested = tasks[t].requested
      /\ ClaimedRow(t).depth = tasks[t].depth /\ ClaimedRow(t).final = tasks[t].final
      /\ ClaimedRow(t).status = "processing"
  BY <1>2 DEF ClaimedRow, TaskRow
<1>4. \A s \in TaskIds : tasks'[s] = IF s = t THEN ClaimedRow(t) ELSE tasks[s]
  BY DEF Claim, TypeOK, StoreTypeOK
<1>5. \A s \in TaskIds : RowLives(s)
  <2>1. Remains(t) /\ tasks'[t].status # "done"
    BY <1>3, <1>4 DEF Remains
  <2>. QED BY <1>1, <1>2, <1>3, <1>4, <2>1, RowEdited
<1>6. /\ worker'[w].pc = "getjob" /\ worker'[w].id = t /\ worker'[w].row = ClaimedRow(t)
      /\ \A v \in Workers : v # w => worker'[v] = worker[v]
  BY DEF Claim, Become, TypeOK, WorkerTypeOK, Idle
<1>7. Remembers(w)
  BY <1>4, <1>6 DEF Remembers
<1>. QED BY <1>5, <1>6, <1>7, HandStill DEF LinkMoves

LEMMA FetchLives ==
  ASSUME TypeOK, Structure, SnapshotsTrue, NEW w \in Workers, FetchPage(w)
  PROVE  /\ \A s \in TaskIds : RowLives(s)
         /\ \A v \in Workers : LinkMoves(v)
<1>. DEFINE i == worker[w].id
<1>0. UNCHANGED <<docs, mapped>> /\ ~At(w, "idle") /\ i \in TaskIds
  BY SnapshotRow DEF FetchPage, At
<1>1. \A v \in Workers : LinkMoves(v)
  BY <1>0, HandGoes DEF FetchPage
<1>2. PICK final : final = Canon[Redirect[worker[w].row.requested]]
  OBVIOUS
<1>3. CASE UNCHANGED tasks
  BY <1>0, <1>1, <1>3, RowsQuiet
<1>4. CASE TaskExists(i) /\ tasks' = [tasks EXCEPT ![i].final = final]
  <2>1. final = Canon[Redirect[tasks[i].requested]]
    BY <1>0, <1>2, <1>4 DEF SnapshotsTrue
  <2>2. /\ \A s \in TaskIds : s # i => tasks'[s] = tasks[s]
        /\ tasks'[i].job = tasks[i].job /\ tasks'[i].requested = tasks[i].requested
        /\ tasks'[i].depth = tasks[i].depth /\ tasks'[i].status = tasks[i].status
        /\ tasks'[i].final = final
    BY <1>0, <1>4 DEF TypeOK, StoreTypeOK, TaskRow
  <2>3. Remains(i)
    BY <1>4, <2>2 DEF Remains, TaskExists
  <2>. QED BY <1>0, <1>1, <1>4, <2>1, <2>2, <2>3, RowEdited
<1>. QED BY <1>2, <1>3, <1>4 DEF FetchPage, UpdateTaskFinalURL

\* Storing the document.
LEMMA StoreLives ==
  ASSUME TypeOK, Structure, NEW w \in Workers, StoreDocument(w)
  PROVE  /\ \A s \in TaskIds : RowLives(s)
         /\ \A v \in Workers : LinkMoves(v)
<1>. DEFINE i == worker[w].id
<1>0. UNCHANGED <<tasks, mapped>> /\ ~At(w, "idle") /\ i \in TaskIds
  BY SnapshotRow DEF StoreDocument, At
<1>1. \A v \in Workers : LinkMoves(v)
  BY <1>0, HandGoes DEF StoreDocument
<1>2. ASSUME NEW s \in TaskIds PROVE docs[s] \in Nat /\ docs[s] <= docs'[s]
  BY <1>0 DEF StoreDocument, InsertDocument, TypeOK, StoreTypeOK
<1>3. \A s \in TaskIds : RowLives(s)
  BY <1>0, <1>2 DEF RowLives, Stays, Vacant, Remains, TaskExists
<1>. QED BY <1>1, <1>3

\* Reading the links of the page.
LEMMA ExpandLives ==
  ASSUME TypeOK, Structure, NEW w \in Workers, Expand(w)
  PROVE  /\ \A s \in TaskIds : RowLives(s)
         /\ \A v \in Workers : LinkMoves(v)
<1>0. UNCHANGED <<tasks, docs, mapped>> /\ ~At(w, "idle") /\ worker[w] \in WorkerState
  BY DEF Expand, tables, At, TypeOK, WorkerTypeOK
<1>1. CASE Goto(w, "err")
  BY <1>0, <1>1, RowsQuiet, HandGoes
<1>2. CASE Goto(w, "ok") /\ (TypeOf(w) = "batch_scrape" \/ AtDepthLimit(w))
  <2>1. /\ worker'[w].pc = "ok" /\ worker'[w].row = worker[w].row
    BY <1>0, <1>2 DEF Goto, Become, TypeOK, WorkerTypeOK, WorkerState
  <2>2. ~Follows(w)'
    BY <1>2, <2>1, SamePage DEF Follows
  <2>3. HandOK(w)'
    BY <2>1, <2>2 DEF HandOK, LinksInHand, LinksKept, LinksMapped
  <2>. QED BY <1>0, <1>2, <2>3, RowsQuiet, HandGoes
<1>3. ASSUME NEW sitemap, sitemap \in SUBSET SitemapLinks[worker[w].row.requested],
             NEW found, found = PageLinks(w) \union sitemap,
             Follows(w),
             Become(w, [worker[w] EXCEPT
               !.pc = IF found = {} THEN "ok" ELSE "filter",
               !.links = found,
               !.check = IF DedupeCache THEN found ELSE {},
               !.todo = found])
      PROVE  \A v \in Workers : LinkMoves(v)
  <2>1. PICK pc, check : /\ pc = IF found = {} THEN "ok" ELSE "filter"
                         /\ check = IF DedupeCache THEN found ELSE {}
    OBVIOUS
  <2>. DEFINE state == [worker[w] EXCEPT !.pc = pc, !.links = found, !.check = check,
                                         !.todo = found]
  <2>2. /\ state.pc = pc /\ state.links = found /\ state.check = check /\ state.todo = found
        /\ state.id = worker[w].id /\ state.row = worker[w].row
    BY <1>0 DEF WorkerState
  <2>3. Become(w, state)
    BY <1>3, <2>1
  <2>. HIDE DEF state
  <2>4. worker'[w] = state
    BY <2>3 DEF Become, TypeOK, WorkerTypeOK
  <2>5. /\ Follows(w)' /\ PageLinks(w)' = PageLinks(w) /\ TypeOf(w)' = TypeOf(w)
    BY <1>3, <2>2, <2>4, SamePage
  <2>6. /\ PageLinks(w) \subseteq Links[worker[w].row.requested]
        /\ TypeOf(w) = "map" => PageLinks(w) = Links[worker[w].row.requested]
    BY DEF PageLinks
  <2>7. LinksInHand(w)'
    BY <1>3, <2>1, <2>2, <2>4, <2>5, <2>6 DEF LinksInHand
  <2>8. LinksKept(w)'
    BY <1>3, <2>1, <2>2, <2>4, <2>5 DEF LinksKept, At
  <2>9. LinksMapped(w)'
    <3>1. worker'[w].pc = "ok" /\ TypeOf(w) = "map" => Links[worker[w].row.requested] = {}
      BY <1>3, <2>1, <2>2, <2>4, <2>6
    <3>. QED BY <2>2, <2>4, <2>5, <3>1 DEF LinksMapped, At
  <2>. QED BY <1>0, <2>2, <2>3, <2>7, <2>8, <2>9, HandBecomes DEF HandOK
<1>4. CASE \E sitemap \in IF UsesSitemaps(w)
                          THEN SUBSET SitemapLinks[worker[w].row.requested]
                          ELSE {{}} :
             LET found == PageLinks(w) \union sitemap IN
             /\ TypeOf(w) # "batch_scrape" /\ ~AtDepthLimit(w)
             /\ Become(w, [worker[w] EXCEPT
                  !.pc = IF found = {} THEN "ok" ELSE "filter",
                  !.links = found,
                  !.check = IF DedupeCache THEN found ELSE {},
                  !.todo = found])
             /\ NoFault
  <2>1. PICK sitemap \in SUBSET SitemapLinks[worker[w].row.requested] :
             LET found == PageLinks(w) \union sitemap IN
             /\ TypeOf(w) # "batch_scrape" /\ ~AtDepthLimit(w)
             /\ Become(w, [worker[w] EXCEPT
                  !.pc = IF found = {} THEN "ok" ELSE "filter",
                  !.links = found,
                  !.check = IF DedupeCache THEN found ELSE {},
                  !.todo = found])
    BY <1>4
  <2>2. PICK found : found = PageLinks(w) \union sitemap
    OBVIOUS
  <2>3. /\ Follows(w)
        /\ Become(w, [worker[w] EXCEPT
             !.pc = IF found = {} THEN "ok" ELSE "filter",
             !.links = found,
             !.check = IF DedupeCache THEN found ELSE {},
             !.todo = found])
    BY <2>1, <2>2 DEF Follows
  <2>. QED BY <1>0, <1>3, <2>1, <2>2, <2>3, RowsQuiet
<1>. QED BY <1>1, <1>2, <1>4 DEF Expand

\* Where the tables stay as they are, so does what covers a link.
LEMMA CoverStill ==
  ASSUME UNCHANGED <<tasks, seen>>, NEW j, NEW u
  PROVE  (Covered(j, u)' <=> Covered(j, u)) /\ (OverCap(j, u)' <=> OverCap(j, u))
BY DEF Covered, OverCap, HasTaskFor, TasksOf

\* Asking the dedupe cache about one link.
LEMMA SkipLives ==
  ASSUME TypeOK, Structure, NEW w \in Workers, HandOK(w), NEW u \in Urls, SkipSeen(w, u)
  PROVE  /\ \A s \in TaskIds : RowLives(s)
         /\ \A v \in Workers : LinkMoves(v)
<1>0. /\ UNCHANGED <<tasks, docs, mapped, seen>> /\ ~At(w, "idle")
      /\ worker[w].pc = "filter" /\ worker[w] \in WorkerState /\ u \in worker[w].check
  BY DEF SkipSeen, tables, At, TypeOK, WorkerTypeOK
<1>1. CASE Goto(w, "err")
  BY <1>0, <1>1, RowsQuiet, HandGoes
<1>2. CASE Become(w, [worker[w] EXCEPT
             !.check = @ \ {u},
             !.todo = IF u \in seen THEN @ \ {u} ELSE @])
  <2>1. PICK check, todo :
          /\ check = worker[w].check \ {u}
          /\ todo = IF u \in seen THEN worker[w].todo \ {u} ELSE worker[w].todo
    OBVIOUS
  <2>. DEFINE state == [worker[w] EXCEPT !.check = check, !.todo = todo]
  <2>2. /\ state.pc = "filter" /\ state.links = worker[w].links
        /\ state.check = check /\ state.todo = todo
        /\ state.id = worker[w].id /\ state.row = worker[w].row
    BY <1>0 DEF WorkerState
  <2>3. Become(w, state)
    BY <1>2, <2>1
  <2>. HIDE DEF state
  <2>4. worker'[w] = state
    BY <2>3 DEF Become, TypeOK, WorkerTypeOK
  <2>5. PICK j, r : j = JobOf(w) /\ r = worker[w].row.requested
    OBVIOUS
  <2>6. /\ Follows(w)' = Follows(w) /\ PageLinks(w)' = PageLinks(w) /\ JobOf(w)' = j
        /\ worker'[w].row.requested = r
    BY <2>2, <2>4, <2>5, SamePage
  <2>7. LinksInHand(w)'
    BY <1>0, <2>1, <2>2, <2>4, <2>6 DEF HandOK, LinksInHand
  <2>8. LinksKept(w)'
    <3>. SUFFICES ASSUME Follows(w), TaskExists(worker[w].id), NEW v \in PageLinks(w)
                  PROVE  Covered(j, v)' \/ OverCap(j, r)' \/ v \in todo
      BY <1>0, <2>2, <2>4, <2>5, <2>6
      DEF LinksKept, At, TaskExists, Covered, OverCap, HasTaskFor, TasksOf
    <3>1. Covered(j, v) \/ OverCap(j, r) \/ v \in worker[w].todo
      BY <1>0, <2>5 DEF HandOK, LinksKept
    <3>2. DedupeCache
      BY <1>0 DEF HandOK, LinksInHand
    <3>3. v \in worker[w].todo /\ v \notin todo => Covered(j, v)
      BY <2>1, <3>2 DEF Covered
    <3>. QED BY <1>0, <3>1, <3>3, CoverStill
  <2>9. LinksMapped(w)'
    BY <2>2, <2>4 DEF LinksMapped, At
  <2>. QED BY <1>0, <2>2, <2>3, <2>7, <2>8, <2>9, HandBecomes, RowsQuiet DEF HandOK
<1>. QED BY <1>1, <1>2 DEF SkipSeen

\* Cutting the links at the cap.
LEMMA CountLives ==
  ASSUME TypeOK, Structure, FiniteLinks, NEW w \in Workers, HandOK(w), CountTasks(w)
  PROVE  /\ \A s \in TaskIds : RowLives(s)
         /\ \A v \in Workers : LinkMoves(v)
<1>0. /\ UNCHANGED <<tasks, docs, mapped, seen>> /\ ~At(w, "idle")
      /\ worker[w].pc = "filter" /\ worker[w] \in WorkerState
  BY DEF CountTasks, tables, At, TypeOK, WorkerTypeOK
<1>1. CASE Goto(w, "err")
  BY <1>0, <1>1, RowsQuiet, HandGoes
<1>2. ASSUME NEW kept \in Capped(worker[w].todo, Cardinality(TasksOf(JobOf(w)))),
             Become(w, [worker[w] EXCEPT
               !.pc = IF kept = {} /\ TypeOf(w) = "crawl" THEN "ok" ELSE "insert",
               !.todo = kept])
      PROVE  \A v \in Workers : LinkMoves(v)
  <2>1. PICK pc : pc = IF kept = {} /\ TypeOf(w) = "crawl" THEN "ok" ELSE "insert"
    OBVIOUS
  <2>. DEFINE state == [worker[w] EXCEPT !.pc = pc, !.todo = kept]
  <2>2. /\ state.pc = pc /\ state.links = worker[w].links
        /\ state.check = worker[w].check /\ state.todo = kept
        /\ state.id = worker[w].id /\ state.row = worker[w].row
    BY <1>0 DEF WorkerState
  <2>3. Become(w, state)
    BY <1>2, <2>1
  <2>. HIDE DEF state
  <2>4. worker'[w] = state
    BY <2>3 DEF Become, TypeOK, WorkerTypeOK
  <2>5. PICK j \in Jobs, r \in Urls : j = JobOf(w) /\ r = worker[w].row.requested
    BY <1>0 DEF Structure, SnapshotsOK, SnapshotOK
  <2>6. /\ Follows(w)' = Follows(w) /\ PageLinks(w)' = PageLinks(w) /\ JobOf(w)' = j
        /\ worker'[w].row.requested = r /\ TypeOf(w)' = TypeOf(w)
    BY <2>2, <2>4, <2>5, SamePage
  <2>7. kept \subseteq worker[w].todo /\ (kept = worker[w].todo \/ OverCap(j, r))
    <3>1. worker[w].todo \in SUBSET (Links[r] \union SitemapLinks[r])
      BY <1>0, <2>5 DEF HandOK, LinksInHand
    <3>2. kept \in Capped(worker[w].todo, Cardinality(TasksOf(j)))
      BY <2>5
    <3>. QED BY <3>1, <3>2, CapKeeps
  <2>8. LinksInHand(w)'
    BY <1>0, <2>2, <2>4, <2>6, <2>7 DEF HandOK, LinksInHand
  <2>9. LinksKept(w)'
    <3>. SUFFICES ASSUME Follows(w), TaskExists(worker[w].id), NEW v \in PageLinks(w)
                  PROVE  Covered(j, v)' \/ OverCap(j, r)' \/ (pc # "ok" /\ v \in kept)
      BY <1>0, <2>2, <2>4, <2>5, <2>6
      DEF LinksKept, At, TaskExists, Covered, OverCap, HasTaskFor, TasksOf
    <3>1. Covered(j, v) \/ OverCap(j, r) \/ v \in worker[w].todo
      BY <1>0, <2>5 DEF HandOK, LinksKept
    <3>2. v \in kept => pc # "ok"
      BY <2>1
    <3>. QED BY <1>0, <2>7, <3>1, <3>2, CoverStill
  <2>10. LinksMapped(w)'
    BY <2>1, <2>2, <2>4, <2>6 DEF LinksMapped, At
  <2>. QED BY <1>0, <2>2, <2>3, <2>8, <2>9, <2>10, HandBecomes DEF HandOK
<1>. QED BY <1>0, <1>1, <1>2, RowsQuiet DEF CountTasks

\* The rows of an INSERT for the page of a worker.
LEMMA InsertLives ==
  ASSUME TypeOK, Structure, NEW w \in Workers, At(w, "insert"), JobExists(JobOf(w)),
         NEW S \in SUBSET worker[w].todo,
         InsertTasks(JobOf(w), S, worker[w].row.depth + 1),
         UNCHANGED docs, UNCHANGED mapped \/ InsertMappedBatch(worker[w].id, worker[w].links)
  PROVE  \A t \in TaskIds : RowLives(t)
<1>1. /\ worker[w].id \in TaskIds /\ JobOf(w) \in Jobs /\ worker[w].row.depth + 1 \in Nat
  BY SnapshotRow DEF At
<1>2. \A t \in TaskIds : tasks'[t] = tasks[t] \/ Comes(t)
  BY <1>1, LinksCome
<1>3. \A t \in TaskIds : mapped[t] \subseteq mapped'[t]
  BY DEF InsertMappedBatch, TypeOK, StoreTypeOK
<1>. QED BY <1>2, <1>3, RowsCome

\* A link of a crawled page becomes a task.
LEMMA LinkLives ==
  ASSUME TypeOK, Structure, FinalKnown, FiniteLinks, NEW w \in Workers, HandOK(w),
         NEW u \in Urls, InsertLink(w, u)
  PROVE  /\ \A s \in TaskIds : RowLives(s)
         /\ \A v \in Workers : LinkMoves(v)
<1>0. /\ UNCHANGED <<jobs, docs, mapped, seen>> /\ ~At(w, "idle") /\ At(w, "insert")
      /\ worker[w].pc = "insert" /\ worker[w] \in WorkerState /\ u \in worker[w].todo
      /\ TypeOf(w) = "crawl"
  BY DEF InsertLink, At, TypeOK, WorkerTypeOK
<1>1. CASE UNCHANGED <<tasks, nextId>> /\ Goto(w, "err")
  BY <1>0, <1>1, RowsQuiet, HandGoes
<1>2. CASE JobExists(JobOf(w)) /\ InsertTasks(JobOf(w), {u}, worker[w].row.depth + 1)
  <2>1. \A s \in TaskIds : RowLives(s)
    BY <1>0, <1>2, InsertLives
  <2>2. CASE Goto(w, "err")
    BY <1>0, <2>1, <2>2, HandGoes
  <2>3. CASE Become(w, [worker[w] EXCEPT
               !.pc = IF worker[w].todo = {u} THEN "ok" ELSE "insert",
               !.todo = @ \ {u}])
    <3>1. PICK pc, todo : /\ pc = IF worker[w].todo = {u} THEN "ok" ELSE "insert"
                          /\ todo = worker[w].todo \ {u}
      OBVIOUS
    <3>. DEFINE state == [worker[w] EXCEPT !.pc = pc, !.todo = todo]
    <3>2. /\ state.pc = pc /\ state.links = worker[w].links
          /\ state.check = worker[w].check /\ state.todo = todo
          /\ state.id = worker[w].id /\ state.row = worker[w].row
      BY <1>0 DEF WorkerState
    <3>3. Become(w, state)
      BY <2>3, <3>1
    <3>. HIDE DEF state
    <3>4. worker'[w] = state
      BY <3>3 DEF Become, TypeOK, WorkerTypeOK
    <3>5. PICK j \in Jobs, r \in Urls : j = JobOf(w) /\ r = worker[w].row.requested
      BY <1>0 DEF Structure, SnapshotsOK, SnapshotOK
    <3>6. /\ Follows(w)' = Follows(w) /\ PageLinks(w)' = PageLinks(w) /\ JobOf(w)' = j
          /\ worker'[w].row.requested = r /\ TypeOf(w)' = TypeOf(w)
      BY <3>2, <3>4, <3>5, SamePage
    <3>7. LinksInHand(w)'
      BY <1>0, <3>1, <3>2, <3>4, <3>6 DEF HandOK, LinksInHand
    <3>8. jobs'[j] \notin NoRow /\ TaskExists(worker[w].id)
      BY <1>0, <1>2, <3>5, SnapshotRow DEF JobExists
    <3>9. Covered(j, u)'
      <4>1. Canon[u] = u
        BY <1>0, <3>5, PagesAssumption DEF HandOK, LinksInHand
      <4>2. PICK d : InsertTasks(j, {u}, d)
        BY <1>2, <3>5
      <4>. QED BY <1>0, <2>1, <3>8, <4>1, <4>2, InsertCovers
    <3>10. LinksKept(w)'
      <4>. SUFFICES ASSUME Follows(w), NEW v \in PageLinks(w)
                    PROVE  Covered(j, v)' \/ OverCap(j, r)' \/ (pc # "ok" /\ v \in todo)
        BY <1>0, <3>2, <3>4, <3>5, <3>6
        DEF LinksKept, At, TaskExists, Covered, OverCap, HasTaskFor, TasksOf
      <4>1. Covered(j, v) \/ OverCap(j, r) \/ v \in worker[w].todo
        BY <1>0, <3>5, <3>8 DEF HandOK, LinksKept
      <4>2. v \in worker[w].todo /\ v # u => pc # "ok" /\ v \in todo
        BY <3>1
      <4>. QED BY <1>0, <2>1, <3>8, <3>9, <4>1, <4>2, CoverLasts, CapLasts
    <3>11. LinksMapped(w)'
      BY <1>0, <3>6 DEF LinksMapped
    <3>. QED BY <2>1, <1>0, <3>2, <3>3, <3>7, <3>10, <3>11, HandBecomes DEF HandOK
  <2>. QED BY <1>2, <2>2, <2>3 DEF InsertLink
<1>. QED BY <1>1, <1>2 DEF InsertLink

\* The links of a page of a map job become mapped URLs and tasks.
LEMMA MapLives ==
  ASSUME TypeOK, Structure, FinalKnown, FiniteLinks, NEW w \in Workers, HandOK(w),
         InsertMap(w)
  PROVE  /\ \A s \in TaskIds : RowLives(s)
         /\ \A v \in Workers : LinkMoves(v)
<1>0. /\ UNCHANGED <<jobs, docs, seen>> /\ ~At(w, "idle") /\ At(w, "insert")
      /\ worker[w].pc = "insert" /\ worker[w] \in WorkerState
      /\ TypeOf(w) = "map"
  BY DEF InsertMap, At, TypeOK, WorkerTypeOK
<1>1. CASE UNCHANGED <<tasks, nextId, mapped>> /\ Goto(w, "err")
  BY <1>0, <1>1, RowsQuiet, HandGoes
<1>2. CASE /\ JobExists(JobOf(w))
           /\ InsertMappedBatch(worker[w].id, worker[w].links)
           /\ InsertTasks(JobOf(w), worker[w].todo, worker[w].row.depth + 1)
  <2>1. \A s \in TaskIds : RowLives(s)
    BY <1>0, <1>2, InsertLives
  <2>2. CASE Goto(w, "err")
    BY <1>0, <2>1, <2>2, HandGoes
  <2>3. CASE Goto(w, "ok")
    <3>1. /\ worker'[w].pc = "ok" /\ worker'[w].row = worker[w].row
          /\ worker'[w].id = worker[w].id
      BY <1>0, <2>3 DEF Goto, Become, TypeOK, WorkerTypeOK, WorkerState
    <3>2. PICK j \in Jobs, r \in Urls : j = JobOf(w) /\ r = worker[w].row.requested
      BY <1>0 DEF Structure, SnapshotsOK, SnapshotOK
    <3>3. /\ Follows(w)' = Follows(w) /\ PageLinks(w)' = PageLinks(w) /\ JobOf(w)' = j
          /\ worker'[w].row.requested = r /\ TypeOf(w)' = TypeOf(w)
      BY <3>1, <3>2, SamePage
    <3>4. jobs'[j] \notin NoRow /\ TaskExists(worker[w].id) /\ worker[w].id \in TaskIds
      BY <1>0, <1>2, <3>2, SnapshotRow DEF JobExists
    <3>5. /\ worker[w].todo \subseteq worker[w].links
          /\ PageLinks(w) \subseteq worker[w].links
          /\ worker[w].links \subseteq Links[r] \union SitemapLinks[r]
      BY <1>0, <3>2 DEF HandOK, LinksInHand
    <3>6. ASSUME NEW u \in worker[w].todo PROVE Covered(j, u)'
      <4>1. Canon[u] = u
        BY <3>2, <3>5, PagesAssumption
      <4>2. PICK d : InsertTasks(j, worker[w].todo, d)
        BY <1>2, <3>2
      <4>3. worker[w].todo \in SUBSET Urls
        BY <1>0 DEF WorkerState
      <4>. QED BY <1>0, <2>1, <3>4, <4>1, <4>2, <4>3, InsertCovers
    <3>7. LinksInHand(w)'
      BY <3>1 DEF LinksInHand
    <3>8. LinksKept(w)'
      <4>. SUFFICES ASSUME Follows(w), NEW v \in PageLinks(w)
                    PROVE  Covered(j, v)' \/ OverCap(j, r)'
        BY <3>1, <3>2, <3>3
        DEF LinksKept, At, TaskExists, Covered, OverCap, HasTaskFor, TasksOf
      <4>1. Covered(j, v) \/ OverCap(j, r) \/ v \in worker[w].todo
        BY <1>0, <3>2, <3>4 DEF HandOK, LinksKept
      <4>. QED BY <1>0, <2>1, <3>4, <3>6, <4>1, CoverLasts, CapLasts
    <3>9. LinksMapped(w)'
      <4>1. mapped'[worker[w].id] = mapped[worker[w].id] \union worker[w].links
        BY <1>2, <3>4 DEF InsertMappedBatch, TypeOK, StoreTypeOK
      <4>2. PageLinks(w) = Links[r]
        BY <1>0, <3>2 DEF PageLinks
      <4>. QED BY <3>1, <3>3, <3>5, <4>1, <4>2 DEF LinksMapped
    <3>10. HandOK(w)'
      BY <3>7, <3>8, <3>9 DEF HandOK
    <3>. QED BY <1>0, <2>1, <2>3, <3>10, HandGoes
  <2>. QED BY <1>2, <2>2, <2>3 DEF InsertMap
<1>. QED BY <1>1, <1>2 DEF InsertMap

\* A step of a worker, whatever fails in it.
LEMMA WorkerLives ==
  ASSUME TypeOK, Structure, LinkInv, FiniteLinks, NEW w \in Workers, WorkerStep(w)
  PROVE  /\ seen \subseteq seen'
         /\ \A t \in TaskIds : RowLives(t)
         /\ \A v \in Workers : LinkMoves(v)
<1>0. FinalKnown /\ SnapshotsTrue /\ HandOK(w)
  BY DEF LinkInv
<1>1. seen \subseteq seen'
  BY DEF WorkerStep, Claim, GetJob, CancelOverdue, StartQueued, Dispatch, FetchPage,
         FetchMapPage, StoreDocument, MarkSeen, MarkCanonical, Expand, CountTasks, InsertMap,
         SkipSeen, InsertLink, Settle, CheckPending, CheckFailed, FinishJob, tables
<1>2. CASE GetJob(w) \/ CancelOverdue(w) \/ StartQueued(w) \/ CheckPending(w)
           \/ FinishJob(w) \/ MarkSeen(w) \/ FetchMapPage(w)
  <2>1. UNCHANGED <<tasks, docs, mapped>> /\ ~At(w, "idle")
    BY <1>2 DEF GetJob, CancelOverdue, StartQueued, CheckPending, FinishJob, MarkSeen,
                FetchMapPage, tables, At
  <2>2. CASE Release(w)
    BY <2>1, <2>2, <1>1, RowsQuiet, HandDropped
  <2>3. CASE ~Release(w)
    <3>1. PICK pc : Goto(w, pc) /\ pc \notin {"filter", "insert", "ok"}
      BY <1>2, <2>3 DEF GetJob, CancelOverdue, StartQueued, CheckPending, FinishJob, MarkSeen,
                        FetchMapPage
    <3>. QED BY <2>1, <1>1, <3>1, RowsQuiet, HandGoes
  <2>. QED BY <2>2, <2>3
<1>3. CASE Dispatch(w)
  <2>0. UNCHANGED <<tasks, docs, mapped>> /\ ~At(w, "idle")
    BY <1>3 DEF Dispatch, tables, At
  <2>1. PICK bounded \in BOOLEAN : bounded = ~Overdue(JobOf(w))
    BY Zenon DEF Overdue
  <2>. DEFINE state == [worker[w] EXCEPT !.pc = "fetch", !.bounded = bounded]
  <2>2. state.pc = "fetch" /\ state.id = worker[w].id /\ state.row = worker[w].row
    BY DEF TypeOK, WorkerTypeOK, WorkerState
  <2>3. Become(w, state)
    BY <1>3, <2>1 DEF Dispatch
  <2>. HIDE DEF state
  <2>. QED BY <2>0, <2>2, <2>3, <1>1, HandBecomes, RowsQuiet
<1>4. CASE CheckFailed(w)
  <2>0. UNCHANGED <<tasks, docs, mapped>> /\ ~At(w, "idle")
    BY <1>4 DEF CheckFailed, tables, At
  <2>1. CASE Release(w)
    BY <2>0, <2>1, <1>1, HandDropped, RowsQuiet
  <2>2. ASSUME NEW verdict,
               Become(w, [worker[w] EXCEPT !.pc = "finish", !.verdict = verdict])
        PROVE  \A v \in Workers : LinkMoves(v)
    <3>. DEFINE state == [worker[w] EXCEPT !.pc = "finish", !.verdict = verdict]
    <3>1. state.pc = "finish" /\ state.id = worker[w].id /\ state.row = worker[w].row
      BY DEF TypeOK, WorkerTypeOK, WorkerState
    <3>2. Become(w, state)
      BY <2>2
    <3>. HIDE DEF state
    <3>. QED BY <2>0, <3>1, <3>2, HandBecomes
  <2>. QED BY <1>1, <1>4, <2>0, <2>1, <2>2, RowsQuiet DEF CheckFailed
<1>5. CASE Settle(w)
  <2>1. Goto(w, "pending") /\ ~At(w, "idle")
    BY <1>5 DEF Settle, At
  <2>. QED BY <1>1, <1>5, <2>1, SettleLives, HandGoes
<1>6. CASE Expand(w) \/ CountTasks(w) \/ InsertMap(w) \/ FetchPage(w) \/ StoreDocument(w)
  BY <1>0, <1>1, <1>6, ExpandLives, CountLives, MapLives, FetchLives, StoreLives
<1>7. CASE \E t \in TaskIds : Claim(w, t)
  BY <1>1, <1>7, ClaimLives
<1>8. CASE \E u \in Urls : SkipSeen(w, u) \/ InsertLink(w, u)
  BY <1>0, <1>1, <1>8, SkipLives, LinkLives
<1>. QED BY <1>2, <1>3, <1>4, <1>5, <1>6, <1>7, <1>8 DEF WorkerStep

\* A step of a request: only its commit adds rows, those of the seeds it has kept.
LEMMA ApiLives ==
  ASSUME TypeOK, Structure, LinkInv, NEW j \in Jobs, ApiStep(j)
  PROVE  /\ seen \subseteq seen' /\ SeedsAsked'
         /\ \A t \in TaskIds : RowLives(t)
<1>1. seen \subseteq seen'
  BY DEF ApiStep, Submit, CheckSeed, CommitJob, tables
<1>2. SeedsAsked'
  <2>. SUFFICES ASSUME NEW k \in Jobs PROVE request'[k].keep \subseteq Request[k].urls
    BY DEF SeedsAsked
  <2>1. request[k].keep \subseteq Request[k].urls
    BY DEF LinkInv, SeedsAsked
  <2>2. request \in [Jobs -> [pc : {"idle", "check"} \union Answers,
                              left : SUBSET Urls, keep : SUBSET Urls]]
    BY DEF TypeOK, ApiTypeOK
  <2>3. ASSUME NEW a, Answer(j, a) PROVE request'[k].keep \subseteq Request[k].urls
    <3>1. [NoRequest EXCEPT !.pc = a].keep = {}
      BY DEF NoRequest
    <3>. QED BY <2>1, <2>2, <2>3, <3>1 DEF Answer
  <2>4. CASE Submit(j)
    BY <2>1, <2>2, <2>3, <2>4 DEF Submit
  <2>5. CASE \E u \in Urls : CheckSeed(j, u)
    BY <2>1, <2>2, <2>3, <2>5 DEF CheckSeed
  <2>6. CASE CommitJob(j)
    BY <2>3, <2>6 DEF CommitJob
  <2>. QED BY <2>4, <2>5, <2>6 DEF ApiStep
<1>3. CASE Submit(j) \/ \E u \in Urls : CheckSeed(j, u)
  BY <1>1, <1>2, <1>3, RowsQuiet DEF Submit, CheckSeed, tables
<1>4. CASE CommitJob(j)
  <2>0. UNCHANGED <<docs, mapped>> /\ request[j].keep \in SUBSET Urls
    BY <1>4 DEF CommitJob, TypeOK, ApiTypeOK
  <2>1. CASE UNCHANGED <<jobs, tasks, nextId>>
    BY <1>1, <1>2, <2>0, <2>1, RowsQuiet
  <2>2. CASE InsertTasks(j, request[j].keep, 0)
    <3>1. \A t \in TaskIds :
            \/ tasks'[t] = tasks[t]
            \/ nextId <= t /\ \E u \in request[j].keep : tasks'[t] = NewTask(j, u, 0)
      BY <2>0, <2>2, InsertTasksEffect DEF TypeOK
    <3>2. \A t \in TaskIds : tasks'[t] = tasks[t] \/ Comes(t)
      BY <3>1 DEF Comes, Seeded
    <3>. QED BY <1>1, <1>2, <2>0, <3>2, RowsCome
  <2>. QED BY <1>4, <2>1, <2>2 DEF CommitJob
<1>. QED BY <1>3, <1>4 DEF ApiStep

\* Heartbeats, lease timeouts and crashes.
LEMMA BackgroundLives ==
  ASSUME TypeOK, Structure,
         \/ \E w \in Workers : Heartbeat(w) \/ Crash(w)
         \/ \E t \in TaskIds : LeaseExpires(t)
  PROVE  /\ seen \subseteq seen'
         /\ \A t \in TaskIds : RowLives(t)
         /\ \A v \in Workers : LinkMoves(v)
<1>0. seen \subseteq seen'
  BY DEF Heartbeat, Crash, LeaseExpires, tables
<1>1. ASSUME NEW t \in TaskIds, TaskExists(t), NEW h,
             tasks' = [tasks EXCEPT ![t].heartbeat = h], UNCHANGED <<docs, mapped, worker>>
      PROVE  /\ \A s \in TaskIds : RowLives(s)
             /\ \A v \in Workers : LinkMoves(v)
  <2>1. /\ \A s \in TaskIds : s # t => tasks'[s] = tasks[s]
        /\ tasks'[t].job = tasks[t].job /\ tasks'[t].requested = tasks[t].requested
        /\ tasks'[t].depth = tasks[t].depth /\ tasks'[t].final = tasks[t].final
        /\ tasks'[t].status = tasks[t].status
    BY <1>1 DEF TypeOK, StoreTypeOK, TaskRow
  <2>2. Remains(t)
    BY <1>1, <2>1 DEF Remains, TaskExists
  <2>. QED BY <1>1, <2>1, <2>2, RowEdited, HandStill
<1>2. ASSUME NEW w \in Workers, Heartbeat(w)
      PROVE  /\ \A s \in TaskIds : RowLives(s)
             /\ \A v \in Workers : LinkMoves(v)
  <2>1. worker[w].id \in TaskIds /\ UNCHANGED <<docs, mapped, worker>>
    BY <1>2, SnapshotRow DEF Heartbeat
  <2>2. CASE TaskExists(worker[w].id)
    <3>1. tasks' = [tasks EXCEPT ![worker[w].id].heartbeat = "fresh"]
      BY <1>2, <2>1, <2>2
      DEF Heartbeat, UpdateTaskHeartbeat, UpdateTask, TypeOK, StoreTypeOK
    <3>. QED BY <1>1, <2>1, <2>2, <3>1
  <2>3. CASE ~TaskExists(worker[w].id)
    BY <1>2, <2>1, <2>3, RowsQuiet, HandStill
    DEF Heartbeat, UpdateTaskHeartbeat, UpdateTask
  <2>. QED BY <2>2, <2>3
<1>3. ASSUME NEW w \in Workers, Crash(w)
      PROVE  /\ \A s \in TaskIds : RowLives(s)
             /\ \A v \in Workers : LinkMoves(v)
  BY <1>3, RowsQuiet, HandDropped DEF Crash, tables
<1>4. ASSUME NEW t \in TaskIds, LeaseExpires(t)
      PROVE  /\ \A s \in TaskIds : RowLives(s)
             /\ \A v \in Workers : LinkMoves(v)
  BY <1>1, <1>4 DEF LeaseExpires, TaskExists
<1>. QED BY <1>0, <1>2, <1>3, <1>4

\* A sweep takes the rows of the jobs it deletes, and the passing of time none.
LEMMA SweepLives ==
  ASSUME TypeOK, Structure, LinkInv,
         \/ \E s \in Sweepers : SweepStep(s)
         \/ \E j \in Jobs : \E l \in Limits : LimitPasses(j, l)
  PROVE  /\ seen \subseteq seen'
         /\ \A t \in TaskIds : RowLives(t)
<1>0. seen \subseteq seen'
  BY DEF SweepStep, CancelExpired, DeleteExpired, LimitPasses, tables
<1>1. CASE UNCHANGED <<tasks, docs, mapped>>
  BY <1>0, <1>1, RowsQuiet
<1>2. CASE DeleteJobs(Deletable)
  <2>. SUFFICES ASSUME NEW t \in TaskIds PROVE RowLives(t)
    BY <1>0
  <2>1. docs[t] \in Nat
    BY DEF TypeOK, StoreTypeOK
  <2>2. CASE tasks[t].job \in Deletable
    <3>1. tasks'[t] = NoTask /\ jobs'[tasks[t].job] = "deleted"
      BY <1>2, <2>2 DEF DeleteJobs, Deletable, Expired
    <3>2. ~Remains(t)
      BY <3>1 DEF Remains, NoTask
    <3>. QED BY <3>1, <3>2 DEF RowLives, Goes, Vacant, NoRow
  <2>3. CASE tasks[t].job \notin Deletable
    <3>1. tasks'[t] = tasks[t] /\ docs'[t] = docs[t] /\ mapped'[t] = mapped[t]
      BY <1>2, <2>3 DEF DeleteJobs
    <3>. QED BY <2>1, <3>1 DEF RowLives, Stays, Vacant, Remains, TaskExists
  <2>. QED BY <2>2, <2>3
<1>. QED BY <1>1, <1>2 DEF SweepStep, CancelExpired, DeleteExpired, LimitPasses, tables

\* What every step does to rows and to the dedupe cache.
LEMMA StepLives ==
  ASSUME TypeOK, Structure, LinkInv, FiniteLinks, [Next]_vars
  PROVE  /\ seen \subseteq seen' /\ SeedsAsked'
         /\ \A t \in TaskIds : RowLives(t)
         /\ \A v \in Workers : LinkMoves(v)
<1>1. ASSUME UNCHANGED worker PROVE \A v \in Workers : LinkMoves(v)
  BY <1>1, HandStill
<1>2. ASSUME UNCHANGED request PROVE SeedsAsked'
  BY <1>2 DEF LinkInv, SeedsAsked
<1>3. CASE UNCHANGED vars
  BY <1>1, <1>2, <1>3, RowsQuiet DEF vars, storeVars
<1>4. CASE \E j \in Jobs : ApiStep(j) /\ UNCHANGED <<worker, sweep>>
  BY <1>1, <1>4, ApiLives
<1>5. CASE \E w \in Workers : WorkerStep(w) /\ UNCHANGED <<request, sweep>>
  BY <1>2, <1>5, WorkerLives
<1>6. CASE \/ \E w \in Workers : (Heartbeat(w) \/ Crash(w)) /\ UNCHANGED <<request, sweep>>
           \/ \E t \in TaskIds : LeaseExpires(t) /\ UNCHANGED <<request, sweep>>
  BY <1>2, <1>6, BackgroundLives
<1>7. CASE \/ \E s \in Sweepers : SweepStep(s) /\ UNCHANGED <<request, worker>>
           \/ \E j \in Jobs : \E l \in Limits :
                LimitPasses(j, l) /\ UNCHANGED <<request, worker, sweep>>
  BY <1>1, <1>2, <1>7, SweepLives
<1>. QED BY <1>3, <1>4, <1>5, <1>6, <1>7 DEF Next

LEMMA LinksInitially == Init => LinkInv
<1>. SUFFICES ASSUME Init PROVE LinkInv
  OBVIOUS
<1>1. /\ \A t \in TaskIds : tasks[t].status = "absent"
      /\ \A w \in Workers : worker[w].pc = "idle"
      /\ \A j \in Jobs : request[j].keep = {}
  BY DEF Init, StoreInit, WorkerInit, ApiInit, NoTask, Idle, NoRequest
<1>2. FinalKnown /\ SnapshotsTrue /\ SeedsAsked
  BY <1>1 DEF FinalKnown, SnapshotsTrue, SeedsAsked, TaskExists, At
<1>3. \A w \in Workers : HandOK(w)
  BY <1>1 DEF HandOK, LinksInHand, LinksKept, LinksMapped, At
<1>4. DoneCoversLinks /\ TasksAreDiscovered
  BY <1>1 DEF DoneCoversLinks, TasksAreDiscovered, Expanded, TaskExists
<1>. QED BY <1>2, <1>3, <1>4 DEF LinkInv

LEMMA LinksHold == Spec => [](RowInv /\ LinkInv)
<1>1. FiniteLinks
  BY PagesAssumption DEF FiniteLinks
<1>2. /\ RowInv /\ LinkInv /\ (TypeOK /\ Structure) /\ (TypeOK /\ Structure)' /\ [Next]_vars
      => LinkInv'
  BY <1>1, StepLives, LinkFrame
<1>. QED BY <1>2, LinksInitially, RowsHold, TypeCorrect, PTL DEF Spec

-----------------------------------------------------------------------------
(* The dedupe cache.                                                       *)

\* Nothing is deleted, and only tasks that store documents mark their URL.
CacheInv ==
  /\ SeenHasDocument
  /\ \A j \in Jobs : jobs[j] # "deleted"
  /\ \A w \in Workers : worker[w].pc \in {"store", "mark"} => TypeOf(w) # "map"

\* Without a ttl or a deadline no job is ever deleted.
LEMMA NothingDeleted ==
  ASSUME TypeOK, Structure, Limits \subseteq {"max_duration"}, [Next]_vars,
         \A j \in Jobs : jobs[j] # "deleted"
  PROVE  \A j \in Jobs : /\ jobs'[j] # "deleted"
                         /\ jobs[j] # "absent" => jobs'[j] # "absent"
<1>0. Deletable = {}
  BY DEF Deletable, Expired, TypeOK, StoreTypeOK
<1>1. CASE UNCHANGED jobs
  BY <1>1
<1>2. ASSUME NEW j \in Jobs, NEW s \in JobStatus, UpdateJobStatus(j, s)
      PROVE  \A k \in Jobs : /\ jobs'[k] # "deleted"
                             /\ jobs[k] # "absent" => jobs'[k] # "absent"
  BY <1>2 DEF UpdateJobStatus, JobStatus, Finished, TypeOK, StoreTypeOK
<1>3. CASE \E j \in Jobs : CommitJob(j)
  BY <1>3 DEF CommitJob, TypeOK, StoreTypeOK
<1>4. CASE \E w \in Workers : CancelOverdue(w) \/ StartQueued(w) \/ FinishJob(w)
  <2>1. PICK w \in Workers : CancelOverdue(w) \/ StartQueued(w) \/ FinishJob(w)
    BY <1>4
  <2>2. ~At(w, "idle")
    BY <2>1 DEF CancelOverdue, StartQueued, FinishJob, At
  <2>3. JobOf(w) \in Jobs
    BY <2>2, SnapshotRow
  <2>4. worker[w].verdict \in JobStatus
    BY DEF TypeOK, WorkerTypeOK, WorkerState, JobStatus
  <2>5. {"cancelled", "running"} \subseteq JobStatus
    BY DEF JobStatus
  <2>. QED BY <1>1, <1>2, <2>1, <2>3, <2>4, <2>5 DEF CancelOverdue, StartQueued, StartJob, FinishJob
<1>5. CASE \E s \in Sweepers : SweepStep(s)
  BY <1>0, <1>5 DEF SweepStep, CancelExpired, DeleteExpired, DeleteJobs
<1>6. CASE \E w \in Workers : WorkerStep(w)
  <2>1. PICK w \in Workers : WorkerStep(w)
    BY <1>6
  <2>2. CASE (\E t \in TaskIds : Claim(w, t)) \/ GetJob(w) \/ Dispatch(w) \/ FetchPage(w)
             \/ FetchMapPage(w) \/ StoreDocument(w) \/ MarkSeen(w) \/ Expand(w)
    <3>1. UNCHANGED jobs
      BY <2>2 DEF Claim, GetJob, Dispatch, FetchPage, FetchMapPage, StoreDocument, MarkSeen,
                  Expand, tables
    <3>. QED BY <1>1, <3>1
  <2>3. CASE CountTasks(w) \/ InsertMap(w) \/ Settle(w) \/ CheckPending(w) \/ CheckFailed(w)
             \/ \E u \in Urls : SkipSeen(w, u) \/ InsertLink(w, u)
    <3>1. UNCHANGED jobs
      BY <2>3 DEF CountTasks, InsertMap, SkipSeen, InsertLink, Settle, CheckPending,
                  CheckFailed, tables
    <3>. QED BY <1>1, <3>1
  <2>. QED BY <1>4, <2>1, <2>2, <2>3 DEF WorkerStep
<1>7. CASE \/ \E w \in Workers : Heartbeat(w) \/ Crash(w)
           \/ \E t \in TaskIds : LeaseExpires(t)
           \/ \E j \in Jobs : \E l \in Limits : LimitPasses(j, l)
           \/ \E j \in Jobs : Submit(j) \/ \E u \in Urls : CheckSeed(j, u)
           \/ UNCHANGED vars
  BY <1>1, <1>7 DEF Heartbeat, Crash, LeaseExpires, LimitPasses, Submit, CheckSeed, tables,
                    vars, storeVars
<1>. QED BY <1>3, <1>5, <1>6, <1>7 DEF Next, ApiStep

\* A goroutine that moves on keeps its snapshot, and the others are left alone.
LEMMA GotoPlace ==
  ASSUME TypeOK, NEW w \in Workers, NEW pc, Goto(w, pc)
  PROVE  /\ worker'[w].pc = pc /\ worker'[w].row = worker[w].row
         /\ \A v \in Workers : v # w => worker'[v] = worker[v]
BY DEF Goto, Become, TypeOK, WorkerTypeOK, WorkerState

\* Only processDocumentTask comes to InsertDocument and MarkCanonical.
LEMMA StoringStep ==
  ASSUME TypeOK, NEW w \in Workers, WorkerStep(w),
         \A v \in Workers : worker[v].pc \in {"store", "mark"} => TypeOf(v) # "map"
  PROVE  \A v \in Workers : worker'[v].pc \in {"store", "mark"} => TypeOf(v)' # "map"
<1>0. worker \in [Workers -> WorkerState]
  BY DEF TypeOK, WorkerTypeOK
<1>1. ASSUME NEW pc, Goto(w, pc), pc \notin {"store", "mark"} \/ TypeOf(w) # "map"
      PROVE  \A v \in Workers : worker'[v].pc \in {"store", "mark"} => TypeOf(v)' # "map"
  BY <1>1, GotoPlace DEF TypeOf, JobOf
<1>2. ASSUME NEW state, Become(w, state), state.pc \notin {"store", "mark"}
      PROVE  \A v \in Workers : worker'[v].pc \in {"store", "mark"} => TypeOf(v)' # "map"
  <2>1. \A v \in Workers : worker'[v] = IF v = w THEN state ELSE worker[v]
    BY <1>0, <1>2 DEF Become
  <2>. QED BY <1>2, <2>1 DEF TypeOf, JobOf
<1>3. CASE Release(w)
  <2>1. Idle.pc = "idle"
    BY DEF Idle
  <2>. QED BY <1>2, <1>3, <2>1 DEF Release
<1>4. CASE GetJob(w) \/ CancelOverdue(w) \/ StartQueued(w) \/ CheckPending(w)
           \/ FinishJob(w) \/ MarkSeen(w) \/ FetchMapPage(w) \/ Settle(w) \/ InsertMap(w)
  <2>1. Release(w) \/ \E pc : Goto(w, pc) /\ pc \notin {"store", "mark"}
    BY <1>4 DEF GetJob, CancelOverdue, StartQueued, CheckPending, FinishJob, MarkSeen,
                FetchMapPage, Settle, InsertMap
  <2>. QED BY <1>1, <1>3, <2>1
<1>5. CASE FetchPage(w)
  BY <1>1, <1>5 DEF FetchPage
<1>6. CASE StoreDocument(w)
  <2>1. TypeOf(w) # "map"
    BY <1>6 DEF StoreDocument, At
  <2>. QED BY <1>1, <1>6, <2>1 DEF StoreDocument
<1>7. CASE \E t \in TaskIds : Claim(w, t)
  <2>1. PICK t \in TaskIds : Claim(w, t)
    BY <1>7
  <2>2. PICK row : row = ClaimedRow(t)
    OBVIOUS
  <2>3. [Idle EXCEPT !.pc = "getjob", !.id = t, !.row = row].pc = "getjob"
    BY DEF Idle
  <2>. QED BY <1>2, <2>1, <2>2, <2>3 DEF Claim
<1>8. CASE Dispatch(w)
  <2>1. PICK bounded : bounded = ~Overdue(JobOf(w))
    OBVIOUS
  <2>2. [worker[w] EXCEPT !.pc = "fetch", !.bounded = bounded].pc = "fetch"
    BY <1>0 DEF WorkerState
  <2>. QED BY <1>2, <1>8, <2>1, <2>2 DEF Dispatch
<1>9. CASE CheckFailed(w)
  <2>1. Release(w) \/ \E verdict : Become(w, [worker[w] EXCEPT !.pc = "finish",
                                                              !.verdict = verdict])
    BY <1>9 DEF CheckFailed
  <2>2. \A verdict : [worker[w] EXCEPT !.pc = "finish", !.verdict = verdict].pc = "finish"
    BY <1>0 DEF WorkerState
  <2>. QED BY <1>2, <1>3, <2>1, <2>2
<1>10. CASE Expand(w)
  <2>1. \/ \E pc \in {"ok", "err"} : Goto(w, pc)
        \/ \E pc \in {"ok", "filter"} : \E links, check, todo :
             Become(w, [worker[w] EXCEPT !.pc = pc, !.links = links, !.check = check,
                                         !.todo = todo])
    BY <1>10 DEF Expand
  <2>2. \A pc \in {"ok", "filter"} : \A links, check, todo :
          [worker[w] EXCEPT !.pc = pc, !.links = links, !.check = check, !.todo = todo].pc
            \notin {"store", "mark"}
    BY <1>0 DEF WorkerState
  <2>. QED BY <1>1, <1>2, <2>1, <2>2
<1>11. CASE \E u \in Urls : SkipSeen(w, u)
  <2>1. \/ Goto(w, "err")
        \/ /\ worker[w].pc = "filter"
           /\ \E check, todo : Become(w, [worker[w] EXCEPT !.check = check, !.todo = todo])
    BY <1>11 DEF SkipSeen, At
  <2>2. \A check, todo : [worker[w] EXCEPT !.check = check, !.todo = todo].pc = worker[w].pc
    BY <1>0 DEF WorkerState
  <2>. QED BY <1>1, <1>2, <2>1, <2>2
<1>12. CASE CountTasks(w) \/ \E u \in Urls : InsertLink(w, u)
  <2>1. \/ Goto(w, "err")
        \/ \E pc \in {"ok", "insert"} : \E todo :
             Become(w, [worker[w] EXCEPT !.pc = pc, !.todo = todo])
    BY <1>12 DEF CountTasks, InsertLink
  <2>2. \A pc \in {"ok", "insert"} : \A todo :
          [worker[w] EXCEPT !.pc = pc, !.todo = todo].pc \notin {"store", "mark"}
    BY <1>0 DEF WorkerState
  <2>. QED BY <1>1, <1>2, <2>1, <2>2
<1>. QED
  BY <1>4, <1>5, <1>6, <1>7, <1>8, <1>9, <1>10, <1>11, <1>12 DEF WorkerStep

\* A document lasts, and its row with it, where nothing is deleted.
LEMMA DocumentLasts ==
  ASSUME TypeOK, Structure, RowInv, TypeOK', \A t \in TaskIds : RowLives(t),
         \A j \in Jobs : jobs'[j] \notin NoRow \/ jobs[j] \in NoRow,
         NEW t \in TaskIds, docs[t] > 0
  PROVE  docs'[t] > 0 /\ tasks'[t].requested = tasks[t].requested
<1>1. TaskExists(t) /\ JobExists(tasks[t].job)
  BY DEF RowInv, NoOrphans, TypeOK, StoreTypeOK
<1>2. tasks[t].job \in Jobs
  BY <1>1 DEF Structure, RowsOK, NoTask, TaskExists
<1>3. Stays(t)
  BY <1>1, <1>2, RowStays DEF JobExists
<1>4. docs[t] \in Nat /\ docs'[t] \in Nat
  BY DEF TypeOK, StoreTypeOK
<1>. QED BY <1>3, <1>4 DEF Stays

\* A new entry of the cache comes from a worker whose document is stored.
LEMMA CacheStep ==
  ASSUME TypeOK, Structure, TypeOK', Structure', RowInv, LinkInv, FiniteLinks,
         Limits \subseteq {"max_duration"}, CacheInv, [Next]_vars
  PROVE  CacheInv'
<1>0. \A j \in Jobs : jobs[j] # "deleted"
  BY DEF CacheInv
<1>1. \A j \in Jobs : /\ jobs'[j] # "deleted"
                      /\ jobs[j] # "absent" => jobs'[j] # "absent"
  BY <1>0, NothingDeleted
<1>2. \A w \in Workers : worker'[w].pc \in {"store", "mark"} => TypeOf(w)' # "map"
  <2>1. CASE \E w \in Workers : WorkerStep(w)
    BY <2>1, StoringStep DEF CacheInv
  <2>2. CASE UNCHANGED worker
    BY <2>2 DEF CacheInv, TypeOf, JobOf
  <2>3. CASE \E w \in Workers : Crash(w)
    <3>1. PICK w \in Workers : Crash(w)
      BY <2>3
    <3>2. /\ worker'[w].pc = "idle"
          /\ \A v \in Workers : v # w => worker'[v] = worker[v]
      BY <3>1, ReleaseEffect DEF Crash, TypeOK
    <3>. QED BY <3>2 DEF CacheInv, TypeOf, JobOf
  <2>. QED BY <2>1, <2>2, <2>3 DEF Next, Heartbeat, LeaseExpires, vars
<1>3. \A t \in TaskIds : RowLives(t)
  BY StepLives
<1>4. \A j \in Jobs : jobs'[j] \notin NoRow \/ jobs[j] \in NoRow
  BY <1>1 DEF NoRow
<1>5. SeenHasDocument'
  <2>. SUFFICES ASSUME NEW u \in seen'
                PROVE  \E t \in TaskIds : docs'[t] > 0 /\ Canon[Redirect[tasks'[t].requested]] = u
    BY DEF SeenHasDocument
  <2>1. \E t \in TaskIds : docs[t] > 0 /\ Canon[Redirect[tasks[t].requested]] = u
    <3>1. CASE u \in seen
      BY <3>1 DEF CacheInv, SeenHasDocument
    <3>2. CASE \E w \in Workers : /\ At(w, "mark")
                                  /\ u = Canon[Redirect[worker[w].row.requested]]
      <4>1. PICK w \in Workers : /\ At(w, "mark")
                                 /\ u = Canon[Redirect[worker[w].row.requested]]
        BY <3>2
      <4>2. JobExists(JobOf(w))
        BY <4>1 DEF Structure, SnapshotsOK, SnapshotOK, CacheInv, JobExists, NoRow, At
      <4>3. TaskExists(worker[w].id) /\ worker[w].id \in TaskIds
        BY <4>1, <4>2, SnapshotRow DEF At
      <4>4. docs[worker[w].id] > 0
        BY <4>1, <4>3 DEF RowInv, DocumentStored, WithDocument, CacheInv, At
      <4>5. tasks[worker[w].id].requested = worker[w].row.requested
        BY <4>1, <4>3 DEF LinkInv, SnapshotsTrue, At
      <4>. QED BY <4>1, <4>3, <4>4, <4>5
    <3>3. u \in seen \/ \E w \in Workers : /\ At(w, "mark")
                                           /\ u = Canon[Redirect[worker[w].row.requested]]
      <4>1. \A w \in Workers : WorkerStep(w) => MarkSeen(w) \/ UNCHANGED seen
        <5>. SUFFICES ASSUME NEW w \in Workers, WorkerStep(w), ~MarkSeen(w) PROVE UNCHANGED seen
          OBVIOUS
        <5>1. CASE (\E t \in TaskIds : Claim(w, t)) \/ GetJob(w) \/ CancelOverdue(w)
                   \/ StartQueued(w) \/ Dispatch(w) \/ FetchPage(w) \/ FetchMapPage(w)
                   \/ StoreDocument(w)
          BY <5>1 DEF Claim, GetJob, CancelOverdue, StartQueued, Dispatch, FetchPage,
                      FetchMapPage, StoreDocument, tables
        <5>2. CASE Expand(w) \/ CountTasks(w) \/ InsertMap(w) \/ Settle(w) \/ CheckPending(w)
                   \/ CheckFailed(w) \/ FinishJob(w)
                   \/ \E v \in Urls : SkipSeen(w, v) \/ InsertLink(w, v)
          BY <5>2 DEF Expand, CountTasks, InsertMap, SkipSeen, InsertLink, Settle, CheckPending,
                      CheckFailed, FinishJob, tables
        <5>. QED BY <5>1, <5>2 DEF WorkerStep
      <4>2. (\E w \in Workers : MarkSeen(w)) \/ UNCHANGED seen
        BY <4>1 DEF Next, vars, storeVars, ApiStep, Submit, CheckSeed, CommitJob, Heartbeat,
                    Crash, LeaseExpires, SweepStep, CancelExpired, DeleteExpired, LimitPasses,
                    tables
      <4>. QED BY <4>2 DEF MarkSeen, MarkCanonical
    <3>. QED BY <3>1, <3>2, <3>3
  <2>. QED BY <1>3, <1>4, <2>1, DocumentLasts
<1>6. \A j \in Jobs : jobs'[j] # "deleted"
  BY <1>1
<1>. QED BY <1>2, <1>5, <1>6 DEF CacheInv

-----------------------------------------------------------------------------
\* worker.go, processCrawlTask and processMapTask: every task is a seed or a link of a
\* page of its job one level up, which has its document, and none lies below max_depth,
\* whatever is retried, reclaimed or deleted meanwhile.
THEOREM EveryTaskIsDiscovered == Spec => []TasksAreDiscovered
<1>1. LinkInv => TasksAreDiscovered
  BY DEF LinkInv
<1>. QED BY <1>1, LinksHold, PTL

\* worker.go, buildLinkTasks and enqueueMapLinks: no link of a page that is done is lost,
\* for any site, cap and depth, although inserts fail half way and tasks are run again.
THEOREM DonePagesCoverLinks == Spec => []DoneCoversLinks
<1>1. LinkInv => DoneCoversLinks
  BY DEF LinkInv
<1>. QED BY <1>1, LinksHold, PTL

\* worker.go, fetchExtractAndStore: as long as nothing is deleted, no URL is in the dedupe
\* cache whose document was not stored.
THEOREM CachedUrlsHaveDocuments ==
  ASSUME Limits \subseteq {"max_duration"}
  PROVE  Spec => []SeenHasDocument
<1>1. FiniteLinks
  BY PagesAssumption DEF FiniteLinks
<1>2. Init => CacheInv
  <2>. SUFFICES ASSUME Init PROVE CacheInv
    OBVIOUS
  <2>1. /\ seen = {} /\ \A j \in Jobs : jobs[j] = "absent"
        /\ \A w \in Workers : worker[w].pc = "idle"
    BY DEF Init, StoreInit, WorkerInit, Idle
  <2>. QED BY <2>1 DEF CacheInv, SeenHasDocument
<1>3. /\ CacheInv /\ (RowInv /\ LinkInv) /\ (TypeOK /\ Structure) /\ (TypeOK /\ Structure)'
      /\ [Next]_vars
      => CacheInv'
  BY <1>1, CacheStep
<1>4. CacheInv => SeenHasDocument
  BY DEF CacheInv
<1>. QED BY <1>2, <1>3, <1>4, LinksHold, TypeCorrect, PTL DEF Spec

=============================================================================
