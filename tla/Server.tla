------------------------------- MODULE Server -------------------------------
(***************************************************************************)
(* The API process as users of its database connections: the handlers of   *)
(* internal/server/routes.go and createJobWithSeeds of jobs.go, statement  *)
(* by statement, over the pool of ConnPool and the rows of Paging.  What   *)
(* createJobWithSeeds writes is the subject of Api; here it is what it     *)
(* holds.  A statement has a connection of its own unless it runs in a     *)
(* transaction, which keeps one from BeginTx to Commit or Rollback.        *)
(*                                                                         *)
(* A handler waits for a connection without a deadline: c.Context() of a   *)
(* fiber handler ends with the server.  Only the ping of /readyz gives up. *)
(***************************************************************************)
EXTENDS Paging, ConnPool

CONSTANTS
  Creators,     \* requests that create a job
  Readers,      \* requests about the job of Paging
  Reads,        \* what they ask for, a set of ReadKinds
  DedupeCache,  \* crawl.dedupe_cache
  MaxSeeds,     \* bound: URLs of a batch
  MaxFaults     \* bound: statements that fail

Requests == Creators \union Readers

ReadKinds == {"ready", "status", "documents", "map", "export"}

ASSUME ServerAssumption ==
  /\ IsFiniteSet(Requests)
  /\ Creators \intersect Readers = {}
  /\ Reads \subseteq ReadKinds
  /\ DedupeCache \in BOOLEAN
  /\ MaxSeeds \in Nat \ {0}
  /\ MaxFaults \in Nat

VARIABLES
  handler,  \* per request, where its handler is
  reading,  \* per request of a reader, what it asks for and has been given
  faults    \* statements that have failed

vars == <<pagingVars, inUse, handler, reading, faults>>

\* pc is the statement that comes next, or the answer; run says that the statement
\* has a connection of its own; left and kept are the seeds to check and whether one
\* was kept.
At(pc, kind, n, kept) == [pc |-> pc, run |-> FALSE, kind |-> kind, left |-> n, kept |-> kept]

\* before are the rows there were when the reader began, got those it was given, and
\* cursor is the next_cursor.
NothingRead == [sort |-> "asc", before |-> {}, got |-> <<>>, cursor |-> 0]

Answers == {"ok", "conflict", "not found", "error"}
TxPcs   == {"insertJob", "seeds", "seen", "insertTasks", "commit"}  \* after BeginTx
OwnPcs  == {"seen", "ping", "getJob", "stats", "page"}  \* on a connection of its own

Init ==
  /\ PagingInit /\ PoolInit
  /\ handler = [r \in Requests |-> At("idle", "batch", 0, FALSE)]
  /\ reading = [r \in Readers |-> NothingRead]
  /\ faults = 0

HandlerTypeOK ==
  handler \in [Requests -> [pc   : {"idle", "begin"} \union TxPcs \union OwnPcs \union Answers,
                            run  : BOOLEAN,
                            kind : {"batch", "site"} \union ReadKinds,
                            left : 0 .. MaxSeeds,
                            kept : BOOLEAN]]

ReadingTypeOK ==
  reading \in [Readers -> [sort   : {"asc", "desc"},
                           before : SUBSET Nat,
                           got    : Seq(Nat),
                           cursor : Nat]]

TypeOK ==
  /\ PagingTypeOK /\ PoolTypeOK /\ HandlerTypeOK /\ ReadingTypeOK
  /\ faults \in 0 .. MaxFaults

-----------------------------------------------------------------------------
Waiting(r) == ~handler[r].run /\ handler[r].pc \in OwnPcs \union {"begin"}
InTx(r)    == handler[r].pc \in TxPcs
Held(r)    == (IF InTx(r) THEN 1 ELSE 0) + (IF handler[r].run THEN 1 ELSE 0)
Ended(r)   == handler[r].pc \in Answers
Active(r)  == handler[r].pc # "idle" /\ ~Ended(r)

\* The handler of r goes on to pc.
Goto(r, pc) == handler' = [handler EXCEPT ![r].pc = pc, ![r].run = FALSE]

RowsAndFaults == <<pagingVars, reading, faults>>

\* QueryContext and its like: the statement waits for a connection and gets it.
StartStatement(r) ==
  /\ Waiting(r) /\ handler[r].pc # "begin" /\ Get
  /\ handler' = [handler EXCEPT ![r].run = TRUE]
  /\ UNCHANGED RowsAndFaults

-----------------------------------------------------------------------------
(* POST /v1/batch/scrape, /v1/crawl and /v1/map: createJobWithSeeds.       *)

\* A crawl or a map has one seed, and is refused if it was processed before.
Post(r) ==
  /\ r \in Creators /\ handler[r].pc = "idle"
  /\ \E kind \in {"batch", "site"}, n \in 1 .. MaxSeeds :
       /\ kind = "site" => n = 1
       /\ handler' = [handler EXCEPT ![r] = At("begin", kind, n, FALSE)]
  /\ UNCHANGED <<RowsAndFaults, inUse>>

BeginTx(r) ==
  /\ handler[r].pc = "begin" /\ Get
  /\ Goto(r, "insertJob")
  /\ UNCHANGED RowsAndFaults

InsertJob(r) ==
  /\ handler[r].pc = "insertJob"
  /\ Goto(r, "seeds")
  /\ UNCHANGED <<RowsAndFaults, inUse>>

\* Mutant: the loop runs once too often.
NextSeed_OnceMore(r) ==
  /\ handler[r].pc = "seeds"
  /\ IF DedupeCache
     THEN Goto(r, "seen")
     ELSE handler' = [handler EXCEPT ![r] = At("seeds", @.kind, @.left - 1, TRUE)]
  /\ UNCHANGED <<RowsAndFaults, inUse>>

\* The head of the loop over the seeds.
NextSeed(r) ==
  /\ handler[r].pc = "seeds" /\ handler[r].left > 0
  /\ IF DedupeCache
     THEN Goto(r, "seen")
     ELSE handler' = [handler EXCEPT ![r] = At("seeds", @.kind, @.left - 1, TRUE)]
  /\ UNCHANGED <<RowsAndFaults, inUse>>

\* Mutant: the transaction is left open when the seed is a duplicate.
SeedSeen_NoRollback(r) ==
  /\ handler[r].pc = "seen" /\ handler[r].run
  /\ \E seen \in BOOLEAN :
       IF seen /\ handler[r].kind = "site"
       THEN Put(1) /\ Goto(r, "conflict")
       ELSE /\ Put(1)
            /\ handler' = [handler EXCEPT ![r] = At("seeds", @.kind, @.left - 1, @.kept \/ ~seen)]
  /\ UNCHANGED RowsAndFaults

\* HasSeenCanonical returns its connection; Rollback the one of the transaction.
SeedSeen(r) ==
  /\ handler[r].pc = "seen" /\ handler[r].run
  /\ \E seen \in BOOLEAN :
       IF seen /\ handler[r].kind = "site"
       THEN Put(2) /\ Goto(r, "conflict")
       ELSE /\ Put(1)
            /\ handler' = [handler EXCEPT ![r] = At("seeds", @.kind, @.left - 1, @.kept \/ ~seen)]
  /\ UNCHANGED RowsAndFaults

EndOfSeeds(r) ==
  /\ handler[r].pc = "seeds" /\ handler[r].left = 0
  /\ Goto(r, IF handler[r].kept THEN "insertTasks" ELSE "commit")
  /\ UNCHANGED <<RowsAndFaults, inUse>>

InsertTasks(r) ==
  /\ handler[r].pc = "insertTasks"
  /\ Goto(r, "commit")
  /\ UNCHANGED <<RowsAndFaults, inUse>>

CommitTx(r) ==
  /\ handler[r].pc = "commit"
  /\ Put(1) /\ Goto(r, "ok")
  /\ UNCHANGED RowsAndFaults

-----------------------------------------------------------------------------
(* GET /readyz, /v1/jobs/{id} and its /documents, /map and /export.        *)

First(kind) == CASE kind = "ready" -> "ping" [] kind = "map" -> "page" [] OTHER -> "getJob"

Ask(r) ==
  /\ r \in Readers /\ handler[r].pc = "idle"
  /\ \E kind \in Reads : handler' = [handler EXCEPT ![r] = At(First(kind), kind, 0, FALSE)]
  /\ \E sort \in {"asc", "desc"} : reading' = [reading EXCEPT ![r] = [NothingRead EXCEPT !.sort = sort]]
  /\ UNCHANGED <<pagingVars, inUse, faults>>

\* db.Ping has an answer, or two seconds are over.
Ping(r) ==
  /\ handler[r].pc = "ping"
  /\ \/ handler[r].run /\ Goto(r, "ok")
     \/ Goto(r, "error")
  /\ Put(Held(r))
  /\ UNCHANGED RowsAndFaults

\* Mutant: the rows of the query are not closed.
JobFound_RowsOpen(r) ==
  /\ handler[r].pc = "getJob" /\ handler[r].run
  /\ Goto(r, IF gone THEN "not found" ELSE IF handler[r].kind = "status" THEN "stats" ELSE "page")
  /\ IF gone THEN Put(1) ELSE UNCHANGED inUse
  /\ UNCHANGED RowsAndFaults

JobFound(r) ==
  /\ handler[r].pc = "getJob" /\ handler[r].run
  /\ Goto(r, IF gone THEN "not found" ELSE IF handler[r].kind = "status" THEN "stats" ELSE "page")
  /\ Put(1)
  /\ UNCHANGED RowsAndFaults

\* JobStats counts the tasks of a job that is gone as well: there are none.
Stats(r) ==
  /\ handler[r].pc = "stats" /\ handler[r].run
  /\ Goto(r, "ok") /\ Put(1)
  /\ UNCHANGED RowsAndFaults

\* A page of a listing answers the request and gives its last id, or 0 if it is
\* empty; all=true of the export goes on until a page is empty.
TakePage(r) ==
  LET me   == reading[r]
      page == PageOf(me.cursor, me.sort)
      all  == handler[r].kind = "export"
  IN  /\ handler[r].pc = "page" /\ handler[r].run
      /\ Goto(r, IF all /\ page # <<>> THEN "page" ELSE "ok")
      /\ reading' = [reading EXCEPT
           ![r].before = IF me.cursor = 0 THEN Stored ELSE @,
           ![r].got    = @ \o page,
           ![r].cursor = IF page # <<>> THEN Last(page) ELSE IF all THEN @ ELSE 0]
      /\ Put(1)
      /\ UNCHANGED <<pagingVars, faults>>

\* A client of a listing comes back with after=next_cursor, until it is 0.
FollowCursor(r) ==
  /\ handler[r].kind \in {"documents", "map"} /\ handler[r].pc = "ok" /\ reading[r].cursor > 0
  /\ Goto(r, First(handler[r].kind))
  /\ UNCHANGED <<RowsAndFaults, inUse>>

-----------------------------------------------------------------------------
\* It runs a statement, or asks for the connection to run it on.
AtStatement(r) ==
  \/ handler[r].run
  \/ Waiting(r) /\ Free
  \/ handler[r].pc \in {"insertJob", "insertTasks", "commit"}

\* Mutant: a wait for a connection is given up.
StatementFails_GivesUp(r) ==
  /\ faults < MaxFaults
  /\ AtStatement(r) \/ Waiting(r)
  /\ Goto(r, IF handler[r].pc = "getJob" THEN "not found" ELSE "error")
  /\ Put(Held(r))
  /\ faults' = faults + 1
  /\ UNCHANGED <<pagingVars, reading>>

\* A statement fails, or the connection that it is to run on: the connections of the
\* request go back, and every error of GetJob is a 404.
StatementFails(r) ==
  /\ faults < MaxFaults
  /\ AtStatement(r)
  /\ Goto(r, IF handler[r].pc = "getJob" THEN "not found" ELSE "error")
  /\ Put(Held(r))
  /\ faults' = faults + 1
  /\ UNCHANGED <<pagingVars, reading>>

HandlerStep(r) ==
  \/ StartStatement(r)
  \/ BeginTx(r) \/ InsertJob(r) \/ NextSeed(r) \/ SeedSeen(r) \/ EndOfSeeds(r)
  \/ InsertTasks(r) \/ CommitTx(r)
  \/ Ping(r) \/ JobFound(r) \/ Stats(r) \/ TakePage(r)

ClientStep(r) == Post(r) \/ Ask(r) \/ FollowCursor(r)

Next ==
  \/ \E r \in Requests : HandlerStep(r) \/ ClientStep(r) \/ StatementFails(r)
  \/ WriterStep /\ UNCHANGED <<inUse, handler, reading, faults>>

Spec == Init /\ [][Next]_vars

-----------------------------------------------------------------------------
(* What is promised.                                                       *)

\* The connections that are out are those of the handlers' open transactions and
\* running statements, and the pool's limit holds: on no path does a handler answer
\* and leave one behind (jobs.go:28-77).
ConnsMatch ==
  /\ inUse = Cardinality({r \in Requests : InTx(r)}) + Cardinality({r \in Requests : handler[r].run})
  /\ MaxOpen > 0 => inUse <= MaxOpen

\* The only way for everybody to wait: as many creators as there are connections, each
\* with an open transaction, wait for another one to read the dedupe cache
\* (jobs.go:27,46).
SeedsWait ==
  MaxOpen > 0 /\ Cardinality({r \in Creators : handler[r].pc = "seen" /\ ~handler[r].run}) = MaxOpen

\* A pool without a free connection, all of it held by waiting requests, is that one.
StuckMeansSeedsWait ==
  (~Free /\ \A r \in Requests : Held(r) > 0 => Waiting(r)) => SeedsWait

\* And it is lasting: no handler that waits for a connection gives up, so the API
\* serves nothing that needs the database until it is restarted (jobs.go:46).
SeedsWaitLasts == [][SeedsWait => SeedsWait']_vars

\* A reader gets the rows by id, in its direction, each once, from the pages it asks
\* for one after the other while rows are committed (store.go:353-382, 410-440).
InOrder ==
  orderColumn = "id" =>
    \A r \in Readers :
      LET got == reading[r].got
      IN  \A i, j \in DOMAIN got :
            i < j => IF reading[r].sort = "desc" THEN got[j] < got[i] ELSE got[i] < got[j]

\* Whoever reads to the end, by all=true or by following next_cursor to 0, has got
\* every row that was there at the beginning, unless the job is deleted meanwhile
\* (routes.go:225-256; README: "keeps reading successive pages until exhaustion").
ExportIsExhaustive ==
  \A r \in Readers :
    /\ handler[r].pc = "ok" /\ ~gone
    /\ handler[r].kind = "export" \/ reading[r].cursor = 0
    => reading[r].before \subseteq ToSet(reading[r].got)

=============================================================================
