-------------------------------- MODULE Api --------------------------------
(***************************************************************************)
(* Job creation by the API server: POST /v1/batch/scrape, /v1/crawl and    *)
(* /v1/map (internal/server/routes.go) and createJobWithSeeds              *)
(* (internal/server/jobs.go).  The job row and its seed tasks are written  *)
(* in one transaction; the dedupe cache is read outside of it, one seed    *)
(* at a time, before it commits.                                           *)
(***************************************************************************)
EXTENDS Store

VARIABLE request  \* per job, the handler serving the request that creates it

NoRequest == [pc |-> "idle", left |-> {}, keep |-> {}]

Answers == {"accepted", "conflict", "rejected", "error"}

ApiInit == request = [j \in Jobs |-> NoRequest]

ApiTypeOK ==
  request \in [Jobs -> [pc   : {"idle", "check"} \union Answers,
                        left : SUBSET Urls,
                        keep : SUBSET Urls]]

-----------------------------------------------------------------------------
Answer(j, a) == request' = [request EXCEPT ![j] = [NoRequest EXCEPT !.pc = a]]

\* validateBatchRequest, validateCrawlRequest, validateMapRequest; Urls are
\* taken to be well formed.
ValidRequest(j) ==
  /\ Request[j].type = "batch_scrape" => Request[j].urls # {}
  /\ Request[j].type # "batch_scrape" =>
       (\E u \in Urls : Request[j].urls = {u}) /\ MaxDepth(j) >= 0

\* The handler parses and validates the body, begins the transaction and inserts
\* the job row, which nobody else sees before the commit.
Submit(j) ==
  /\ request[j].pc = "idle"
  /\ \/ /\ ValidRequest(j)
        /\ request' = [request EXCEPT ![j] =
             [pc |-> "check",
              left |-> IF DedupeCache THEN Request[j].urls ELSE {},
              keep |-> Request[j].urls]]
        /\ NoFault
     \/ ~ValidRequest(j) /\ Answer(j, "rejected") /\ NoFault
     \/ ValidRequest(j) /\ Answer(j, "error") /\ Fault
  /\ UNCHANGED <<tables, past>>

\* One ShouldSkipCanonical call of the loop over the seeds.
CheckSeed(j, u) ==
  /\ request[j].pc = "check"
  /\ u \in request[j].left
  /\ \/ /\ Canon[u] \notin seen
        /\ request' = [request EXCEPT ![j].left = @ \ {u}]
        /\ NoFault
     \/ /\ Canon[u] \in seen
        /\ Request[j].type = "batch_scrape"
        /\ request' = [request EXCEPT ![j].left = @ \ {u}, ![j].keep = @ \ {u}]
        /\ NoFault
     \/ /\ Canon[u] \in seen
        /\ Request[j].type # "batch_scrape"
        /\ Answer(j, "conflict")
        /\ NoFault
     \/ Answer(j, "error") /\ Fault
  /\ UNCHANGED <<tables, past>>

\* InsertTasks inside the transaction, then Commit.
CommitJob(j) ==
  /\ request[j].pc = "check"
  /\ request[j].left = {}
  /\ \/ /\ jobs' = [jobs EXCEPT ![j] = "queued"]
        /\ InsertTasks(j, request[j].keep, 0)
        /\ \/ Answer(j, "accepted") /\ NoFault
           \/ Answer(j, "error") /\ Fault  \* committed, but the reply was lost
     \/ /\ UNCHANGED <<jobs, tasks, nextId>>
        /\ Answer(j, "error")
        /\ Fault
  /\ UNCHANGED <<docs, mapped, seen, past>>

ApiStep(j) ==
  \/ Submit(j)
  \/ \E u \in Urls : CheckSeed(j, u)
  \/ CommitJob(j)

=============================================================================
