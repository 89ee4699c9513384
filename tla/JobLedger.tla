----------------------------- MODULE JobLedger -----------------------------
(***************************************************************************)
(* What a job promises to a client that polls GET /v1/jobs/:id: a job is   *)
(* open until all of its tasks are settled; it then closes, once, with a   *)
(* verdict that tells whether a task failed; a settled task and a closed   *)
(* job never change again, except that the job may be dropped as a whole.  *)
(* Nothing here mentions workers, leases, statements or faults.            *)
(***************************************************************************)
CONSTANTS Jobs, TaskIds, NoJob

VARIABLES
  job,    \* "none", "open", a verdict, or "dropped"
  owner,  \* the job a task belongs to
  task    \* "none", "pending", "done" or "failed"

vars == <<job, owner, task>>

Verdicts == {"completed", "completed_with_errors"}

Of(j) == {t \in TaskIds : owner[t] = j}
PendingOf(j) == {t \in Of(j) : task[t] = "pending"}
FailedOf(j) == {t \in Of(j) : task[t] = "failed"}

Verdict(j) == IF FailedOf(j) = {} THEN "completed" ELSE "completed_with_errors"

Init ==
  /\ job = [j \in Jobs |-> "none"]
  /\ owner = [t \in TaskIds |-> NoJob]
  /\ task = [t \in TaskIds |-> "none"]

Enter(j, T) ==
  /\ \A t \in T : task[t] = "none"
  /\ owner' = [t \in TaskIds |-> IF t \in T THEN j ELSE owner[t]]
  /\ task' = [t \in TaskIds |-> IF t \in T THEN "pending" ELSE task[t]]

Accept(j, T) ==
  /\ job[j] = "none"
  /\ job' = [job EXCEPT ![j] = "open"]
  /\ Enter(j, T)

\* Only a task that is not settled yet can add tasks to its job.
Discover(j, T) ==
  /\ job[j] = "open"
  /\ PendingOf(j) # {}
  /\ Enter(j, T)
  /\ UNCHANGED job

Settle(t, outcome) ==
  /\ task[t] = "pending"
  /\ job[owner[t]] = "open"
  /\ task' = [task EXCEPT ![t] = outcome]
  /\ UNCHANGED <<job, owner>>

Close(j) ==
  /\ job[j] = "open"
  /\ PendingOf(j) = {}
  /\ job' = [job EXCEPT ![j] = Verdict(j)]
  /\ UNCHANGED <<owner, task>>

Drop(S) ==
  /\ \A j \in S : job[j] \in {"open"} \union Verdicts
  /\ job' = [j \in Jobs |-> IF j \in S THEN "dropped" ELSE job[j]]
  /\ owner' = [t \in TaskIds |-> IF owner[t] \in S THEN NoJob ELSE owner[t]]
  /\ task' = [t \in TaskIds |-> IF owner[t] \in S THEN "none" ELSE task[t]]

Next ==
  \/ \E j \in Jobs :
       \/ Close(j)
       \/ \E T \in SUBSET TaskIds : Accept(j, T) \/ Discover(j, T)
  \/ \E t \in TaskIds : \E outcome \in {"done", "failed"} : Settle(t, outcome)
  \/ \E S \in SUBSET Jobs : Drop(S)

Spec == Init /\ [][Next]_vars

=============================================================================
