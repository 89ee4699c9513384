------------------------------ MODULE Cleanup ------------------------------
(***************************************************************************)
(* The cleanup loop (internal/cleanup/cleanup.go), run by every process    *)
(* whose mode enables it.  One sweep is two statements outside of any      *)
(* transaction, so other processes act between them.                       *)
(***************************************************************************)
EXTENDS Store

CONSTANT Sweepers  \* the processes that run the loop; {} when cleanup is off

VARIABLE sweep     \* per sweeper, the statement it executes next

CleanupInit == sweep = [s \in Sweepers |-> "cancel"]

CleanupTypeOK == sweep \in [Sweepers -> {"cancel", "delete"}]

Expired == {j \in Jobs : JobExists(j) /\ "ttl" \in past[j]}

\* Mutant: AND instead of OR between the two limits.
Deletable_BothLimits ==
  {j \in Jobs : JobExists(j) /\ {"ttl", "deadline"} \subseteq past[j]}

\* The WHERE clause of the DELETE: AND binds tighter than OR.
Deletable == Expired \union {j \in Jobs : JobExists(j) /\ "deadline" \in past[j]}

-----------------------------------------------------------------------------
\* Mutant: the UPDATE forgets that closed jobs keep their status.
CancelExpired_FinishedToo(s) ==
  /\ sweep[s] = "cancel"
  /\ jobs' = [j \in Jobs |-> IF j \in Expired THEN "cancelled" ELSE jobs[j]]
  /\ sweep' = [sweep EXCEPT ![s] = "delete"]
  /\ NoFault
  /\ UNCHANGED <<tasks, nextId, docs, mapped, seen, past>>

CancelExpired(s) ==
  /\ sweep[s] = "cancel"
  /\ \/ /\ jobs' = [j \in Jobs |->
                      IF j \in Expired /\ jobs[j] \notin Finished
                      THEN "cancelled" ELSE jobs[j]]
        /\ sweep' = [sweep EXCEPT ![s] = "delete"]
        /\ NoFault
     \/ UNCHANGED <<jobs, sweep>> /\ Fault
  /\ UNCHANGED <<tasks, nextId, docs, mapped, seen, past>>

DeleteExpired(s) ==
  /\ sweep[s] = "delete"
  /\ sweep' = [sweep EXCEPT ![s] = "cancel"]
  /\ \/ DeleteJobs(Deletable) /\ NoFault
     \/ UNCHANGED <<jobs, tasks, docs, mapped>> /\ Fault
  /\ UNCHANGED <<nextId, seen, past>>

SweepStep(s) == CancelExpired(s) \/ DeleteExpired(s)

=============================================================================
