---------------------------- MODULE JobLifecycle ----------------------------
(***************************************************************************)
(* What core/durable_job.py promises of one durable job, whoever works on  *)
(* it: its status moves only along ALLOWED_JOB_TRANSITIONS, so a terminal  *)
(* status is never left, and a job that was submitted is settled in the    *)
(* end.  DurableJobs is the detailed specification that implements it.     *)
(***************************************************************************)
CONSTANT Jobs         \* the jobs the promise is made for

VARIABLE status       \* status[j]: lifecycle state of job j, "absent" before it is submitted

Terminal  == {"succeeded", "failed_permanent", "cancelled"}
Claimable == {"pending", "failed_retryable"}
Statuses  == {"absent", "running"} \cup Terminal \cup Claimable

(* ALLOWED_JOB_TRANSITIONS as a set of pairs, with the insertion of the row. *)
Allowed ==
  ({"absent"} \X {"pending"})
    \cup ({"pending"} \X {"running", "cancelled"})
    \cup ({"running"} \X ({"failed_retryable", "pending"} \cup Terminal))
    \cup ({"failed_retryable"} \X {"pending", "running", "cancelled"})

Init == status = [j \in Jobs |-> "absent"]

(* Any number of jobs may move in one step: recovery settles a whole batch. *)
Next ==
  /\ status' \in [Jobs -> Statuses]
  /\ \A j \in Jobs :
       status'[j] # status[j] => <<status[j], status'[j]>> \in Allowed

Safe == Init /\ [][Next]_status

(* A submitted job reaches a terminal status and keeps it. *)
Settles ==
  \A j \in Jobs : (status[j] # "absent") ~> [](status[j] \in Terminal)

Spec == Safe /\ Settles
=============================================================================
