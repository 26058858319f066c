----------------------------- MODULE DurableJobs -----------------------------
(***************************************************************************)
(* The durable job queue: rows of the table durable_jobs, the worker       *)
(* processes that claim, execute and finalise them, the requests that      *)
(* submit them and the callers that cancel them.                           *)
(*                                                                         *)
(* A worker keeps one database session.  Claiming a row locks it           *)
(* (FOR UPDATE SKIP LOCKED) and writes "running" WITHOUT committing: the   *)
(* lock, not the status, keeps other workers away until the worker commits *)
(* its result.  The resume handler is the exception: it commits half-way,  *)
(* which publishes "running" and gives up the lock.  The row columns below *)
(* are what is committed; mem is the attempt count a worker loaded when it *)
(* claimed, which it never reads again.                                    *)
(***************************************************************************)
EXTENDS Integers

CONSTANTS
  Workers,      \* worker processes
  Jobs,         \* submissions; a submission that inserts a row names it
  Publishing,   \* jobs whose handler commits half-way (resume.intelligence)
  Cancellable,  \* jobs that some caller cancels
  KeyOf,        \* KeyOf[j]: idempotency key of submission j, None if it has none
  Priority,     \* Priority[j]: the column priority
  MaxAttempts,  \* MaxAttempts[j]: the column max_attempts
  MaxFaults,    \* bound: crashes and database errors in one behaviour
  None          \* no worker, no job, no key

ASSUME JobConstants ==
  /\ None \notin Workers /\ None \notin Jobs
  /\ Publishing \subseteq Jobs /\ Cancellable \subseteq Jobs
  /\ Priority \in [Jobs -> Int]
  /\ MaxAttempts \in [Jobs -> Nat \ {0}]
  /\ MaxFaults \in Nat

VARIABLES
  status,    \* column status, "absent" while there is no such row
  attempts,  \* column attempt_count
  due,       \* scheduled_at and next_run_at are null or in the past
  stale,     \* locked_at is older than DURABLE_JOB_STALE_RUNNING_SECONDS
  created,   \* column created_at, as a sequence number
  lock,      \* the worker whose open transaction holds the row lock, or None
  pc,        \* where each worker is in process_one
  job,       \* the job each worker has claimed, or None
  mem,       \* attempt_count of the claimed job as the worker loaded it
  result,    \* how the handler ended
  sub,       \* progress of each submission
  canc,      \* progress of each cancellation
  inserted,  \* number of rows inserted
  faults,    \* crashes and database errors so far
  runs,      \* history: times job j was claimed
  sent,      \* history: times the handler of job j completed its effect
  lost       \* history: executions of j whose transaction was rolled back

rowVars    == <<status, attempts, due, stale, created, inserted>>
workerVars == <<pc, job, mem, result>>
clientVars == <<sub, canc>>
history    == <<runs, sent, lost>>
vars == <<rowVars, lock, workerVars, clientVars, faults, history>>

Terminal  == {"succeeded", "failed_permanent", "cancelled"}
Claimable_Cancelled == {"pending", "failed_retryable", "cancelled"}          \* mutant
Claimable_Failed == {"pending", "failed_retryable", "failed_permanent"}      \* mutant
Claimable == {"pending", "failed_retryable"}
Statuses  == {"absent", "running"} \cup Terminal \cup Claimable
Results   == {"ok", "retryable", "permanent"}

Init ==
  /\ status   = [j \in Jobs |-> "absent"]
  /\ attempts = [j \in Jobs |-> 0]
  /\ due      = [j \in Jobs |-> FALSE]
  /\ stale    = [j \in Jobs |-> FALSE]
  /\ created  = [j \in Jobs |-> 0]
  /\ lock     = [j \in Jobs |-> None]
  /\ pc       = [w \in Workers |-> "idle"]
  /\ job      = [w \in Workers |-> None]
  /\ mem      = [w \in Workers |-> 0]
  /\ result   = [w \in Workers |-> "ok"]
  /\ sub      = [j \in Jobs |-> "new"]
  /\ canc     = [j \in Jobs |-> "new"]
  /\ inserted = 0
  /\ faults   = 0
  /\ runs     = [j \in Jobs |-> 0]
  /\ sent     = [j \in Jobs |-> 0]
  /\ lost     = [j \in Jobs |-> 0]

-----------------------------------------------------------------------------
(* Submission: look the key up, then insert; the unique constraint on the    *)
(* key decides between two submissions that both found nothing.              *)

KeyTaken(j) ==
  /\ KeyOf[j] # None
  /\ \E k \in Jobs : status[k] # "absent" /\ KeyOf[k] = KeyOf[j]

(* submit, up to the early return on an existing row. *)
SubmitLookup(j) ==
  /\ sub[j] = "new"
  /\ sub' = [sub EXCEPT ![j] = IF KeyTaken(j) THEN "done" ELSE "checked"]
  /\ UNCHANGED <<rowVars, lock, workerVars, canc, faults, history>>

(* Mutant: the insert does not respect the unique key. *)
SubmitInsert_NoUniqueKey(j, now) ==
  /\ sub[j] = "checked"
  /\ sub' = [sub EXCEPT ![j] = "done"]
  /\ status' = [status EXCEPT ![j] = "pending"]
  /\ due' = [due EXCEPT ![j] = now]
  /\ created' = [created EXCEPT ![j] = inserted]
  /\ inserted' = inserted + 1
  /\ UNCHANGED <<attempts, stale, lock, workerVars, canc, faults, history>>

(* submit_idempotent: the insert commits, or fails on the key and the        *)
(* existing row is returned.                                                 *)
SubmitInsert(j, now) ==
  /\ sub[j] = "checked"
  /\ sub' = [sub EXCEPT ![j] = "done"]
  /\ IF KeyTaken(j)
       THEN UNCHANGED rowVars
       ELSE /\ status' = [status EXCEPT ![j] = "pending"]
            /\ due' = [due EXCEPT ![j] = now]
            /\ created' = [created EXCEPT ![j] = inserted]
            /\ inserted' = inserted + 1
            /\ UNCHANGED <<attempts, stale>>
  /\ UNCHANGED <<lock, workerVars, canc, faults, history>>

-----------------------------------------------------------------------------
(* The worker: process_one is Recover, Claim, then the handler, then one of  *)
(* the three finalisations.                                                  *)

Abandoned_Pending == {j \in Jobs : status[j] = "pending" /\ stale[j] /\ lock[j] = None}          \* mutant
Abandoned == {j \in Jobs : status[j] = "running" /\ stale[j] /\ lock[j] = None}

Exhausted_OffByOne(j, n) == n > MaxAttempts[j]                               \* mutant
Exhausted(j, n) == n >= MaxAttempts[j]

(* recover_stale_jobs: every abandoned row in one transaction. *)
Recover(w) ==
  /\ pc[w] = "idle"
  /\ pc' = [pc EXCEPT ![w] = "polling"]
  /\ attempts' = [j \in Jobs |->
       IF j \in Abandoned THEN attempts[j] + 1 ELSE attempts[j]]
  /\ status' = [j \in Jobs |->
       IF j \notin Abandoned THEN status[j]
       ELSE IF Exhausted(j, attempts[j] + 1) THEN "failed_permanent"
       ELSE "failed_retryable"]
  /\ due' = [j \in Jobs |->
       due[j] \/ (j \in Abandoned /\ ~Exhausted(j, attempts[j] + 1))]
  /\ stale' = [j \in Jobs |-> stale[j] /\ j \notin Abandoned]
  /\ UNCHANGED <<created, inserted, lock, job, mem, result, clientVars, faults, history>>

Runnable_New == {j \in Jobs : status[j] = "pending" /\ due[j] /\ lock[j] = None}  \* mutant
Runnable_Locked == {j \in Jobs : status[j] \in Claimable /\ due[j]}           \* mutant
Runnable == {j \in Jobs : status[j] \in Claimable /\ due[j] /\ lock[j] = None}

(* ORDER BY priority DESC, created_at ASC *)
Before(j, k) ==
  \/ Priority[j] > Priority[k]
  \/ Priority[j] = Priority[k] /\ created[j] =< created[k]

(* claim_next finds a row: it is locked, its columns are loaded. *)
Claim(w, j) ==
  /\ pc[w] = "polling"
  /\ j \in Runnable
  /\ \A k \in Runnable : Before(j, k)
  /\ lock' = [lock EXCEPT ![j] = w]
  /\ pc'   = [pc EXCEPT ![w] = "running"]
  /\ job'  = [job EXCEPT ![w] = j]
  /\ mem'  = [mem EXCEPT ![w] = attempts[j]]
  /\ runs' = [runs EXCEPT ![j] = @ + 1]
  /\ UNCHANGED <<rowVars, result, clientVars, faults, sent, lost>>

(* claim_next finds nothing: wait for the next poll. *)
ClaimNothing(w) ==
  /\ pc[w] = "polling"
  /\ Runnable = {}
  /\ pc' = [pc EXCEPT ![w] = "idle"]
  /\ UNCHANGED <<rowVars, lock, job, mem, result, clientVars, faults, history>>

(* The commit inside the resume handler: "running" becomes visible and the   *)
(* lock is gone while the worker still executes the job.                     *)
Publish(w, j) ==
  /\ pc[w] = "running" /\ job[w] = j
  /\ j \in Publishing
  /\ lock[j] = w
  /\ lock' = [lock EXCEPT ![j] = None]
  /\ status' = [status EXCEPT ![j] = "running"]
  /\ stale' = [stale EXCEPT ![j] = FALSE]
  /\ UNCHANGED <<attempts, due, created, inserted, workerVars, clientVars, faults, history>>

(* The handler ends: it returned, or raised a retryable or permanent error.  *)
(* A job type without a handler counts as a permanent error.  The resume     *)
(* handler cannot return before its commit.                                  *)
Handle(w, j, r) ==
  /\ pc[w] = "running" /\ job[w] = j
  /\ (r = "ok" /\ j \in Publishing) => lock[j] # w
  /\ pc' = [pc EXCEPT ![w] = "finishing"]
  /\ result' = [result EXCEPT ![w] = r]
  /\ sent' = IF r = "ok" THEN [sent EXCEPT ![j] = @ + 1] ELSE sent
  /\ UNCHANGED <<rowVars, lock, job, mem, clientVars, faults, runs, lost>>

(* The job object goes out of scope. *)
Forget(w) ==
  /\ job' = [job EXCEPT ![w] = None]
  /\ mem' = [mem EXCEPT ![w] = 0]
  /\ result' = [result EXCEPT ![w] = "ok"]

(* The UPDATE of a finalisation waits for the row lock of any other worker,  *)
(* then writes and commits; nothing in its WHERE clause asks whose job it is.*)
Finalize(w, j) ==
  /\ pc[w] = "finishing" /\ job[w] = j
  /\ lock[j] \in {None, w}
  /\ lock' = [lock EXCEPT ![j] = None]
  /\ stale' = [stale EXCEPT ![j] = FALSE]
  /\ pc' = [pc EXCEPT ![w] = "idle"]
  /\ Forget(w)
  /\ UNCHANGED <<created, inserted, clientVars, faults, history>>

(* Mutant: the new status is not written. *)
FinalizeSuccess_NoStatus(w, j) ==
  Finalize(w, j) /\ result[w] = "ok" /\ UNCHANGED <<status, attempts, due>>

(* _finalize_success does not write attempt_count. *)
FinalizeSuccess(w, j) ==
  /\ Finalize(w, j)
  /\ result[w] = "ok"
  /\ status' = [status EXCEPT ![j] = "succeeded"]
  /\ UNCHANGED <<attempts, due>>

(* Mutant: the attempt is taken back. *)
FinalizeRetryable_CountsDown(w, j) ==
  /\ Finalize(w, j)
  /\ result[w] = "retryable" /\ ~Exhausted(j, mem[w] + 1)
  /\ status' = [status EXCEPT ![j] = "failed_retryable"]
  /\ attempts' = [attempts EXCEPT ![j] = mem[w] - 1]
  /\ due' = [due EXCEPT ![j] = FALSE]

(* _finalize_retryable_failure with attempts left: backoff, so not yet due. *)
FinalizeRetryable(w, j) ==
  /\ Finalize(w, j)
  /\ result[w] = "retryable" /\ ~Exhausted(j, mem[w] + 1)
  /\ status' = [status EXCEPT ![j] = "failed_retryable"]
  /\ attempts' = [attempts EXCEPT ![j] = mem[w] + 1]
  /\ due' = [due EXCEPT ![j] = FALSE]

(* Mutant: the job that failed for good is queued again. *)
FinalizePermanent_Requeued(w, j) ==
  /\ Finalize(w, j)
  /\ \/ result[w] = "permanent"
     \/ result[w] = "retryable" /\ Exhausted(j, mem[w] + 1)
  /\ status' = [status EXCEPT ![j] = "failed_retryable"]
  /\ attempts' = [attempts EXCEPT ![j] = mem[w] + 1]
  /\ UNCHANGED due

(* _finalize_permanent_failure: a permanent error, or the last attempt. *)
FinalizePermanent(w, j) ==
  /\ Finalize(w, j)
  /\ \/ result[w] = "permanent"
     \/ result[w] = "retryable" /\ Exhausted(j, mem[w] + 1)
  /\ status' = [status EXCEPT ![j] = "failed_permanent"]
  /\ attempts' = [attempts EXCEPT ![j] = mem[w] + 1]
  /\ UNCHANGED due

(* A process that dies, and a database error that makes process_one roll     *)
(* back: the open transaction and its lock are gone.  A row that was not     *)
(* published is as it was before the claim; a published row stays "running". *)
Rollback(w, next) ==
  /\ pc[w] # "down"
  /\ faults < MaxFaults
  /\ faults' = faults + 1
  /\ pc' = [pc EXCEPT ![w] = next]
  /\ Forget(w)
  /\ lock' = [j \in Jobs |-> IF lock[j] = w THEN None ELSE lock[j]]
  /\ lost' = [j \in Jobs |-> IF lock[j] = w THEN lost[j] + 1 ELSE lost[j]]
  /\ UNCHANGED <<rowVars, clientVars, runs, sent>>

Crash(w)   == Rollback(w, "down")
DbError(w) == pc[w] \in {"running", "finishing"} /\ Rollback(w, "idle")

(* The supervisor starts run_worker_process again. *)
Restart(w) ==
  /\ pc[w] = "down"
  /\ pc' = [pc EXCEPT ![w] = "idle"]
  /\ UNCHANGED <<rowVars, lock, job, mem, result, clientVars, faults, history>>

-----------------------------------------------------------------------------
(* cancel: reads the row without a lock, then overwrites it.                 *)

CancelRead(j) ==
  /\ canc[j] = "new" /\ status[j] # "absent"
  /\ canc' = [canc EXCEPT ![j] = IF status[j] \in Terminal THEN "done" ELSE "read"]
  /\ UNCHANGED <<rowVars, lock, workerVars, sub, faults, history>>

CancelWrite(j) ==
  /\ canc[j] = "read"
  /\ lock[j] = None
  /\ canc' = [canc EXCEPT ![j] = "done"]
  /\ status' = [status EXCEPT ![j] = "cancelled"]
  /\ stale' = [stale EXCEPT ![j] = FALSE]
  /\ UNCHANGED <<attempts, due, created, inserted, lock, workerVars, sub, faults, history>>

(* Time passes: a backoff ends, a committed locked_at gets old. *)
BecomeDue(j) ==
  /\ status[j] \in Claimable /\ ~due[j]
  /\ due' = [due EXCEPT ![j] = TRUE]
  /\ UNCHANGED <<status, attempts, stale, created, inserted, lock, workerVars, clientVars, faults, history>>

BecomeStale(j) ==
  /\ status[j] = "running" /\ ~stale[j]
  /\ stale' = [stale EXCEPT ![j] = TRUE]
  /\ UNCHANGED <<status, attempts, due, created, inserted, lock, workerVars, clientVars, faults, history>>

-----------------------------------------------------------------------------
Execute(w) ==
  \/ Recover(w)
  \/ ClaimNothing(w)
  \/ \E j \in Jobs :
       \/ Claim(w, j)
       \/ \E r \in Results : Handle(w, j, r)
       \/ FinalizeSuccess(w, j) \/ FinalizeRetryable(w, j) \/ FinalizePermanent(w, j)

Client(j) ==
  \/ SubmitLookup(j)
  \/ \E now \in BOOLEAN : SubmitInsert(j, now)
  \/ j \in Cancellable /\ CancelRead(j)
  \/ j \in Cancellable /\ CancelWrite(j)

Next ==
  \/ \E w \in Workers :
       \/ Execute(w)
       \/ \E j \in Jobs : Publish(w, j)
       \/ Crash(w) \/ DbError(w) \/ Restart(w)
  \/ \E j \in Jobs : Client(j) \/ BecomeDue(j) \/ BecomeStale(j)

Spec == Init /\ [][Next]_vars

(* run_forever keeps polling and handlers return (they have timeouts), a     *)
(* dead process is restarted, and time passes.  Nobody has to submit or      *)
(* cancel, nothing has to fail.                                              *)
Fairness ==
  /\ \A w \in Workers : WF_vars(Execute(w)) /\ WF_vars(Restart(w))
  /\ \A j \in Jobs : WF_vars(BecomeDue(j)) /\ WF_vars(BecomeStale(j))

FairSpec == Spec /\ Fairness

-----------------------------------------------------------------------------
(* Every variable has its type. *)
TypeOK ==
  /\ status \in [Jobs -> Statuses]
  /\ attempts \in [Jobs -> Nat]
  /\ due \in [Jobs -> BOOLEAN] /\ stale \in [Jobs -> BOOLEAN]
  /\ created \in [Jobs -> Nat] /\ inserted \in Nat
  /\ lock \in [Jobs -> Workers \cup {None}]
  /\ pc \in [Workers -> {"idle", "polling", "running", "finishing", "down"}]
  /\ job \in [Workers -> Jobs \cup {None}]
  /\ mem \in [Workers -> Nat]
  /\ result \in [Workers -> Results]
  /\ sub \in [Jobs -> {"new", "checked", "done"}]
  /\ canc \in [Jobs -> {"new", "read", "done"}]
  /\ faults \in 0..MaxFaults
  /\ runs \in [Jobs -> Nat] /\ sent \in [Jobs -> Nat] /\ lost \in [Jobs -> Nat]

Working(w, j) == job[w] = j /\ pc[w] \in {"running", "finishing"}

(* While a job's "running" is not published, its row lock is what keeps two  *)
(* workers (claim_next in repositories/durable_job.py) from executing it at  *)
(* the same time, across polls, recoveries, crashes and cancellations.       *)
OneWorkerPerJob ==
  \A j \in Jobs \ Publishing : \A v, w \in Workers :
    Working(v, j) /\ Working(w, j) => v = w

(* max_attempts bounds the executions of a job: only an execution whose      *)
(* transaction was rolled back with its claim is not counted.                *)
WithinBudget(j) == runs[j] =< MaxAttempts[j] + lost[j]

AttemptBudget == \A j \in Jobs \ Publishing : WithinBudget(j)

(* The effect of a handler (an e-mail, a webhook call) is repeated only when *)
(* a rollback fell between the effect and the commit of its result: retries, *)
(* stale recovery and cancellation never repeat it.                          *)
EffectAtMostOncePerCommit == \A j \in Jobs \ Publishing : sent[j] =< 1 + lost[j]

(* Of the submissions with one idempotency key at most one owns a row, and   *)
(* none ends without such a row, whatever the order of their lookups and     *)
(* inserts (submit, submit_idempotent).                                      *)
IdempotentSubmission ==
  /\ \A j, k \in Jobs :
       /\ status[j] # "absent" /\ status[k] # "absent"
       /\ KeyOf[j] = KeyOf[k] /\ KeyOf[j] # None
       => j = k
  /\ \A j \in Jobs : sub[j] = "done" =>
       \E k \in Jobs : status[k] # "absent" /\ (k = j \/ (KeyOf[j] # None /\ KeyOf[k] = KeyOf[j]))

(* Once a cancellation is committed the job is never executed again and      *)
(* stays cancelled, although a claim or a finalisation may race with it.     *)
CancelledForGood ==
  [][\A j \in Jobs \ Publishing : status[j] = "cancelled" =>
       status'[j] = "cancelled" /\ runs'[j] = runs[j]]_vars

(* The inductive invariant behind the properties above.  Who holds a         *)
(* lock is working on the job, and on a job whose handler does not commit    *)
(* only the lock holder works; such a row never shows "running", and while   *)
(* it is locked it is what its worker loaded.                                *)
LocksFollowClaims ==
  /\ \A w \in Workers : job[w] # None <=> pc[w] \in {"running", "finishing"}
  /\ \A j \in Jobs, w \in Workers : lock[j] = w => job[w] = j
  /\ \A j \in Jobs \ Publishing, w \in Workers : job[w] = j => lock[j] = w

Open == Claimable \cup {"absent"}

RowsFollowLocks ==
  \A j \in Jobs \ Publishing :
    /\ status[j] # "running"
    /\ status[j] \in Open => attempts[j] < MaxAttempts[j]
    /\ \A w \in Workers :
         lock[j] = w => status[j] \in Claimable /\ mem[w] = attempts[j]

(* Claims are paid for by a counted attempt or a rollback, except the one    *)
(* under way; effects by a rollback, except one that is about to commit.     *)
HistoryIsPaidFor ==
  \A j \in Jobs \ Publishing :
    /\ runs[j] =< MaxAttempts[j] + lost[j] /\ sent[j] =< 1 + lost[j]
    /\ status[j] \in Open =>
         /\ runs[j] =< attempts[j] + lost[j] + (IF lock[j] = None THEN 0 ELSE 1)
         /\ \/ sent[j] =< lost[j]
            \/ \E w \in Workers :
                 lock[j] = w /\ pc[w] = "finishing" /\ result[w] = "ok"

(* A row appears when its submission ends; nobody claims or cancels before. *)
RowsFollowSubmissions ==
  /\ IdempotentSubmission
  /\ \A j \in Jobs : status[j] # "absent" => sub[j] = "done"
  /\ \A j \in Jobs : status[j] = "absent" =>
       canc[j] = "new" /\ \A w \in Workers : job[w] # j

QueueInvariant ==
  RowsFollowSubmissions /\ LocksFollowClaims /\ RowsFollowLocks /\ HistoryIsPaidFor

(* What ALLOWED_JOB_TRANSITIONS in core/durable_job.py and                   *)
(* test_execute_claimed_skips_terminal_jobs say of every job: no transition  *)
(* leaves a terminal status.                                                 *)
TerminalIsFinal ==
  [][\A j \in Jobs : status[j] \in Terminal => status'[j] = status[j]]_vars

(* max_attempts for every job, the ones whose handler commits included       *)
(* (test_max_retry_attempts_respected).                                      *)
AttemptBudgetOfAllJobs == \A j \in Jobs : WithinBudget(j)

-----------------------------------------------------------------------------
(* The status a job has for its own worker: "running" from the claim on,     *)
(* committed or not.                                                         *)
Effective(j) == IF lock[j] # None THEN "running" ELSE status[j]

(* Jobs nobody cancels and whose handler does not commit keep the promise of *)
(* core/durable_job.py; the others break it (TerminalIsFinal).               *)
Undisturbed == Jobs \ (Publishing \cup Cancellable)

Lifecycle == INSTANCE JobLifecycle
  WITH Jobs <- Undisturbed, status <- [j \in Undisturbed |-> Effective(j)]

(* Every step of the queue is a step of JobLifecycle, or none, for the       *)
(* undisturbed jobs: ALLOWED_JOB_TRANSITIONS is respected.                   *)
ImplementsLifecycle == Lifecycle!Safe

(* Every undisturbed job that was submitted reaches a terminal status and    *)
(* keeps it, through crashes, retries and backoff.                           *)
EverySubmittedJobSettles == Lifecycle!Settles

(* A job whose handler commits settles too: a worker that dies after the     *)
(* commit leaves a "running" row, which stale recovery must bring back, and  *)
(* overwritten results must come to an end.                                  *)
PublishedJobsSettle ==
  \A j \in Publishing : (status[j] # "absent") ~> [](status[j] \in Terminal)
=============================================================================
