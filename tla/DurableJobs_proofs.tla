-------------------------- MODULE DurableJobs_proofs --------------------------
(***************************************************************************)
(* Theorems about DurableJobs for every set of workers and jobs, every     *)
(* assignment of keys, priorities and attempt limits, and any number of    *)
(* faults.                                                                 *)
(***************************************************************************)
EXTENDS DurableJobs, TLAPS

(* Every action keeps the types. *)
LEMMA TypePreserved == TypeOK /\ [Next]_vars => TypeOK'
<1> SUFFICES ASSUME TypeOK, [Next]_vars PROVE TypeOK'
  OBVIOUS
<1> USE JobConstants DEF TypeOK, Statuses, Terminal, Claimable, Results,
      rowVars, workerVars, clientVars, history
<1>1. ASSUME NEW j \in Jobs, SubmitLookup(j) PROVE TypeOK'
  BY <1>1 DEF SubmitLookup
<1>2. ASSUME NEW j \in Jobs, NEW now \in BOOLEAN, SubmitInsert(j, now) PROVE TypeOK'
  BY <1>2 DEF SubmitInsert
<1>3. ASSUME NEW w \in Workers, Recover(w) PROVE TypeOK'
  <2>1. status' \in [Jobs -> Statuses]
    BY <1>3 DEF Recover
  <2>2. attempts' \in [Jobs -> Nat]
    BY <1>3 DEF Recover
  <2>3. due' \in [Jobs -> BOOLEAN] /\ stale' \in [Jobs -> BOOLEAN]
    BY <1>3 DEF Recover
  <2> QED
    BY <1>3, <2>1, <2>2, <2>3 DEF Recover
<1>4. ASSUME NEW w \in Workers, NEW j \in Jobs, Claim(w, j) PROVE TypeOK'
  BY <1>4 DEF Claim
<1>5. ASSUME NEW w \in Workers, ClaimNothing(w) PROVE TypeOK'
  BY <1>5 DEF ClaimNothing
<1>6. ASSUME NEW w \in Workers, NEW j \in Jobs, Publish(w, j) PROVE TypeOK'
  BY <1>6 DEF Publish
<1>7. ASSUME NEW w \in Workers, NEW j \in Jobs, NEW r \in Results, Handle(w, j, r)
      PROVE  TypeOK'
  BY <1>7 DEF Handle
<1>8. ASSUME NEW w \in Workers, NEW j \in Jobs,
             FinalizeSuccess(w, j) \/ FinalizeRetryable(w, j) \/ FinalizePermanent(w, j)
      PROVE TypeOK'
  <2>1. Finalize(w, j)
    BY <1>8 DEF FinalizeSuccess, FinalizeRetryable, FinalizePermanent
  <2>2. CASE FinalizeSuccess(w, j)
    BY <2>1, <2>2 DEF FinalizeSuccess, Finalize, Forget
  <2>3. CASE FinalizeRetryable(w, j)
    BY <2>1, <2>3 DEF FinalizeRetryable, Finalize, Forget
  <2>4. CASE FinalizePermanent(w, j)
    BY <2>1, <2>4 DEF FinalizePermanent, Finalize, Forget
  <2> QED
    BY <1>8, <2>2, <2>3, <2>4
<1>9. ASSUME NEW w \in Workers, Crash(w) \/ DbError(w) PROVE TypeOK'
  <2>1. PICK next \in {"down", "idle"} : Rollback(w, next)
    BY <1>9 DEF Crash, DbError
  <2>2. faults' \in 0..MaxFaults
    BY <2>1 DEF Rollback
  <2>3. lock' \in [Jobs -> Workers \cup {None}] /\ lost' \in [Jobs -> Nat]
    BY <2>1 DEF Rollback
  <2>4. /\ pc' \in [Workers -> {"idle", "polling", "running", "finishing", "down"}]
        /\ job' \in [Workers -> Jobs \cup {None}]
        /\ mem' \in [Workers -> Nat]
        /\ result' \in [Workers -> Results]
    BY <2>1 DEF Rollback, Forget
  <2> QED
    BY <2>1, <2>2, <2>3, <2>4 DEF Rollback
<1>10. ASSUME NEW w \in Workers, Restart(w) PROVE TypeOK'
  BY <1>10 DEF Restart
<1>11. ASSUME NEW j \in Jobs, CancelRead(j) PROVE TypeOK'
  BY <1>11 DEF CancelRead
<1>12. ASSUME NEW j \in Jobs, CancelWrite(j) PROVE TypeOK'
  BY <1>12 DEF CancelWrite
<1>13. ASSUME NEW j \in Jobs, BecomeDue(j) PROVE TypeOK'
  BY <1>13 DEF BecomeDue
<1>14. ASSUME NEW j \in Jobs, BecomeStale(j) PROVE TypeOK'
  BY <1>14 DEF BecomeStale
<1>15. CASE UNCHANGED vars
  BY <1>15 DEF vars
<1> HIDE DEF TypeOK
<1> QED
  BY <1>1, <1>2, <1>3, <1>4, <1>5, <1>6, <1>7, <1>8, <1>9, <1>10, <1>11, <1>12, <1>13,
     <1>14, <1>15 DEF Next, Execute, Client

(* Every reachable state is well typed. *)
THEOREM TypeCorrect == Spec => []TypeOK
<1>1. Init => TypeOK
  BY JobConstants DEF Init, TypeOK, Statuses, Terminal, Claimable, Results
<1> QED
  BY <1>1, TypePreserved, PTL DEF Spec

(* Submissions insert at most one row per key. *)
LEMMA SubmissionsPreserved ==
  TypeOK /\ RowsFollowSubmissions /\ LocksFollowClaims /\ [Next]_vars => RowsFollowSubmissions'
<1> SUFFICES ASSUME TypeOK, RowsFollowSubmissions, LocksFollowClaims, [Next]_vars
         PROVE RowsFollowSubmissions'
  OBVIOUS
<1> USE JobConstants
    DEF TypeOK, RowsFollowSubmissions, IdempotentSubmission, LocksFollowClaims, Claimable,
      Statuses, Terminal, rowVars, workerVars, clientVars, history
<1>0. ASSUME sub' = sub, \A k \in Jobs : status'[k] = "absent" <=> status[k] = "absent"
      PROVE IdempotentSubmission' /\ \A k \in Jobs : status'[k] # "absent" => sub'[k] = "done"
  BY <1>0
<1>1. ASSUME NEW j \in Jobs, SubmitLookup(j)
      PROVE RowsFollowSubmissions'
  BY <1>1 DEF SubmitLookup, KeyTaken
<1>2. ASSUME NEW j \in Jobs, NEW now \in BOOLEAN, SubmitInsert(j, now)
      PROVE RowsFollowSubmissions'
  BY <1>2 DEF SubmitInsert, KeyTaken
<1>3. ASSUME NEW w \in Workers, Recover(w)
      PROVE RowsFollowSubmissions'
  BY <1>3, <1>0 DEF Recover, Abandoned
<1>4. ASSUME NEW w \in Workers, NEW j \in Jobs, Claim(w, j)
      PROVE RowsFollowSubmissions'
  BY <1>4, <1>0 DEF Claim, Runnable
<1>5. ASSUME NEW w \in Workers, ClaimNothing(w)
      PROVE RowsFollowSubmissions'
  BY <1>5, <1>0 DEF ClaimNothing
<1>6. ASSUME NEW w \in Workers, NEW j \in Jobs, Publish(w, j)
      PROVE RowsFollowSubmissions'
  <2>1. sub' = sub /\ \A k \in Jobs : status'[k] = "absent" <=> status[k] = "absent"
    BY <1>6 DEF Publish
  <2>2. \A k \in Jobs : status'[k] = "absent" =>
          canc'[k] = "new" /\ \A v \in Workers : job'[v] # k
    BY <1>6, <2>1 DEF Publish
  <2> QED
    BY <1>0, <2>1, <2>2
<1>7. ASSUME NEW w \in Workers, NEW j \in Jobs, NEW r \in Results, Handle(w, j, r)
      PROVE RowsFollowSubmissions'
  BY <1>7, <1>0 DEF Handle
<1>8. ASSUME NEW w \in Workers, NEW j \in Jobs, FinalizeSuccess(w, j)
      PROVE RowsFollowSubmissions'
  <2>1. sub' = sub /\ \A k \in Jobs : status'[k] = "absent" <=> status[k] = "absent"
    BY <1>8 DEF FinalizeSuccess, Finalize, Forget
  <2>2. \A k \in Jobs : status'[k] = "absent" =>
          canc'[k] = "new" /\ \A v \in Workers : job'[v] # k
    BY <1>8, <2>1 DEF FinalizeSuccess, Finalize, Forget
  <2> QED
    BY <1>0, <2>1, <2>2
<1>9. ASSUME NEW w \in Workers, NEW j \in Jobs, FinalizeRetryable(w, j)
      PROVE RowsFollowSubmissions'
  <2>1. sub' = sub /\ \A k \in Jobs : status'[k] = "absent" <=> status[k] = "absent"
    BY <1>9 DEF FinalizeRetryable, Finalize, Forget, Exhausted
  <2>2. \A k \in Jobs : status'[k] = "absent" =>
          canc'[k] = "new" /\ \A v \in Workers : job'[v] # k
    BY <1>9, <2>1 DEF FinalizeRetryable, Finalize, Forget, Exhausted
  <2> QED
    BY <1>0, <2>1, <2>2
<1>10. ASSUME NEW w \in Workers, NEW j \in Jobs, FinalizePermanent(w, j)
      PROVE RowsFollowSubmissions'
  <2>1. sub' = sub /\ \A k \in Jobs : status'[k] = "absent" <=> status[k] = "absent"
    BY <1>10 DEF FinalizePermanent, Finalize, Forget, Exhausted
  <2>2. \A k \in Jobs : status'[k] = "absent" =>
          canc'[k] = "new" /\ \A v \in Workers : job'[v] # k
    BY <1>10, <2>1 DEF FinalizePermanent, Finalize, Forget, Exhausted
  <2> QED
    BY <1>0, <2>1, <2>2
<1>11. ASSUME NEW w \in Workers, Crash(w)
      PROVE RowsFollowSubmissions'
  BY <1>11, <1>0 DEF Crash, Rollback, Forget
<1>12. ASSUME NEW w \in Workers, DbError(w)
      PROVE RowsFollowSubmissions'
  BY <1>12, <1>0 DEF DbError, Rollback, Forget
<1>13. ASSUME NEW w \in Workers, Restart(w)
      PROVE RowsFollowSubmissions'
  BY <1>13, <1>0 DEF Restart
<1>14. ASSUME NEW j \in Jobs, CancelRead(j)
      PROVE RowsFollowSubmissions'
  <2>1. sub' = sub /\ \A k \in Jobs : status'[k] = "absent" <=> status[k] = "absent"
    BY <1>14 DEF CancelRead
  <2>2. \A k \in Jobs : status'[k] = "absent" =>
          canc'[k] = "new" /\ \A v \in Workers : job'[v] # k
    BY <1>14, <2>1 DEF CancelRead
  <2> QED
    BY <1>0, <2>1, <2>2
<1>15. ASSUME NEW j \in Jobs, CancelWrite(j)
      PROVE RowsFollowSubmissions'
  <2>1. sub' = sub /\ \A k \in Jobs : status'[k] = "absent" <=> status[k] = "absent"
    BY <1>15 DEF CancelWrite
  <2>2. \A k \in Jobs : status'[k] = "absent" =>
          canc'[k] = "new" /\ \A v \in Workers : job'[v] # k
    BY <1>15, <2>1 DEF CancelWrite
  <2> QED
    BY <1>0, <2>1, <2>2
<1>16. ASSUME NEW j \in Jobs, BecomeDue(j)
      PROVE RowsFollowSubmissions'
  BY <1>16, <1>0 DEF BecomeDue
<1>17. ASSUME NEW j \in Jobs, BecomeStale(j)
      PROVE RowsFollowSubmissions'
  BY <1>17, <1>0 DEF BecomeStale
<1>18. CASE UNCHANGED vars
  BY <1>18 DEF vars
<1> QED
  BY <1>1, <1>2, <1>3, <1>4, <1>5, <1>6, <1>7, <1>8, <1>9,
     <1>10, <1>11, <1>12, <1>13, <1>14, <1>15, <1>16, <1>17, <1>18
  DEF Next, Execute, Client

(* Locks stay with the workers that claimed. *)
LEMMA LocksPreserved ==
  TypeOK /\ LocksFollowClaims /\ [Next]_vars => LocksFollowClaims'
<1> SUFFICES ASSUME TypeOK, LocksFollowClaims, [Next]_vars PROVE LocksFollowClaims'
  OBVIOUS
<1> USE JobConstants DEF TypeOK, LocksFollowClaims,
      rowVars, workerVars, clientVars, history
<1>1. ASSUME NEW j \in Jobs, SubmitLookup(j)
      PROVE LocksFollowClaims'
  BY <1>1 DEF SubmitLookup
<1>2. ASSUME NEW j \in Jobs, NEW now \in BOOLEAN, SubmitInsert(j, now)
      PROVE LocksFollowClaims'
  BY <1>2 DEF SubmitInsert
<1>3. ASSUME NEW w \in Workers, Recover(w)
      PROVE LocksFollowClaims'
  BY <1>3 DEF Recover, Abandoned
<1>4. ASSUME NEW w \in Workers, NEW j \in Jobs, Claim(w, j)
      PROVE LocksFollowClaims'
  BY <1>4 DEF Claim, Runnable
<1>5. ASSUME NEW w \in Workers, ClaimNothing(w)
      PROVE LocksFollowClaims'
  BY <1>5 DEF ClaimNothing
<1>6. ASSUME NEW w \in Workers, NEW j \in Jobs, Publish(w, j)
      PROVE LocksFollowClaims'
  BY <1>6 DEF Publish
<1>7. ASSUME NEW w \in Workers, NEW j \in Jobs, NEW r \in Results, Handle(w, j, r)
      PROVE LocksFollowClaims'
  BY <1>7 DEF Handle
<1>8. ASSUME NEW w \in Workers, NEW j \in Jobs, FinalizeSuccess(w, j)
      PROVE LocksFollowClaims'
  BY <1>8 DEF FinalizeSuccess, Finalize, Forget
<1>9. ASSUME NEW w \in Workers, NEW j \in Jobs, FinalizeRetryable(w, j)
      PROVE LocksFollowClaims'
  BY <1>9 DEF FinalizeRetryable, Finalize, Forget, Exhausted
<1>10. ASSUME NEW w \in Workers, NEW j \in Jobs, FinalizePermanent(w, j)
      PROVE LocksFollowClaims'
  BY <1>10 DEF FinalizePermanent, Finalize, Forget, Exhausted
<1>11. ASSUME NEW w \in Workers, Crash(w)
      PROVE LocksFollowClaims'
  BY <1>11 DEF Crash, Rollback, Forget
<1>12. ASSUME NEW w \in Workers, DbError(w)
      PROVE LocksFollowClaims'
  BY <1>12 DEF DbError, Rollback, Forget
<1>13. ASSUME NEW w \in Workers, Restart(w)
      PROVE LocksFollowClaims'
  BY <1>13 DEF Restart
<1>14. ASSUME NEW j \in Jobs, CancelRead(j)
      PROVE LocksFollowClaims'
  BY <1>14 DEF CancelRead
<1>15. ASSUME NEW j \in Jobs, CancelWrite(j)
      PROVE LocksFollowClaims'
  BY <1>15 DEF CancelWrite
<1>16. ASSUME NEW j \in Jobs, BecomeDue(j)
      PROVE LocksFollowClaims'
  BY <1>16 DEF BecomeDue
<1>17. ASSUME NEW j \in Jobs, BecomeStale(j)
      PROVE LocksFollowClaims'
  BY <1>17 DEF BecomeStale
<1>18. CASE UNCHANGED vars
  BY <1>18 DEF vars
<1> QED
  BY <1>1, <1>2, <1>3, <1>4, <1>5, <1>6, <1>7, <1>8, <1>9,
     <1>10, <1>11, <1>12, <1>13, <1>14, <1>15, <1>16, <1>17, <1>18
  DEF Next, Execute, Client

(* A locked row is not changed behind its worker's back. *)
LEMMA RowsPreserved ==
  /\ TypeOK /\ RowsFollowSubmissions /\ LocksFollowClaims /\ RowsFollowLocks
  /\ [Next]_vars
  => RowsFollowLocks'
<1> SUFFICES ASSUME TypeOK, RowsFollowSubmissions, LocksFollowClaims, RowsFollowLocks, [Next]_vars
         PROVE RowsFollowLocks'
  OBVIOUS
<1> USE JobConstants
    DEF TypeOK, RowsFollowSubmissions, LocksFollowClaims, RowsFollowLocks, Open, Claimable,
      Terminal, Statuses,
      rowVars, workerVars, clientVars, history
<1>1. ASSUME NEW j \in Jobs, SubmitLookup(j)
      PROVE RowsFollowLocks'
  BY <1>1 DEF SubmitLookup
<1>2. ASSUME NEW j \in Jobs, NEW now \in BOOLEAN, SubmitInsert(j, now)
      PROVE RowsFollowLocks'
  BY <1>2 DEF SubmitInsert
<1>3. ASSUME NEW w \in Workers, Recover(w)
      PROVE RowsFollowLocks'
  BY <1>3 DEF Recover, Abandoned
<1>4. ASSUME NEW w \in Workers, NEW j \in Jobs, Claim(w, j)
      PROVE RowsFollowLocks'
  BY <1>4 DEF Claim, Runnable
<1>5. ASSUME NEW w \in Workers, ClaimNothing(w)
      PROVE RowsFollowLocks'
  BY <1>5 DEF ClaimNothing
<1>6. ASSUME NEW w \in Workers, NEW j \in Jobs, Publish(w, j)
      PROVE RowsFollowLocks'
  BY <1>6 DEF Publish
<1>7. ASSUME NEW w \in Workers, NEW j \in Jobs, NEW r \in Results, Handle(w, j, r)
      PROVE RowsFollowLocks'
  BY <1>7 DEF Handle
<1>8. ASSUME NEW w \in Workers, NEW j \in Jobs, FinalizeSuccess(w, j)
      PROVE RowsFollowLocks'
  BY <1>8 DEF FinalizeSuccess, Finalize, Forget
<1>9. ASSUME NEW w \in Workers, NEW j \in Jobs, FinalizeRetryable(w, j)
      PROVE RowsFollowLocks'
  BY <1>9 DEF FinalizeRetryable, Finalize, Forget, Exhausted
<1>10. ASSUME NEW w \in Workers, NEW j \in Jobs, FinalizePermanent(w, j)
      PROVE RowsFollowLocks'
  BY <1>10 DEF FinalizePermanent, Finalize, Forget, Exhausted
<1>11. ASSUME NEW w \in Workers, Crash(w)
      PROVE RowsFollowLocks'
  BY <1>11 DEF Crash, Rollback, Forget
<1>12. ASSUME NEW w \in Workers, DbError(w)
      PROVE RowsFollowLocks'
  BY <1>12 DEF DbError, Rollback, Forget
<1>13. ASSUME NEW w \in Workers, Restart(w)
      PROVE RowsFollowLocks'
  BY <1>13 DEF Restart
<1>14. ASSUME NEW j \in Jobs, CancelRead(j)
      PROVE RowsFollowLocks'
  BY <1>14 DEF CancelRead
<1>15. ASSUME NEW j \in Jobs, CancelWrite(j)
      PROVE RowsFollowLocks'
  BY <1>15 DEF CancelWrite
<1>16. ASSUME NEW j \in Jobs, BecomeDue(j)
      PROVE RowsFollowLocks'
  BY <1>16 DEF BecomeDue
<1>17. ASSUME NEW j \in Jobs, BecomeStale(j)
      PROVE RowsFollowLocks'
  BY <1>17 DEF BecomeStale
<1>18. CASE UNCHANGED vars
  BY <1>18 DEF vars
<1> QED
  BY <1>1, <1>2, <1>3, <1>4, <1>5, <1>6, <1>7, <1>8, <1>9,
     <1>10, <1>11, <1>12, <1>13, <1>14, <1>15, <1>16, <1>17, <1>18
  DEF Next, Execute, Client

(* Executions and effects stay paid for. *)
LEMMA HistoryPreserved ==
  /\ TypeOK /\ RowsFollowSubmissions /\ LocksFollowClaims /\ RowsFollowLocks
  /\ HistoryIsPaidFor /\ [Next]_vars
  => HistoryIsPaidFor'
<1> SUFFICES ASSUME TypeOK, RowsFollowSubmissions, LocksFollowClaims, RowsFollowLocks,
                    HistoryIsPaidFor, [Next]_vars
         PROVE HistoryIsPaidFor'
  OBVIOUS
<1> USE JobConstants
    DEF TypeOK, RowsFollowSubmissions, LocksFollowClaims, RowsFollowLocks, HistoryIsPaidFor,
      Open, Claimable, Terminal, Statuses,
      rowVars, workerVars, clientVars, history
<1>1. ASSUME NEW j \in Jobs, SubmitLookup(j)
      PROVE HistoryIsPaidFor'
  BY <1>1 DEF SubmitLookup
<1>2. ASSUME NEW j \in Jobs, NEW now \in BOOLEAN, SubmitInsert(j, now)
      PROVE HistoryIsPaidFor'
  BY <1>2 DEF SubmitInsert
<1>3. ASSUME NEW w \in Workers, Recover(w)
      PROVE HistoryIsPaidFor'
  BY <1>3 DEF Recover, Abandoned
<1>4. ASSUME NEW w \in Workers, NEW j \in Jobs, Claim(w, j)
      PROVE HistoryIsPaidFor'
  BY <1>4 DEF Claim, Runnable
<1>5. ASSUME NEW w \in Workers, ClaimNothing(w)
      PROVE HistoryIsPaidFor'
  BY <1>5 DEF ClaimNothing
<1>6. ASSUME NEW w \in Workers, NEW j \in Jobs, Publish(w, j)
      PROVE HistoryIsPaidFor'
  BY <1>6 DEF Publish
<1>7. ASSUME NEW w \in Workers, NEW j \in Jobs, NEW r \in Results, Handle(w, j, r)
      PROVE HistoryIsPaidFor'
  BY <1>7 DEF Handle
<1>8. ASSUME NEW w \in Workers, NEW j \in Jobs, FinalizeSuccess(w, j)
      PROVE HistoryIsPaidFor'
  BY <1>8 DEF FinalizeSuccess, Finalize, Forget
<1>9. ASSUME NEW w \in Workers, NEW j \in Jobs, FinalizeRetryable(w, j)
      PROVE HistoryIsPaidFor'
  BY <1>9 DEF FinalizeRetryable, Finalize, Forget, Exhausted
<1>10. ASSUME NEW w \in Workers, NEW j \in Jobs, FinalizePermanent(w, j)
      PROVE HistoryIsPaidFor'
  BY <1>10 DEF FinalizePermanent, Finalize, Forget, Exhausted
<1>11. ASSUME NEW w \in Workers, Crash(w)
      PROVE HistoryIsPaidFor'
  BY <1>11 DEF Crash, Rollback, Forget
<1>12. ASSUME NEW w \in Workers, DbError(w)
      PROVE HistoryIsPaidFor'
  BY <1>12 DEF DbError, Rollback, Forget
<1>13. ASSUME NEW w \in Workers, Restart(w)
      PROVE HistoryIsPaidFor'
  BY <1>13 DEF Restart
<1>14. ASSUME NEW j \in Jobs, CancelRead(j)
      PROVE HistoryIsPaidFor'
  BY <1>14 DEF CancelRead
<1>15. ASSUME NEW j \in Jobs, CancelWrite(j)
      PROVE HistoryIsPaidFor'
  BY <1>15 DEF CancelWrite
<1>16. ASSUME NEW j \in Jobs, BecomeDue(j)
      PROVE HistoryIsPaidFor'
  BY <1>16 DEF BecomeDue
<1>17. ASSUME NEW j \in Jobs, BecomeStale(j)
      PROVE HistoryIsPaidFor'
  BY <1>17 DEF BecomeStale
<1>18. CASE UNCHANGED vars
  BY <1>18 DEF vars
<1> QED
  BY <1>1, <1>2, <1>3, <1>4, <1>5, <1>6, <1>7, <1>8, <1>9,
     <1>10, <1>11, <1>12, <1>13, <1>14, <1>15, <1>16, <1>17, <1>18
  DEF Next, Execute, Client

(* The inductive invariant holds. *)
THEOREM QueueInvariantHolds == Spec => []QueueInvariant
<1>1. Init => QueueInvariant
  BY JobConstants DEF Init, QueueInvariant, RowsFollowSubmissions, IdempotentSubmission,
    LocksFollowClaims, RowsFollowLocks, HistoryIsPaidFor, Open, Claimable
<1>2. TypeOK /\ QueueInvariant /\ [Next]_vars => QueueInvariant'
  BY SubmissionsPreserved, LocksPreserved, RowsPreserved, HistoryPreserved
  DEF QueueInvariant
<1> QED
  BY <1>1, <1>2, TypeCorrect, PTL DEF Spec

(* A job whose handler does not commit is executed by one worker at a time. *)
THEOREM OneWorker == Spec => []OneWorkerPerJob
<1>1. TypeOK /\ QueueInvariant => OneWorkerPerJob
  BY JobConstants DEF TypeOK, QueueInvariant, LocksFollowClaims, OneWorkerPerJob, Working
<1> QED
  BY <1>1, QueueInvariantHolds, TypeCorrect, PTL

(* It is executed max_attempts times, rolled back executions apart.          *)
THEOREM Budget == Spec => []AttemptBudget
<1>1. QueueInvariant => AttemptBudget
  BY DEF QueueInvariant, HistoryIsPaidFor, AttemptBudget, WithinBudget
<1> QED
  BY <1>1, QueueInvariantHolds, PTL

(* Its effect is repeated only after an execution that was rolled back.      *)
THEOREM EffectIsRepeatedOnlyAfterRollback == Spec => []EffectAtMostOncePerCommit
<1>1. QueueInvariant => EffectAtMostOncePerCommit
  BY DEF QueueInvariant, HistoryIsPaidFor, EffectAtMostOncePerCommit
<1> QED
  BY <1>1, QueueInvariantHolds, PTL

(* One row per idempotency key, and no submission without its row. *)
THEOREM Idempotence == Spec => []IdempotentSubmission
<1>1. QueueInvariant => IdempotentSubmission
  BY DEF QueueInvariant, RowsFollowSubmissions
<1> QED
  BY <1>1, QueueInvariantHolds, PTL

(* A committed cancellation is not undone, and the job is not executed again. *)
THEOREM CancelledStays == Spec => CancelledForGood
<1>1. TypeOK /\ QueueInvariant /\ [Next]_vars =>
        [\A j \in Jobs \ Publishing : status[j] = "cancelled" =>
           status'[j] = "cancelled" /\ runs'[j] = runs[j]]_vars
  <2> SUFFICES ASSUME TypeOK, QueueInvariant, [Next]_vars,
                      NEW c \in Jobs \ Publishing, status[c] = "cancelled"
               PROVE  status'[c] = "cancelled" /\ runs'[c] = runs[c]
    OBVIOUS
  <2>1. sub[c] = "done" /\ \A w \in Workers : job[w] # c
    BY JobConstants DEF TypeOK, QueueInvariant, RowsFollowSubmissions, LocksFollowClaims,
      RowsFollowLocks, Claimable
  <2> USE <2>1, JobConstants DEF TypeOK, rowVars, workerVars, clientVars, history
  <2>2. ASSUME NEW j \in Jobs, SubmitLookup(j)
        PROVE status'[c] = "cancelled" /\ runs'[c] = runs[c]
    BY <2>2 DEF SubmitLookup
  <2>3. ASSUME NEW j \in Jobs, NEW now \in BOOLEAN, SubmitInsert(j, now)
        PROVE status'[c] = "cancelled" /\ runs'[c] = runs[c]
    BY <2>3 DEF SubmitInsert
  <2>4. ASSUME NEW w \in Workers, Recover(w)
        PROVE status'[c] = "cancelled" /\ runs'[c] = runs[c]
    BY <2>4 DEF Recover, Abandoned
  <2>5. ASSUME NEW w \in Workers, NEW j \in Jobs, Claim(w, j)
        PROVE status'[c] = "cancelled" /\ runs'[c] = runs[c]
    BY <2>5 DEF Claim, Runnable, Claimable
  <2>6. ASSUME NEW w \in Workers, ClaimNothing(w)
        PROVE status'[c] = "cancelled" /\ runs'[c] = runs[c]
    BY <2>6 DEF ClaimNothing
  <2>7. ASSUME NEW w \in Workers, NEW j \in Jobs, Publish(w, j)
        PROVE status'[c] = "cancelled" /\ runs'[c] = runs[c]
    BY <2>7 DEF Publish
  <2>8. ASSUME NEW w \in Workers, NEW j \in Jobs, NEW r \in Results, Handle(w, j, r)
        PROVE status'[c] = "cancelled" /\ runs'[c] = runs[c]
    BY <2>8 DEF Handle
  <2>9. ASSUME NEW w \in Workers, NEW j \in Jobs, FinalizeSuccess(w, j)
        PROVE status'[c] = "cancelled" /\ runs'[c] = runs[c]
    BY <2>9 DEF FinalizeSuccess, Finalize, Forget
  <2>10. ASSUME NEW w \in Workers, NEW j \in Jobs, FinalizeRetryable(w, j)
        PROVE status'[c] = "cancelled" /\ runs'[c] = runs[c]
    BY <2>10 DEF FinalizeRetryable, Finalize, Forget, Exhausted
  <2>11. ASSUME NEW w \in Workers, NEW j \in Jobs, FinalizePermanent(w, j)
        PROVE status'[c] = "cancelled" /\ runs'[c] = runs[c]
    BY <2>11 DEF FinalizePermanent, Finalize, Forget, Exhausted
  <2>12. ASSUME NEW w \in Workers, Crash(w)
        PROVE status'[c] = "cancelled" /\ runs'[c] = runs[c]
    BY <2>12 DEF Crash, Rollback, Forget
  <2>13. ASSUME NEW w \in Workers, DbError(w)
        PROVE status'[c] = "cancelled" /\ runs'[c] = runs[c]
    BY <2>13 DEF DbError, Rollback, Forget
  <2>14. ASSUME NEW w \in Workers, Restart(w)
        PROVE status'[c] = "cancelled" /\ runs'[c] = runs[c]
    BY <2>14 DEF Restart
  <2>15. ASSUME NEW j \in Jobs, CancelRead(j)
        PROVE status'[c] = "cancelled" /\ runs'[c] = runs[c]
    BY <2>15 DEF CancelRead
  <2>16. ASSUME NEW j \in Jobs, CancelWrite(j)
        PROVE status'[c] = "cancelled" /\ runs'[c] = runs[c]
    BY <2>16 DEF CancelWrite
  <2>17. ASSUME NEW j \in Jobs, BecomeDue(j)
        PROVE status'[c] = "cancelled" /\ runs'[c] = runs[c]
    BY <2>17 DEF BecomeDue
  <2>18. ASSUME NEW j \in Jobs, BecomeStale(j)
        PROVE status'[c] = "cancelled" /\ runs'[c] = runs[c]
    BY <2>18 DEF BecomeStale
  <2>19. CASE UNCHANGED vars
    BY <2>19 DEF vars
  <2> QED
    BY <2>2, <2>3, <2>4, <2>5, <2>6, <2>7, <2>8, <2>9,
       <2>10, <2>11, <2>12, <2>13, <2>14, <2>15, <2>16, <2>17, <2>18, <2>19
    DEF Next, Execute, Client
<1> QED
  BY <1>1, QueueInvariantHolds, TypeCorrect, PTL DEF Spec, CancelledForGood

(* The step leaves job u alone or moves it along an allowed transition. *)
LawfulMove(u) ==
  /\ Effective(u)' \in Lifecycle!Statuses
  /\ Effective(u)' # Effective(u) => <<Effective(u), Effective(u)'>> \in Lifecycle!Allowed

(* A step of the queue moves an undisturbed job along ALLOWED_JOB_TRANSITIONS. *)
LEMMA LifecycleStep ==
  ASSUME TypeOK, QueueInvariant, [Next]_vars, NEW u \in Undisturbed
  PROVE  LawfulMove(u)
<1>0. /\ u \in Jobs /\ u \notin Publishing /\ u \notin Cancellable
      /\ \A w \in Workers : job[w] = u <=> lock[u] = w
      /\ lock[u] # None => lock[u] \in Workers /\ status[u] \in Claimable
      /\ status[u] # "running"
      /\ status[u] # "absent" => sub[u] = "done"
  BY JobConstants DEF TypeOK, QueueInvariant, RowsFollowSubmissions, LocksFollowClaims,
    RowsFollowLocks, Undisturbed
<1>a. /\ lock'[u] = lock[u] /\ status'[u] = status[u] => LawfulMove(u)
      /\ lock[u] = None /\ status[u] = "absent" /\ lock'[u] = None /\ status'[u] = "pending"
           => LawfulMove(u)
      /\ lock[u] = None /\ status[u] \in Claimable /\ lock'[u] # None => LawfulMove(u)
      /\ lock[u] # None /\ lock'[u] = None
           /\ status'[u] \in {"succeeded", "failed_permanent", "failed_retryable", status[u]}
           => LawfulMove(u)
  BY <1>0, JobConstants
    DEF TypeOK, LawfulMove, Effective, Lifecycle!Allowed, Lifecycle!Terminal,
    Lifecycle!Claimable, Lifecycle!Statuses, Statuses, Claimable, Terminal
<1> USE <1>0, JobConstants DEF TypeOK, rowVars, workerVars, clientVars, history
<1>1. ASSUME NEW j \in Jobs, SubmitLookup(j) PROVE LawfulMove(u)
  BY <1>1, <1>a DEF SubmitLookup
<1>2. ASSUME NEW j \in Jobs, NEW now \in BOOLEAN, SubmitInsert(j, now) PROVE LawfulMove(u)
  <2>1. CASE j = u /\ ~KeyTaken(j)
    <3>1. status[u] = "absent" /\ lock[u] = None
      BY <1>2, <2>1 DEF SubmitInsert, Claimable
    <3>2. status'[u] = "pending" /\ lock'[u] = None
      BY <1>2, <2>1, <3>1 DEF SubmitInsert
    <3> QED
      BY <3>1, <3>2, <1>a
  <2>2. CASE ~(j = u /\ ~KeyTaken(j))
    <3>1. lock'[u] = lock[u] /\ status'[u] = status[u]
      BY <1>2, <2>2 DEF SubmitInsert
    <3> QED
      BY <3>1, <1>a
  <2> QED
    BY <2>1, <2>2
<1>3. ASSUME NEW w \in Workers, Recover(w) PROVE LawfulMove(u)
  BY <1>3, <1>a DEF Recover, Abandoned
<1>4. ASSUME NEW w \in Workers, NEW j \in Jobs, Claim(w, j) PROVE LawfulMove(u)
  BY <1>4, <1>a DEF Claim, Runnable, Claimable
<1>5. ASSUME NEW w \in Workers, ClaimNothing(w) PROVE LawfulMove(u)
  BY <1>5, <1>a DEF ClaimNothing
<1>6. ASSUME NEW w \in Workers, NEW j \in Jobs, Publish(w, j) PROVE LawfulMove(u)
  BY <1>6, <1>a DEF Publish
<1>7. ASSUME NEW w \in Workers, NEW j \in Jobs, NEW r \in Results, Handle(w, j, r)
      PROVE LawfulMove(u)
  BY <1>7, <1>a DEF Handle
<1>8. ASSUME NEW w \in Workers, NEW j \in Jobs, FinalizeSuccess(w, j) PROVE LawfulMove(u)
  BY <1>8, <1>a DEF FinalizeSuccess, Finalize, Forget
<1>9. ASSUME NEW w \in Workers, NEW j \in Jobs, FinalizeRetryable(w, j) PROVE LawfulMove(u)
  BY <1>9, <1>a DEF FinalizeRetryable, Finalize, Forget, Exhausted
<1>10. ASSUME NEW w \in Workers, NEW j \in Jobs, FinalizePermanent(w, j) PROVE LawfulMove(u)
  BY <1>10, <1>a DEF FinalizePermanent, Finalize, Forget, Exhausted
<1>11. ASSUME NEW w \in Workers, Crash(w) PROVE LawfulMove(u)
  BY <1>11, <1>a DEF Crash, Rollback, Forget
<1>12. ASSUME NEW w \in Workers, DbError(w) PROVE LawfulMove(u)
  BY <1>12, <1>a DEF DbError, Rollback, Forget
<1>13. ASSUME NEW w \in Workers, Restart(w) PROVE LawfulMove(u)
  BY <1>13, <1>a DEF Restart
<1>14. ASSUME NEW j \in Jobs, j \in Cancellable, CancelRead(j) PROVE LawfulMove(u)
  BY <1>14, <1>a DEF CancelRead
<1>15. ASSUME NEW j \in Jobs, j \in Cancellable, CancelWrite(j) PROVE LawfulMove(u)
  BY <1>15, <1>a DEF CancelWrite
<1>16. ASSUME NEW j \in Jobs, BecomeDue(j) PROVE LawfulMove(u)
  BY <1>16, <1>a DEF BecomeDue
<1>17. ASSUME NEW j \in Jobs, BecomeStale(j) PROVE LawfulMove(u)
  BY <1>17, <1>a DEF BecomeStale
<1>18. CASE UNCHANGED vars
  BY <1>18, <1>a DEF vars
<1> QED
  BY <1>1, <1>2, <1>3, <1>4, <1>5, <1>6, <1>7, <1>8, <1>9,
       <1>10, <1>11, <1>12, <1>13, <1>14, <1>15, <1>16, <1>17, <1>18
  DEF Next, Execute, Client

(* The queue implements the safety part of JobLifecycle for every job that   *)
(* nobody cancels and whose handler does not commit.                         *)
THEOREM Refinement == Spec => ImplementsLifecycle
<1>1. Init => Lifecycle!Init
  BY JobConstants DEF Init, Lifecycle!Init, Effective, Undisturbed
<1>2. TypeOK /\ QueueInvariant /\ [Next]_vars
        => [Lifecycle!Next]_([j \in Undisturbed |-> Effective(j)])
  BY LifecycleStep DEF LawfulMove, Lifecycle!Next
<1> QED
  BY <1>1, <1>2, QueueInvariantHolds, TypeCorrect, PTL
  DEF Spec, Lifecycle!Safe, ImplementsLifecycle
=============================================================================
