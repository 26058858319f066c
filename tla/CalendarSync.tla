---------------------------- MODULE CalendarSync ----------------------------
(***************************************************************************)
(* One interview and its event in an external calendar.                    *)
(*                                                                         *)
(* A recruiter's request loads the interview and commits its change, reads *)
(* what it became and the interview's sync row, commits that row marked,   *)
(* and submits a durable job.  A worker claims a job, reads interview and  *)
(* sync row, calls the provider, and commits the sync row together with    *)
(* the job's end.  The provider is the repository's FakeCalendarProvider:  *)
(* the Google and Microsoft ones only raise "not implemented".             *)
(***************************************************************************)
EXTENDS Integers, Sequences, FiniteSets

CONSTANTS
  Requests,     \* calls of recruiters and admins, each made once
  Changes,      \* the kinds of call they make
  Workers,      \* worker processes
  MaxAttempts,  \* max_attempts of a job
  MaxFaults,    \* bound: provider errors in one behaviour
  MaxCrashes,   \* bound: worker crashes in one behaviour
  None

ASSUME CalendarConstants ==
  /\ Changes \subseteq {"schedule", "reschedule", "cancel", "reopen", "resume",
                        "complete", "delete", "disable", "disconnect", "connect"}
  /\ MaxAttempts \in Nat \ {0} /\ MaxFaults \in Nat /\ MaxCrashes \in Nat

VARIABLES
  interview,    \* [status, rev, stamp]: rev counts schedules, stamp is updated_at
  integration,  \* the company's row in calendar_integrations
  sync,         \* the interview_calendar_syncs row, or None
  jobs,         \* durable_jobs rows in the order of created_at
  events,       \* the provider: event id -> schedule it shows
  minted,       \* event ids the provider has issued
  req,          \* per request: where it is, what it does, what it has loaded
  wk,           \* per worker: where it is, its job, what it loaded, how it went
  faults, crashes

vars == <<interview, integration, sync, jobs, events, minted, req, wk, faults, crashes>>

Derived  == 0                                     \* "fake-evt-<interview id>"
IdleReq  == [pc |-> "idle", op |-> "create", was |-> "absent", looked |-> None,
             to |-> "pending", stamp |-> 0, ext |-> None, last |-> FALSE]
IdleWork == [pc |-> "idle", job |-> 0, rev |-> 0, seen |-> None, ext |-> None,
             outcome |-> "ok"]

Init ==
  /\ interview = [status |-> "absent", rev |-> 0, stamp |-> 0]
  /\ integration = "active"
  /\ sync = None
  /\ jobs = <<>>
  /\ events = <<>>
  /\ minted = 0
  /\ req = [r \in Requests |-> IdleReq]
  /\ wk = [w \in Workers |-> IdleWork]
  /\ faults = 0
  /\ crashes = 0

Exists == interview.status \notin {"absent", "deleted"}

-----------------------------------------------------------------------------
(* InterviewService: the interview is committed first.  A session updates    *)
(* only the columns that differ from what it loaded, and keeps what it       *)
(* loaded after a commit (expire_on_commit=False).                           *)

Flushed(old, loaded, new) == IF new = loaded THEN old ELSE new

Reschedules(c) == c \in {"reschedule", "resume"}

(* A request that has ended. *)
Ended(end) == [IdleReq EXCEPT !.pc = end]

(* create_interview. *)
Create(r) ==
  /\ req[r].pc = "idle" /\ "schedule" \in Changes
  /\ interview.status = "absent"
  /\ interview' = [status |-> "scheduled", rev |-> interview.rev + 1,
                   stamp |-> interview.stamp + 1]
  /\ req' = [req EXCEPT ![r].pc = "look", ![r].op = "schedule"]
  /\ UNCHANGED <<integration, sync, jobs, events, minted, wk, faults, crashes>>

(* update_interview and delete_interview load it. *)
Open(r, c) ==
  /\ req[r].pc = "idle"
  /\ c \in Changes \cap {"reschedule", "cancel", "reopen", "resume", "complete", "delete"}
  /\ Exists
  /\ req' = [req EXCEPT ![r].op = c, ![r].last = c = "delete",
                        ![r].pc = IF c = "delete" THEN "look" ELSE "commit",
                        ![r].was = IF c = "delete" THEN @ ELSE interview.status]
  /\ UNCHANGED <<interview, integration, sync, jobs, events, minted, wk, faults, crashes>>

(* The status a call asks for. *)
Wanted(c, was) ==
  CASE c \in {"reopen", "resume"} -> "scheduled"
    [] c = "cancel"   -> "cancelled"
    [] c = "complete" -> "completed"
    [] OTHER          -> was

(* update_interview commits; if the row is gone the request fails.           *)
Commit(r) ==
  /\ req[r].pc = "commit"
  /\ IF Exists
       THEN /\ interview' =
                 [status |-> Flushed(interview.status, req[r].was, Wanted(req[r].op, req[r].was)),
                  rev    |-> interview.rev + IF Reschedules(req[r].op) THEN 1 ELSE 0,
                  stamp  |-> interview.stamp + 1]
            /\ req' = [req EXCEPT ![r].pc = "look"]
       ELSE interview' = interview /\ req' = [req EXCEPT ![r] = Ended("done")]
  /\ UNCHANGED <<integration, sync, jobs, events, minted, wk, faults, crashes>>

(* CalendarIntegrationService: there is no call that re-enables a disabled   *)
(* row, and create refuses while one exists.                                 *)
Administer(r, c) ==
  /\ req[r].pc = "idle"
  /\ c \in Changes \cap {"disable", "disconnect", "connect"}
  /\ (integration = "absent") <=> (c = "connect")
  /\ integration' = CASE c = "disable" -> "disabled" [] c = "disconnect" -> "absent"
                      [] OTHER -> "active"
  /\ req' = [req EXCEPT ![r] = Ended("done")]
  /\ UNCHANGED <<interview, sync, jobs, events, minted, wk, faults, crashes>>

-----------------------------------------------------------------------------
(* CalendarSyncService: on_interview_scheduled, _updated and _deleting.      *)

HasEvent == sync # None /\ sync.ext # None

(* The job asked for, from the interview and the sync row of this moment: an *)
(* interview that has become cancelled wins over changed fields, any other   *)
(* status alone asks nothing.                                                *)
Asked(r) ==
  LET c == req[r].op IN
  CASE c = "schedule" -> "create"
    [] c = "delete"   -> "cancel"
    [] c \notin {"schedule", "delete"} /\ req[r].was # interview.status
                                      /\ interview.status = "cancelled" -> "cancel"
    [] OTHER -> IF ~Reschedules(c) THEN "none" ELSE IF HasEvent THEN "update" ELSE "create"

(* _fingerprint: the schedule and updated_at, a constant for a cancellation. *)
Fingerprint(op) == IF op = "cancel" THEN 0 ELSE interview.stamp

(* The interview is read back (it may be gone) and integration and sync row  *)
(* are read.                                                                 *)
Look(r) ==
  /\ req[r].pc = "look"
  /\ LET op == Asked(r) IN
     req' = [req EXCEPT ![r] =
       IF op = "none" \/ (~Exists /\ ~req[r].last) THEN Ended("done")
       ELSE [IdleReq EXCEPT !.pc = "mark", !.op = op, !.last = req[r].last, !.looked = sync,
               !.stamp = Fingerprint(op),
               !.to = IF integration = "active" THEN "pending" ELSE "not_connected"]]
  /\ UNCHANGED <<interview, integration, sync, jobs, events, minted, wk, faults, crashes>>

AfterEnqueue(r, end) == Ended(IF req[r].last THEN "delete" ELSE end)

(* The row is inserted, or the one that was read is marked.  A row that has  *)
(* appeared meanwhile fails the insert: after the rollback that row is read  *)
(* and marked, and the interview is read again.  A request whose interview   *)
(* was deleted under it fails on the foreign key or finds no row to update,  *)
(* which is logged.                                                          *)
Mark(r) ==
  /\ req[r].pc = "mark"
  /\ LET looked == req[r].looked
         late   == looked = None /\ sync # None
         lost   == ~Exists \/ (looked # None /\ sync = None) IN
     /\ sync' = CASE lost -> sync
                  [] ~lost /\ sync = None -> [status |-> req[r].to, ext |-> None]
                  [] ~lost /\ late -> [sync EXCEPT !.status = req[r].to]
                  [] OTHER -> [sync EXCEPT !.status = Flushed(@, looked.status, req[r].to)]
     /\ req' = [req EXCEPT ![r] =
          IF lost \/ req[r].to = "not_connected" THEN AfterEnqueue(r, "done")
          ELSE [IdleReq EXCEPT !.pc = "submit", !.op = req[r].op, !.last = req[r].last,
                  !.stamp = IF late THEN Fingerprint(req[r].op) ELSE req[r].stamp,
                  !.ext = IF req[r].op = "cancel" /\ sync # None THEN sync.ext ELSE None]]
  /\ UNCHANGED <<interview, integration, jobs, events, minted, wk, faults, crashes>>

(* The job is inserted unless one with its key exists, finished or not (a    *)
(* request that ended so is told apart as "dropped").                        *)
Submit(r) ==
  /\ req[r].pc = "submit"
  /\ LET key == <<req[r].op, req[r].stamp>> IN
     IF \E i \in DOMAIN jobs : jobs[i].key = key
       THEN req' = [req EXCEPT ![r] = AfterEnqueue(r, "dropped")] /\ jobs' = jobs
       ELSE /\ req' = [req EXCEPT ![r] = AfterEnqueue(r, "done")]
            /\ jobs' = Append(jobs, [op |-> req[r].op, key |-> key, status |-> "pending",
                                     tries |-> 0, ext |-> req[r].ext, gone |-> req[r].last])
  /\ UNCHANGED <<interview, integration, sync, events, minted, wk, faults, crashes>>

(* The interview goes, and its sync row with it (ON DELETE CASCADE). *)
Delete(r) ==
  /\ req[r].pc = "delete"
  /\ req' = [req EXCEPT ![r] = Ended("done")]
  /\ IF Exists
       THEN /\ interview' = [interview EXCEPT !.status = "deleted"]
            /\ sync' = None
       ELSE UNCHANGED <<interview, sync>>
  /\ UNCHANGED <<integration, jobs, events, minted, wk, faults, crashes>>

-----------------------------------------------------------------------------
(* CalendarSyncJobHandler.execute                                            *)

Runnable == {i \in DOMAIN jobs : /\ jobs[i].status \in {"pending", "retryable"}
                                 /\ \A w \in Workers : wk[w].job # i}

(* The event a job is about: the sync row's, else the payload's snapshot. *)
KnownEvent(j) == IF HasEvent THEN sync.ext ELSE j.ext

AlreadySynced(j) == j.op = "create" /\ HasEvent /\ sync.status = "synced"

(* Where a job goes once everything is loaded. *)
Route(j) ==
  CASE integration = "absent" -> [pc |-> "write", outcome |-> "not_connected"]
    [] integration # "absent" /\ ~Exists ->
         IF j.op = "cancel" /\ (j.gone \/ KnownEvent(j) # None)
           THEN [pc |-> "call", outcome |-> "ok"]
           ELSE [pc |-> "write", outcome |-> "permanent"]
    [] OTHER -> [pc |-> IF AlreadySynced(j) THEN "write" ELSE "call",
                 outcome |-> IF AlreadySynced(j) THEN "already" ELSE "ok"]

(* Mutant: the schedule is the one of the submission. *)
LoadedRev_Snapshot(j) == j.key[2]
(* build_event_request reads the interview, not the payload. *)
LoadedRev(j) == interview.rev

(* claim_next takes the oldest due job (a retry may not be due yet) and the  *)
(* handler loads integration, interview and sync row; a disabled integration *)
(* is still found by its id.                                                 *)
Load(w, i) ==
  /\ wk[w].pc = "idle"
  /\ i \in Runnable
  /\ \A k \in Runnable : k < i => jobs[k].status = "retryable"
  /\ wk' = [wk EXCEPT ![w] =
       [pc |-> Route(jobs[i]).pc, job |-> i, rev |-> LoadedRev(jobs[i]), seen |-> sync,
        ext |-> KnownEvent(jobs[i]), outcome |-> Route(jobs[i]).outcome]]
  /\ UNCHANGED <<interview, integration, sync, jobs, events, minted, req, faults, crashes>>

Without(id) == [e \in DOMAIN events \ {id} |-> events[e]]
With(id, rev) == [e \in DOMAIN events \cup {id} |-> IF e = id THEN rev ELSE events[e]]

(* Mutant: the request of a creation leaves the known id out. *)
TargetId_AlwaysNew(w) ==
  IF jobs[wk[w].job].op = "create" \/ wk[w].ext = None THEN minted + 1 ELSE wk[w].ext
(* The id the provider works on: the known one, else a new or derived one.   *)
TargetId(w) ==
  IF wk[w].ext # None THEN wk[w].ext
  ELSE IF jobs[wk[w].job].op = "cancel" THEN Derived ELSE minted + 1

(* The provider call succeeds: an update without an id creates. *)
Call(w) ==
  /\ wk[w].pc = "call"
  /\ LET id == TargetId(w) IN
     /\ events' = IF jobs[wk[w].job].op = "cancel" THEN Without(id) ELSE With(id, wk[w].rev)
     /\ minted' = IF id > minted THEN id ELSE minted
     /\ wk' = [wk EXCEPT ![w].pc = "write", ![w].ext = id]
  /\ UNCHANGED <<interview, integration, sync, jobs, req, faults, crashes>>

(* It raises CalendarProviderError, retryable or not. *)
CallFails(w, outcome) ==
  /\ wk[w].pc = "call" /\ faults < MaxFaults
  /\ faults' = faults + 1
  /\ wk' = [wk EXCEPT ![w].pc = "write", ![w].outcome = outcome]
  /\ UNCHANGED <<interview, integration, sync, jobs, events, minted, req, crashes>>

(* Mutant: a cancellation is recorded like any other success. *)
FinalStatus_AlwaysSynced(op) == "synced"
FinalStatus(op) == IF op = "cancel" THEN "cancelled" ELSE "synced"

(* _persist_success and _mark_sync: an id once loaded stays. *)
Persisted(w, op) ==
  LET seen == wk[w].seen
      to(s, e) == [status |-> Flushed(sync.status, seen.status, s),
                   ext |-> Flushed(sync.ext, seen.ext, e)] IN
  CASE wk[w].outcome = "ok" ->
         to(FinalStatus(op), IF seen.ext # None THEN seen.ext ELSE wk[w].ext)
    [] wk[w].outcome = "not_connected" -> to("not_connected", seen.ext)
    [] wk[w].outcome \in {"retryable", "permanent"} -> to("failed", seen.ext)
    [] OTHER -> sync

(* The job's end, by the durable queue. *)
Finished(j, outcome) ==
  CASE outcome = "retryable" ->
         [j EXCEPT !.tries = @ + 1,
                   !.status = IF j.tries + 1 >= MaxAttempts THEN "failed" ELSE "retryable"]
    [] outcome = "permanent" -> [j EXCEPT !.status = "failed"]
    [] OTHER -> [j EXCEPT !.status = "succeeded"]

(* One transaction; if the sync row that was loaded is gone the flush fails, *)
(* everything is rolled back and the job is claimable as before.             *)
Write(w) ==
  /\ wk[w].pc = "write"
  /\ LET i == wk[w].job
         writesSync == wk[w].seen # None /\ wk[w].outcome # "already" IN
     IF writesSync /\ sync = None
       THEN UNCHANGED <<sync, jobs>>
       ELSE /\ sync' = IF writesSync THEN Persisted(w, jobs[i].op) ELSE sync
            /\ jobs' = [jobs EXCEPT ![i] = Finished(@, wk[w].outcome)]
  /\ wk' = [wk EXCEPT ![w] = IdleWork]
  /\ UNCHANGED <<interview, integration, events, minted, req, faults, crashes>>

(* Mutant: the claim is committed before the job runs. *)
Crash_Claimed(w) ==
  /\ wk[w].pc # "idle" /\ crashes < MaxCrashes
  /\ crashes' = crashes + 1
  /\ wk' = [wk EXCEPT ![w] = IdleWork]
  /\ jobs' = [jobs EXCEPT ![wk[w].job].status = "failed"]
  /\ UNCHANGED <<interview, integration, sync, events, minted, req, faults>>
(* The process dies: the claim was never committed. *)
Crash(w) ==
  /\ wk[w].pc # "idle" /\ crashes < MaxCrashes
  /\ crashes' = crashes + 1
  /\ wk' = [wk EXCEPT ![w] = IdleWork]
  /\ UNCHANGED <<interview, integration, sync, jobs, events, minted, req, faults>>

-----------------------------------------------------------------------------
RequestStep(r) == Commit(r) \/ Look(r) \/ Mark(r) \/ Submit(r) \/ Delete(r)
WorkerStep(w) ==
  \/ \E i \in DOMAIN jobs : Load(w, i)
  \/ Call(w)
  \/ \E o \in {"retryable", "permanent"} : CallFails(w, o)
  \/ Write(w)

Next ==
  \/ \E r \in Requests :
       \/ Create(r)
       \/ \E c \in Changes : Open(r, c) \/ Administer(r, c)
       \/ RequestStep(r)
  \/ \E w \in Workers : WorkerStep(w) \/ Crash(w)

(* Requests run to their end and the worker process polls for ever. *)
Spec ==
  /\ Init /\ [][Next]_vars
  /\ \A r \in Requests : WF_vars(RequestStep(r))
  /\ \A w \in Workers : WF_vars(WorkerStep(w))

-----------------------------------------------------------------------------
SyncRows == [status : {"not_connected", "pending", "synced", "failed", "cancelled"},
             ext : Nat \cup {None}]

(* None is no number and no row. *)
ASSUME NoneIsNothing == None \notin Nat \cup SyncRows

TypeOK ==
  /\ interview \in [status : {"absent", "scheduled", "cancelled", "completed", "deleted"},
                    rev : Nat, stamp : Nat]
  /\ integration \in {"active", "disabled", "absent"}
  /\ sync \in SyncRows \cup {None}
  /\ \A i \in DOMAIN jobs :
       jobs[i].status \in {"pending", "retryable", "succeeded", "failed"}
       /\ jobs[i].tries \in 0..MaxAttempts
  /\ DOMAIN events \subseteq 0..minted
  /\ \A w \in Workers : wk[w].seen \in SyncRows \cup {None}

WorkersDone  == Runnable = {} /\ \A w \in Workers : wk[w].pc = "idle"
RequestsDone == \A r \in Requests : req[r].pc \in {"idle", "done", "dropped"}

(* An interview never has two events: whatever jobs a worker runs, in any    *)
(* order of retries, they work on the one event they know (for one worker    *)
(* that does not crash).                                                     *)
OneEvent == Cardinality(DOMAIN events) =< 1

(* When the queue is empty the sync row says what the calendar shows: an     *)
(* event if "synced", none if "cancelled", however often jobs failed,        *)
(* crashed or ran late.                                                      *)
StatusIsTrue ==
  (WorkersDone /\ sync # None) =>
    /\ sync.status = "synced" => sync.ext \in DOMAIN events
    /\ sync.status = "cancelled" => sync.ext \notin DOMAIN events

Pending == sync # None /\ sync.status = "pending"
Dropped == \E r \in Requests : req[r].pc = "dropped"

(* A changed schedule field ends up in the calendar of a synced interview.   *)
EditsReachCalendar ==
  (WorkersDone /\ RequestsDone /\ sync # None /\ sync.status = "synced") =>
    events[sync.ext] = interview.rev
=============================================================================
