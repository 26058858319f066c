------------------------- MODULE CalendarSync_proofs -------------------------
(***************************************************************************)
(* Theorems about CalendarSync: for any number of requests and workers the *)
(* types; for one worker, that the sync row's status tells what the        *)
(* calendar has, also if the worker crashes; and for one that does not,    *)
(* that an interview has one event, which never shows an older schedule    *)
(* than it did.                                                            *)
(***************************************************************************)
EXTENDS CalendarSync, FiniteSetTheorems, TLAPS

-----------------------------------------------------------------------------
(* Any number of workers.                                                    *)

(* The rows of the queue.                                                    *)
Operations == {"create", "update", "cancel"}
JobRows == [op : Operations, key : Operations \X Nat,
            status : {"pending", "retryable", "succeeded", "failed"}, tries : 0..MaxAttempts,
            ext : Nat \cup {None}, gone : BOOLEAN]

(* A job that is open has tries left; only a cancellation carries an event.  *)
IsOpen(i) == jobs[i].status \in {"pending", "retryable"}
JobsTyped ==
  /\ jobs \in Seq(JobRows)
  /\ \A i \in DOMAIN jobs :
       /\ IsOpen(i) => jobs[i].tries < MaxAttempts
       /\ jobs[i].op # "cancel" => jobs[i].ext = None

(* A request.                                                                *)
RowStatuses == {"absent", "scheduled", "cancelled", "completed", "deleted"}
Calls == {"schedule", "reschedule", "cancel", "reopen", "resume", "complete", "delete"}
Reqs == [pc : {"idle", "commit", "look", "mark", "submit", "delete", "done", "dropped"},
         op : Operations \cup Calls, was : RowStatuses, looked : SyncRows \cup {None},
         to : {"pending", "not_connected"}, stamp : Nat, ext : Nat \cup {None}, last : BOOLEAN]
ReqsTyped ==
  /\ req \in [Requests -> Reqs]
  /\ \A r \in Requests :
       /\ req[r].pc \in {"mark", "submit"} => req[r].op \in Operations
       /\ req[r].pc = "submit" /\ req[r].op # "cancel" => req[r].ext = None
       /\ req[r].pc = "commit" => req[r].was \in {"scheduled", "cancelled", "completed"}

(* A worker is idle or has an open job to itself.                            *)
Busy(w) == wk[w].pc # "idle"
Works == [pc : {"call", "write"}, job : Nat, rev : Nat, seen : SyncRows \cup {None}, ext : Nat \cup {None},
          outcome : {"ok", "retryable", "permanent", "not_connected", "already"}]
WorkersTyped ==
  /\ DOMAIN wk = Workers
  /\ \A w \in Workers :
       \/ wk[w] = IdleWork
       \/ wk[w] \in Works /\ wk[w].job \in DOMAIN jobs /\ IsOpen(wk[w].job)
  /\ \A v, w \in Workers : v # w /\ Busy(w) => wk[v].job # wk[w].job

(* The calendar.                                                             *)
EventsTyped ==
  /\ minted \in Nat /\ DOMAIN events \subseteq 0..minted
  /\ \A e \in DOMAIN events : events[e] \in Nat

RowsTyped ==
  /\ interview \in [status : RowStatuses, rev : Nat, stamp : Nat]
  /\ integration \in {"active", "disabled", "absent"}
  /\ sync \in SyncRows \cup {None}
  /\ crashes \in Nat

(* Whoever works for an interview that is there finds its sync row.          *)
Started == jobs # <<>> \/ \E r \in Requests : req[r].pc = "submit"
SyncRowStays ==
  /\ interview.status = "absent" => ~Started
  /\ ~Exists => sync = None
  /\ Exists /\ Started => sync # None

(* The inductive invariant of any number of workers.                         *)
SyncInvariant ==
  /\ RowsTyped /\ JobsTyped /\ ReqsTyped /\ WorkersTyped /\ EventsTyped
  /\ SyncRowStays

(* It types what TypeOK does.                                                *)
LEMMA SyncInvariantTypes == SyncInvariant => TypeOK
<1> SUFFICES ASSUME SyncInvariant PROVE TypeOK
  OBVIOUS
<1>1. \A i \in DOMAIN jobs : jobs[i].status \in {"pending", "retryable", "succeeded", "failed"}
                            /\ jobs[i].tries \in 0..MaxAttempts
  <2>1. \A i \in DOMAIN jobs : jobs[i] \in JobRows
    BY DEF SyncInvariant, JobsTyped
  <2> QED
    BY <2>1 DEF JobRows
<1>2. \A w \in Workers : wk[w].seen \in SyncRows \cup {None}
  BY DEF SyncInvariant, WorkersTyped, Works, IdleWork
<1> QED
  BY <1>1, <1>2 DEF SyncInvariant, RowsTyped, EventsTyped, TypeOK, RowStatuses

(* Initially nothing is there.                                               *)
LEMMA SyncInit == Init => SyncInvariant
<1> SUFFICES ASSUME Init PROVE SyncInvariant
  OBVIOUS
<1>1. RowsTyped /\ EventsTyped
  BY DEF Init, RowsTyped, EventsTyped, RowStatuses
<1>2. JobsTyped
  BY DEF Init, JobsTyped
<1>3. ReqsTyped
  BY DEF Init, ReqsTyped, Reqs, IdleReq, Operations, Calls, RowStatuses
<1>4. WorkersTyped
  BY DEF Init, WorkersTyped, IdleWork, Busy
<1>5. SyncRowStays
  BY DEF Init, SyncRowStays, Started, Exists, IdleReq
<1> QED
  BY <1>1, <1>2, <1>3, <1>4, <1>5 DEF SyncInvariant

(* Workers do not mind if jobs are added.                                    *)
LEMMA WorkersUndisturbed ==
  ASSUME WorkersTyped, wk' = wk, \A i \in DOMAIN jobs : i \in DOMAIN jobs' /\ jobs'[i] = jobs[i]
  PROVE  WorkersTyped'
BY DEF WorkersTyped, Busy, IsOpen

(* The requests stay typed if the new one is, and no other is submitting now *)
(* that was not.                                                             *)
GoodReq(q) ==
  /\ q \in Reqs
  /\ q.pc \in {"mark", "submit"} => q.op \in Operations
  /\ q.pc = "submit" /\ q.op # "cancel" => q.ext = None
  /\ q.pc = "commit" => q.was \in {"scheduled", "cancelled", "completed"}
LEMMA RequestSteps ==
  ASSUME ReqsTyped, NEW r \in Requests, NEW new, GoodReq(new), req' = [req EXCEPT ![r] = new]
  PROVE  /\ ReqsTyped'
         /\ \A q \in Requests : req'[q].pc = "submit" => req[q].pc = "submit" \/ new.pc = "submit"
BY DEF ReqsTyped, GoodReq

(* A request as it is, and one that has ended, are good.                     *)
LEMMA GoodReqs ==
  ASSUME ReqsTyped, NEW r \in Requests
  PROVE  /\ GoodReq(req[r]) /\ DOMAIN req = Requests
         /\ \A end \in {"delete", "done", "dropped"} : GoodReq(Ended(end)) /\ Ended(end).pc = end
<1>1. GoodReq(req[r]) /\ DOMAIN req = Requests
  BY DEF ReqsTyped, GoodReq
<1>2. ASSUME NEW end \in {"delete", "done", "dropped"} PROVE GoodReq(Ended(end)) /\ Ended(end).pc = end
  BY DEF Ended, IdleReq, GoodReq, Reqs, Operations, Calls, RowStatuses
<1> QED
  BY <1>1, <1>2

(* A request's step that leaves queue, sync row and workers alone, and does  *)
(* not make the interview absent or deleted.                                 *)
LEMMA QuietKeeps ==
  ASSUME SyncInvariant, NEW r \in Requests, NEW new, GoodReq(new), new.pc # "submit",
         req' = [req EXCEPT ![r] = new],
         UNCHANGED <<sync, jobs, events, minted, wk, crashes>>, RowsTyped',
         \/ interview' = interview
         \/ /\ interview'.status \in {"scheduled", "cancelled", "completed"}
            /\ Exists \/ interview.status = "absent"
  PROVE  SyncInvariant'
<1>1. ReqsTyped' /\ (Started' => Started)
  BY RequestSteps DEF SyncInvariant, Started
<1>2. EventsTyped' /\ JobsTyped' /\ WorkersTyped'
  BY WorkersUndisturbed DEF SyncInvariant, JobsTyped, IsOpen, EventsTyped
<1>3. SyncRowStays'
  BY <1>1 DEF SyncInvariant, SyncRowStays, Exists
<1> QED
  BY <1>1, <1>2, <1>3 DEF SyncInvariant

(* The interview is made.                                                    *)
LEMMA CreateKeeps ==
  ASSUME SyncInvariant, NEW r \in Requests, Create(r)
  PROVE  SyncInvariant' /\ interview.rev =< interview'.rev
<1> DEFINE new == [req[r] EXCEPT !.pc = "look", !.op = "schedule"]
<1>1. /\ UNCHANGED <<integration, sync, jobs, events, minted, wk, crashes>>
      /\ req' = [req EXCEPT ![r] = new] /\ interview.status = "absent"
      /\ interview' = [status |-> "scheduled", rev |-> interview.rev + 1, stamp |-> interview.stamp + 1]
  BY GoodReqs DEF Create, SyncInvariant
<1>2. GoodReq(new) /\ new.pc = "look"
  <2>1. GoodReq(req[r])
    BY GoodReqs DEF SyncInvariant
  <2> QED
    BY <2>1 DEF GoodReq, Reqs, Calls
<1>3. RowsTyped' /\ interview'.status = "scheduled" /\ interview.rev =< interview'.rev
  BY <1>1 DEF SyncInvariant, RowsTyped, RowStatuses
<1> HIDE DEF new
<1> QED
  BY <1>1, <1>2, <1>3, QuietKeeps

(* A request begins, or reads what became of its change.                     *)
LEMMA BeginKeeps ==
  ASSUME SyncInvariant, NEW r \in Requests, Look(r) \/ \E c \in Changes : Open(r, c) \/ Administer(r, c)
  PROVE  SyncInvariant'
<1>1. /\ UNCHANGED <<interview, sync, jobs, events, minted, wk, crashes>>
      /\ integration' \in {"active", "disabled", "absent"}
      /\ ReqsTyped /\ interview.status \in RowStatuses /\ interview.stamp \in Nat
      /\ sync \in SyncRows \cup {None}
  BY DEF Look, Open, Administer, SyncInvariant, RowsTyped
<1>2. GoodReq(req[r]) /\ DOMAIN req = Requests
  BY <1>1, GoodReqs
<1>3. \E new : GoodReq(new) /\ new.pc # "submit" /\ req' = [req EXCEPT ![r] = new]
  <2>1. ASSUME NEW c \in Changes, Open(r, c)
        PROVE  \E new : GoodReq(new) /\ new.pc # "submit" /\ req' = [req EXCEPT ![r] = new]
    <3> DEFINE to == IF c = "delete" THEN "look" ELSE "commit"
               was == IF c = "delete" THEN req[r].was ELSE interview.status
               new == [req[r] EXCEPT !.op = c, !.last = (c = "delete"), !.pc = to, !.was = was]
    <3>1. /\ req' = [req EXCEPT ![r] = new] /\ Exists /\ c \in Calls
      BY <1>2, <2>1 DEF Open, Calls
    <3>2. /\ to \in {"look", "commit"} /\ was \in RowStatuses
          /\ to = "commit" => was \in {"scheduled", "cancelled", "completed"}
      BY <1>1, <1>2, <3>1 DEF GoodReq, Reqs, RowStatuses, Exists
    <3> HIDE DEF to, was
    <3>3. GoodReq(new) /\ new.pc # "submit"
      BY <1>2, <3>1, <3>2 DEF GoodReq, Reqs
    <3> QED
      BY <3>1, <3>3
  <2>2. ASSUME NEW c \in Changes, Administer(r, c)
        PROVE  \E new : GoodReq(new) /\ new.pc # "submit" /\ req' = [req EXCEPT ![r] = new]
    <3>1. req' = [req EXCEPT ![r] = Ended("done")]
      BY <2>2 DEF Administer
    <3> QED
      BY <1>1, <3>1, GoodReqs
  <2>3. ASSUME Look(r)
        PROVE  \E new : GoodReq(new) /\ new.pc # "submit" /\ req' = [req EXCEPT ![r] = new]
    <3> DEFINE op == Asked(r)
               to == IF integration = "active" THEN "pending" ELSE "not_connected"
               new == [IdleReq EXCEPT !.pc = "mark", !.op = op, !.last = req[r].last, !.looked = sync,
                         !.stamp = Fingerprint(op), !.to = to]
    <3>1. req' = [req EXCEPT ![r] = Ended("done")] \/ (op # "none" /\ req' = [req EXCEPT ![r] = new])
      BY <2>3 DEF Look
    <3>2. op \in Operations \cup {"none"}
      BY DEF Asked, Operations
    <3>3. Fingerprint(op) \in Nat /\ to \in {"pending", "not_connected"} /\ req[r].last \in BOOLEAN
      BY <1>1, <1>2 DEF Fingerprint, GoodReq, Reqs
    <3> HIDE DEF op, to
    <3>4. op # "none" => GoodReq(new) /\ new.pc = "mark"
      BY <1>1, <3>2, <3>3 DEF GoodReq, Reqs, IdleReq, Operations, RowStatuses
    <3> HIDE DEF new
    <3> QED
      BY <1>1, <3>1, <3>4, GoodReqs
  <2> QED
    BY <2>1, <2>2, <2>3
<1>4. RowsTyped'
  BY <1>1 DEF SyncInvariant, RowsTyped
<1> QED
  BY <1>1, <1>3, <1>4, QuietKeeps

(* The interview is changed.                                                 *)
LEMMA CommitKeeps ==
  ASSUME SyncInvariant, NEW r \in Requests, Commit(r)
  PROVE  SyncInvariant' /\ interview.rev =< interview'.rev
<1> DEFINE status == Flushed(interview.status, req[r].was, Wanted(req[r].op, req[r].was))
           rev == interview.rev + IF Reschedules(req[r].op) THEN 1 ELSE 0
           new == [req[r] EXCEPT !.pc = "look"]
<1>1. /\ UNCHANGED <<integration, sync, jobs, events, minted, wk, crashes>>
      /\ req[r].pc = "commit" /\ ReqsTyped
      /\ interview.rev \in Nat /\ interview.stamp \in Nat /\ interview.status \in RowStatuses
  BY DEF Commit, SyncInvariant, RowsTyped
<1>2. GoodReq(req[r]) /\ DOMAIN req = Requests
  BY <1>1, GoodReqs
<1>3. CASE Exists
  <2>1. /\ interview' = [status |-> status, rev |-> rev, stamp |-> interview.stamp + 1]
        /\ req' = [req EXCEPT ![r] = new]
    BY <1>2, <1>3 DEF Commit
  <2>2. rev \in Nat /\ interview.rev =< rev /\ status \in {"scheduled", "cancelled", "completed"}
    BY <1>1, <1>2, <1>3 DEF Flushed, Wanted, GoodReq, Exists, RowStatuses
  <2> HIDE DEF rev, status
  <2>3. GoodReq(new) /\ new.pc = "look"
    BY <1>2 DEF GoodReq, Reqs
  <2>4. RowsTyped' /\ interview'.status = status /\ interview'.rev = rev
    BY <1>1, <2>1, <2>2 DEF SyncInvariant, RowsTyped, RowStatuses
  <2> HIDE DEF new
  <2>5. SyncInvariant'
    BY <1>1, <1>3, <2>1, <2>2, <2>3, <2>4, QuietKeeps
  <2> QED
    BY <2>2, <2>4, <2>5
<1>4. CASE ~Exists
  <2>1. interview' = interview /\ req' = [req EXCEPT ![r] = Ended("done")]
    BY <1>4 DEF Commit
  <2>2. RowsTyped'
    BY <1>1, <2>1 DEF SyncInvariant, RowsTyped
  <2>3. GoodReq(Ended("done")) /\ Ended("done").pc # "submit"
    BY <1>1, GoodReqs
  <2> DEFINE end == Ended("done")
  <2> HIDE DEF end
  <2>4. GoodReq(end) /\ end.pc # "submit" /\ req' = [req EXCEPT ![r] = end]
    BY <2>1, <2>3 DEF end
  <2>5. SyncInvariant'
    BY <1>1, <2>1, <2>2, <2>4, QuietKeeps
  <2> QED
    BY <1>1, <2>1, <2>5
<1> QED
  BY <1>3, <1>4

(* Of the row a request marks or makes only the status is new, and that only *)
(* says that there is work or no calendar.                                   *)
LEMMA MarkMarks ==
  ASSUME SyncInvariant, NEW r \in Requests, Mark(r)
  PROVE  /\ UNCHANGED <<interview, integration, jobs, events, minted, wk, crashes>>
         /\ ~Exists => sync' = sync
         /\ \/ sync' = sync
            \/ /\ sync' \in SyncRows
               /\ \/ sync # None /\ sync'.status = sync.status
                  \/ sync'.status \in {"pending", "not_connected"}
               /\ sync'.ext = IF sync = None THEN None ELSE sync.ext
         /\ \E new : /\ GoodReq(new) /\ req' = [req EXCEPT ![r] = new]
                     /\ new.pc = "submit" => Exists /\ sync' # None
<1> DEFINE q == req[r]
           late == q.looked = None /\ sync # None
           lost == ~Exists \/ (q.looked # None /\ sync = None)
<1>1. /\ UNCHANGED <<interview, integration, jobs, events, minted, wk, crashes>>
      /\ ReqsTyped /\ q.pc = "mark" /\ sync \in SyncRows \cup {None} /\ interview.stamp \in Nat
  BY DEF Mark, SyncInvariant, RowsTyped
<1>2. GoodReq(q) /\ DOMAIN req = Requests /\ q.op \in Operations /\ q.to \in {"pending", "not_connected"}
      /\ q.stamp \in Nat /\ q.last \in BOOLEAN
  BY <1>1, GoodReqs DEF GoodReq, Reqs
<1>3. CASE lost
  <2>1. sync' = sync /\ req' = [req EXCEPT ![r] = AfterEnqueue(r, "done")]
    BY <1>3 DEF Mark
  <2>2. AfterEnqueue(r, "done") \in {Ended("delete"), Ended("done")}
    BY DEF AfterEnqueue
  <2>3. GoodReq(AfterEnqueue(r, "done")) /\ AfterEnqueue(r, "done").pc # "submit"
    BY <1>1, <2>2, GoodReqs
  <2> QED
    BY <1>1, <2>1, <2>3
<1>4. CASE ~lost
  <2> DEFINE ext == IF q.op = "cancel" /\ sync # None THEN sync.ext ELSE None
             stamp == IF late THEN Fingerprint(q.op) ELSE q.stamp
             new == [IdleReq EXCEPT !.pc = "submit", !.op = q.op, !.last = q.last, !.stamp = stamp,
                       !.ext = ext]
  <2>1. /\ sync = None => sync' = [status |-> q.to, ext |-> None]
        /\ sync # None => \/ sync' = [sync EXCEPT !.status = q.to]
                          \/ sync' = [sync EXCEPT !.status = Flushed(sync.status, q.looked.status, q.to)]
    <3>1. CASE sync = None
      BY <1>4, <3>1 DEF Mark
    <3>2. CASE sync # None /\ late
      BY <1>4, <3>2 DEF Mark
    <3>3. CASE sync # None /\ ~late
      BY <1>4, <3>3 DEF Mark
    <3> QED
      BY <3>1, <3>2, <3>3
  <2>2. /\ sync' \in SyncRows
        /\ \/ sync # None /\ sync'.status = sync.status
           \/ sync'.status \in {"pending", "not_connected"}
        /\ sync'.ext = IF sync = None THEN None ELSE sync.ext
    <3>1. CASE sync = None
      BY <1>2, <2>1, <3>1 DEF SyncRows
    <3>2. CASE sync # None
      <4>1. PICK s \in {sync.status, "pending", "not_connected"} : sync' = [sync EXCEPT !.status = s]
        BY <1>2, <2>1, <3>2 DEF Flushed
      <4> QED
        BY <1>1, <3>2, <4>1 DEF SyncRows
    <3> QED
      BY <3>1, <3>2
  <2>3. ext \in Nat \cup {None} /\ (q.op # "cancel" => ext = None) /\ stamp \in Nat
    BY <1>1, <1>2 DEF SyncRows, Fingerprint
  <2>4. req' = [req EXCEPT ![r] = AfterEnqueue(r, "done")] \/ req' = [req EXCEPT ![r] = new]
    BY <1>4 DEF Mark
  <2> HIDE DEF ext, stamp
  <2>5. GoodReq(new)
    BY <1>2, <2>3 DEF GoodReq, Reqs, IdleReq, RowStatuses
  <2>6. AfterEnqueue(r, "done") \in {Ended("delete"), Ended("done")}
    BY DEF AfterEnqueue
  <2>7. GoodReq(AfterEnqueue(r, "done"))
    BY <1>1, <2>6, GoodReqs
  <2> HIDE DEF new
  <2> QED
    BY <1>1, <1>4, <2>2, <2>4, <2>5, <2>7, NoneIsNothing
<1> QED
  BY <1>3, <1>4

(* A row is marked.                                                          *)
LEMMA MarkKeeps ==
  ASSUME SyncInvariant, NEW r \in Requests, Mark(r)
  PROVE  SyncInvariant'
<1>1. /\ UNCHANGED <<interview, integration, jobs, events, minted, wk, crashes>>
      /\ ~Exists => sync' = sync
      /\ sync' \in SyncRows \/ sync' = sync
  BY MarkMarks
<1>2. PICK new : /\ GoodReq(new) /\ req' = [req EXCEPT ![r] = new]
                 /\ new.pc = "submit" => Exists /\ sync' # None
  BY MarkMarks
<1>3. ReqsTyped' /\ (Started' => Started \/ (Exists /\ sync' # None))
  BY <1>1, <1>2, RequestSteps DEF SyncInvariant, Started
<1>4. RowsTyped' /\ EventsTyped'
  BY <1>1 DEF SyncInvariant, RowsTyped, EventsTyped
<1>5. JobsTyped' /\ WorkersTyped'
  BY <1>1, WorkersUndisturbed DEF SyncInvariant, JobsTyped, IsOpen
<1>6. SyncRowStays'
  BY <1>1, <1>3, NoneIsNothing DEF SyncInvariant, SyncRowStays, Exists
<1> QED
  BY <1>3, <1>4, <1>5, <1>6 DEF SyncInvariant

(* A submission leaves the queue or adds a job that is open.                 *)
LEMMA SubmitAdds ==
  ASSUME SyncInvariant, NEW r \in Requests, Submit(r)
  PROVE  /\ UNCHANGED <<interview, integration, sync, events, minted, wk, crashes>>
         /\ \E new : GoodReq(new) /\ req' = [req EXCEPT ![r] = new] /\ new.pc # "submit"
         /\ JobsTyped' /\ Started
         /\ \A i \in DOMAIN jobs : i \in DOMAIN jobs' /\ jobs'[i] = jobs[i]
<1>1. /\ UNCHANGED <<interview, integration, sync, events, minted, wk, crashes>>
      /\ ReqsTyped /\ JobsTyped /\ req[r].pc = "submit"
  BY DEF Submit, SyncInvariant
<1>2. GoodReq(req[r]) /\ DOMAIN req = Requests
  BY <1>1, GoodReqs
<1>3. \E new : GoodReq(new) /\ req' = [req EXCEPT ![r] = new] /\ new.pc # "submit"
  <2>1. PICK end \in {"delete", "done", "dropped"} : req' = [req EXCEPT ![r] = Ended(end)]
    BY DEF Submit, AfterEnqueue
  <2> QED
    BY <1>1, <2>1, GoodReqs
<1>4. Started
  BY <1>1 DEF Started
<1>5. CASE jobs' = jobs
  BY <1>1, <1>3, <1>4, <1>5 DEF JobsTyped, IsOpen
<1>6. CASE jobs' # jobs
  <2> DEFINE j == [op |-> req[r].op, key |-> <<req[r].op, req[r].stamp>>, status |-> "pending", tries |-> 0,
                   ext |-> req[r].ext, gone |-> req[r].last]
  <2>1. jobs' = Append(jobs, j)
    BY <1>6 DEF Submit
  <2>2. j \in JobRows
    <3>1. req[r].op \in Operations /\ req[r].ext \in Nat \cup {None} /\ req[r].last \in BOOLEAN
          /\ req[r].stamp \in Nat
      BY <1>1, <1>2 DEF GoodReq, Reqs
    <3>2. 0 \in 0..MaxAttempts
      BY CalendarConstants
    <3> HIDE DEF Operations
    <3> QED
      BY <3>1, <3>2 DEF JobRows
  <2>3. j.status = "pending" /\ j.tries = 0 /\ (j.op # "cancel" => j.ext = None)
    BY <1>1, <1>2 DEF GoodReq
  <2> HIDE DEF j
  <2>4. /\ jobs' \in Seq(JobRows) /\ DOMAIN jobs' = DOMAIN jobs \cup {Len(jobs) + 1}
        /\ \A i \in DOMAIN jobs : jobs'[i] = jobs[i]
        /\ jobs'[Len(jobs) + 1] = j
    BY <1>1, <2>1, <2>2 DEF JobsTyped
  <2>5. JobsTyped'
    <3> SUFFICES ASSUME NEW i \in DOMAIN jobs'
                 PROVE  /\ IsOpen(i)' => jobs'[i].tries < MaxAttempts
                        /\ jobs'[i].op # "cancel" => jobs'[i].ext = None
      BY <2>4 DEF JobsTyped
    <3>1. CASE i \in DOMAIN jobs
      BY <1>1, <2>4, <3>1 DEF JobsTyped, IsOpen
    <3>2. CASE i = Len(jobs) + 1
      BY <2>3, <2>4, <3>2, CalendarConstants
    <3> QED
      BY <2>4, <3>1, <3>2
  <2> QED
    BY <1>1, <1>3, <1>4, <2>4, <2>5
<1> QED
  BY <1>5, <1>6

(* A job is submitted.                                                       *)
LEMMA SubmitKeeps ==
  ASSUME SyncInvariant, NEW r \in Requests, Submit(r)
  PROVE  SyncInvariant'
<1>1. /\ UNCHANGED <<interview, integration, sync, events, minted, wk, crashes>>
      /\ JobsTyped' /\ Started
      /\ \A i \in DOMAIN jobs : i \in DOMAIN jobs' /\ jobs'[i] = jobs[i]
  BY SubmitAdds
<1>2. PICK new : GoodReq(new) /\ req' = [req EXCEPT ![r] = new] /\ new.pc # "submit"
  BY SubmitAdds
<1>3. ReqsTyped'
  BY <1>2, RequestSteps DEF SyncInvariant
<1>4. RowsTyped' /\ EventsTyped'
  BY <1>1 DEF SyncInvariant, RowsTyped, EventsTyped
<1>5. WorkersTyped'
  BY <1>1, WorkersUndisturbed DEF SyncInvariant
<1>6. SyncRowStays'
  BY <1>1 DEF SyncInvariant, SyncRowStays, Exists
<1> QED
  BY <1>1, <1>3, <1>4, <1>5, <1>6 DEF SyncInvariant

(* An interview is deleted.                                                  *)
LEMMA DeleteKeeps ==
  ASSUME SyncInvariant, NEW r \in Requests, Delete(r)
  PROVE  SyncInvariant'
<1>1. /\ UNCHANGED <<integration, jobs, events, minted, wk, crashes>>
      /\ ReqsTyped /\ req' = [req EXCEPT ![r] = Ended("done")]
      /\ IF Exists THEN interview' = [interview EXCEPT !.status = "deleted"] /\ sync' = None
                   ELSE interview' = interview /\ sync' = sync
  BY DEF Delete, SyncInvariant
<1>2. PICK new : GoodReq(new) /\ new.pc # "submit" /\ req' = [req EXCEPT ![r] = new]
  BY <1>1, GoodReqs
<1>3. ReqsTyped' /\ (Started' => Started)
  BY <1>1, <1>2, RequestSteps DEF SyncInvariant, Started
<1>4. RowsTyped' /\ EventsTyped'
  BY <1>1 DEF SyncInvariant, RowsTyped, EventsTyped, RowStatuses
<1>5. JobsTyped' /\ WorkersTyped'
  BY <1>1, WorkersUndisturbed DEF SyncInvariant, JobsTyped, IsOpen
<1>6. SyncRowStays'
  BY <1>1, <1>3 DEF SyncInvariant, RowsTyped, SyncRowStays, Exists
<1> QED
  BY <1>3, <1>4, <1>5, <1>6 DEF SyncInvariant

(* What a worker loads.                                                      *)
LEMMA LoadLoads ==
  ASSUME SyncInvariant, NEW w \in Workers, NEW i \in DOMAIN jobs, Load(w, i)
  PROVE  /\ UNCHANGED <<interview, integration, sync, jobs, events, minted, req, crashes>>
         /\ IsOpen(i) /\ \A v \in Workers : wk[v].job # i
         /\ wk[w].pc = "idle" /\ DOMAIN wk' = Workers /\ wk'[w] \in Works
         /\ \A v \in Workers \ {w} : wk'[v] = wk[v]
         /\ wk'[w].job = i /\ wk'[w].rev = interview.rev /\ wk'[w].seen = sync
         /\ wk'[w].ext = KnownEvent(jobs[i])
         /\ \/ wk'[w].pc = "call" /\ wk'[w].outcome = "ok" /\ (jobs[i].op # "cancel" => Exists)
            \/ wk'[w].pc = "write" /\ wk'[w].outcome \in {"not_connected", "permanent"}
            \/ wk'[w].pc = "write" /\ wk'[w].outcome = "already" /\ AlreadySynced(jobs[i])
<1> DEFINE j == jobs[i]
           new == [pc |-> Route(j).pc, job |-> i, rev |-> LoadedRev(j), seen |-> sync,
                   ext |-> KnownEvent(j), outcome |-> Route(j).outcome]
<1>1. /\ UNCHANGED <<interview, integration, sync, jobs, events, minted, req, crashes>>
      /\ wk[w].pc = "idle" /\ i \in Runnable /\ wk' = [wk EXCEPT ![w] = new]
      /\ DOMAIN wk = Workers
  BY DEF Load, SyncInvariant, WorkersTyped
<1>2. j \in JobRows /\ i \in Nat
  BY DEF SyncInvariant, JobsTyped
<1>3. sync \in SyncRows \cup {None} /\ interview.rev \in Nat
  BY DEF SyncInvariant, RowsTyped
<1>4. KnownEvent(j) \in Nat \cup {None}
  BY <1>2, <1>3 DEF KnownEvent, HasEvent, SyncRows, JobRows
<1>5. \/ Route(j).pc = "call" /\ Route(j).outcome = "ok" /\ (j.op # "cancel" => Exists)
      \/ Route(j).pc = "write" /\ Route(j).outcome \in {"not_connected", "permanent"}
      \/ Route(j).pc = "write" /\ Route(j).outcome = "already" /\ AlreadySynced(j)
  <2>1. CASE integration = "absent"
    BY <2>1 DEF Route
  <2>2. CASE integration # "absent" /\ ~Exists
    BY <2>2 DEF Route
  <2>3. CASE integration # "absent" /\ Exists
    BY <2>3 DEF Route
  <2> QED
    BY <2>1, <2>2, <2>3
<1>6. new \in Works
  BY <1>2, <1>3, <1>4, <1>5 DEF Works, LoadedRev
<1>7. DOMAIN wk' = Workers /\ wk'[w] = new /\ \A v \in Workers \ {w} : wk'[v] = wk[v]
  BY <1>1
<1>8. IsOpen(i) /\ \A v \in Workers : wk[v].job # i
  BY <1>1 DEF Runnable, IsOpen
<1> QED
  BY <1>1, <1>5, <1>6, <1>7, <1>8 DEF LoadedRev

(* A worker takes a job.                                                     *)
LEMMA LoadKeeps ==
  ASSUME SyncInvariant, NEW w \in Workers, NEW i \in DOMAIN jobs, Load(w, i)
  PROVE  SyncInvariant'
<1>1. /\ UNCHANGED <<interview, integration, sync, jobs, events, minted, req, crashes>>
      /\ IsOpen(i) /\ \A v \in Workers : wk[v].job # i
      /\ DOMAIN wk' = Workers /\ wk'[w] \in Works /\ wk'[w].job = i
      /\ \A v \in Workers \ {w} : wk'[v] = wk[v]
  BY LoadLoads
<1>2. WorkersTyped'
  BY <1>1 DEF SyncInvariant, WorkersTyped, Busy, IsOpen
<1> QED
  BY <1>1, <1>2 DEF SyncInvariant, RowsTyped, JobsTyped, IsOpen, ReqsTyped, EventsTyped, SyncRowStays, Started, Exists

(* A busy worker.                                                            *)
LEMMA BusyWorks ==
  ASSUME SyncInvariant, NEW w \in Workers, Busy(w)
  PROVE  /\ wk[w] \in Works /\ wk[w].job \in DOMAIN jobs /\ IsOpen(wk[w].job)
         /\ jobs[wk[w].job] \in JobRows
         /\ \A v \in Workers \ {w} : wk[v].job # wk[w].job
BY DEF SyncInvariant, WorkersTyped, JobsTyped, Busy, IdleWork

(* The provider answers.                                                     *)
LEMMA CallCalls ==
  ASSUME SyncInvariant, NEW w \in Workers, Call(w)
  PROVE  LET id == TargetId(w) IN
         /\ UNCHANGED <<interview, integration, sync, jobs, req, crashes>>
         /\ wk[w].pc = "call" /\ id \in Nat
         /\ events' = IF jobs[wk[w].job].op = "cancel" THEN Without(id) ELSE With(id, wk[w].rev)
         /\ minted' = IF id > minted THEN id ELSE minted
         /\ DOMAIN wk' = Workers /\ wk'[w] \in Works /\ \A v \in Workers \ {w} : wk'[v] = wk[v]
         /\ wk'[w].pc = "write" /\ wk'[w].ext = id /\ wk'[w].job = wk[w].job /\ wk'[w].rev = wk[w].rev
         /\ wk'[w].seen = wk[w].seen /\ wk'[w].outcome = wk[w].outcome
<1> DEFINE id == TargetId(w)
           new == [wk[w] EXCEPT !.pc = "write", !.ext = id]
<1>1. /\ UNCHANGED <<interview, integration, sync, jobs, req, crashes>>
      /\ wk[w].pc = "call" /\ Busy(w) /\ DOMAIN wk = Workers /\ wk' = [wk EXCEPT ![w] = new]
      /\ events' = IF jobs[wk[w].job].op = "cancel" THEN Without(id) ELSE With(id, wk[w].rev)
      /\ minted' = IF id > minted THEN id ELSE minted
  BY DEF Call, SyncInvariant, WorkersTyped, Busy
<1>2. wk[w] \in Works
  BY <1>1, BusyWorks
<1>3. id \in Nat
  BY <1>2 DEF TargetId, Derived, Works, SyncInvariant, EventsTyped
<1> HIDE DEF id
<1>4. new \in Works /\ new.pc = "write" /\ new.ext = id /\ new.job = wk[w].job /\ new.rev = wk[w].rev
      /\ new.seen = wk[w].seen /\ new.outcome = wk[w].outcome
  BY <1>2, <1>3 DEF Works
<1>5. DOMAIN wk' = Workers /\ wk'[w] = new /\ \A v \in Workers \ {w} : wk'[v] = wk[v]
  BY <1>1
<1> HIDE DEF new
<1>6. /\ UNCHANGED <<interview, integration, sync, jobs, req, crashes>>
      /\ wk[w].pc = "call" /\ id \in Nat
      /\ events' = IF jobs[wk[w].job].op = "cancel" THEN Without(id) ELSE With(id, wk[w].rev)
      /\ minted' = IF id > minted THEN id ELSE minted
      /\ DOMAIN wk' = Workers /\ wk'[w] \in Works /\ \A v \in Workers \ {w} : wk'[v] = wk[v]
      /\ wk'[w].pc = "write" /\ wk'[w].ext = id /\ wk'[w].job = wk[w].job /\ wk'[w].rev = wk[w].rev
      /\ wk'[w].seen = wk[w].seen /\ wk'[w].outcome = wk[w].outcome
  BY <1>1, <1>3, <1>4, <1>5
<1> QED
  BY <1>6 DEF id

(* A worker goes on with its job.                                            *)
LEMMA WorkerGoesOn ==
  ASSUME WorkersTyped, NEW w \in Workers, Busy(w), jobs' = jobs,
         DOMAIN wk' = Workers, wk'[w] \in Works, wk'[w].job = wk[w].job,
         \A v \in Workers \ {w} : wk'[v] = wk[v]
  PROVE  WorkersTyped'
BY DEF WorkersTyped, Busy, IsOpen, IdleWork

(* An event is put there, changed or removed.                                *)
LEMMA CallKeeps ==
  ASSUME SyncInvariant, NEW w \in Workers, Call(w)
  PROVE  SyncInvariant'
<1> DEFINE id == TargetId(w)
<1>1. /\ UNCHANGED <<interview, integration, sync, jobs, req, crashes>>
      /\ wk[w].pc = "call" /\ id \in Nat
      /\ events' = IF jobs[wk[w].job].op = "cancel" THEN Without(id) ELSE With(id, wk[w].rev)
      /\ minted' = IF id > minted THEN id ELSE minted
  BY CallCalls
<1>2. /\ DOMAIN wk' = Workers /\ wk'[w] \in Works /\ \A v \in Workers \ {w} : wk'[v] = wk[v]
      /\ wk'[w].job = wk[w].job
  BY CallCalls
<1>3. Busy(w) /\ wk[w].rev \in Nat
  BY <1>1, BusyWorks DEF Busy, Works
<1>4. WorkersTyped'
  BY <1>1, <1>2, <1>3, WorkerGoesOn DEF SyncInvariant
<1>5. EventsTyped'
  <2> HIDE DEF id
  <2>1. minted \in Nat /\ minted' \in Nat /\ minted =< minted' /\ id =< minted'
    BY <1>1 DEF SyncInvariant, EventsTyped
  <2>2. \A e \in DOMAIN events' : \/ e \in DOMAIN events /\ events'[e] = events[e]
                                  \/ e = id /\ events'[e] = wk[w].rev
    BY <1>1 DEF Without, With
  <2> QED
    BY <1>1, <1>3, <2>1, <2>2 DEF SyncInvariant, EventsTyped
<1> QED
  BY <1>1, <1>4, <1>5 DEF SyncInvariant, RowsTyped, JobsTyped, IsOpen, ReqsTyped, SyncRowStays, Started, Exists

(* The provider fails.                                                       *)
LEMMA CallFailsKeeps ==
  ASSUME SyncInvariant, NEW w \in Workers, NEW o \in {"retryable", "permanent"}, CallFails(w, o)
  PROVE  /\ SyncInvariant'
         /\ UNCHANGED <<interview, integration, sync, jobs, events, minted, req, crashes>>
         /\ wk[w].pc = "call" /\ wk'[w] \in Works /\ \A v \in Workers \ {w} : wk'[v] = wk[v]
         /\ wk'[w].pc = "write" /\ wk'[w].outcome = o /\ wk'[w].job = wk[w].job
         /\ wk'[w].rev = wk[w].rev /\ wk'[w].seen = wk[w].seen
<1> DEFINE new == [wk[w] EXCEPT !.pc = "write", !.outcome = o]
<1>1. /\ UNCHANGED <<interview, integration, sync, jobs, events, minted, req, crashes>>
      /\ wk[w].pc = "call" /\ Busy(w) /\ DOMAIN wk = Workers /\ wk' = [wk EXCEPT ![w] = new]
  BY DEF CallFails, SyncInvariant, WorkersTyped, Busy
<1>2. wk[w] \in Works
  BY <1>1, BusyWorks
<1>3. new \in Works /\ new.pc = "write" /\ new.outcome = o /\ new.job = wk[w].job
      /\ new.rev = wk[w].rev /\ new.seen = wk[w].seen
  BY <1>2 DEF Works
<1> HIDE DEF new
<1>4. DOMAIN wk' = Workers /\ wk'[w] = new /\ \A v \in Workers \ {w} : wk'[v] = wk[v]
  BY <1>1
<1>5. WorkersTyped'
  BY <1>1, <1>3, <1>4, WorkerGoesOn DEF SyncInvariant
<1>6. SyncInvariant'
  BY <1>1, <1>5 DEF SyncInvariant, RowsTyped, JobsTyped, IsOpen, ReqsTyped, EventsTyped, SyncRowStays, Started, Exists
<1> QED
  BY <1>1, <1>3, <1>4, <1>6

(* A worker becomes idle; of the jobs only its own may have changed.         *)
LEMMA WorkerStops ==
  ASSUME WorkersTyped, NEW w \in Workers, Busy(w), wk' = [wk EXCEPT ![w] = IdleWork],
         DOMAIN jobs' = DOMAIN jobs, \A i \in DOMAIN jobs \ {wk[w].job} : jobs'[i] = jobs[i],
         0 \notin DOMAIN jobs
  PROVE  /\ WorkersTyped' /\ wk'[w] = IdleWork
         /\ \A v \in Workers \ {w} : wk'[v] = wk[v]
<1>1. /\ DOMAIN wk' = Workers /\ wk'[w] = IdleWork /\ \A v \in Workers \ {w} : wk'[v] = wk[v]
      /\ IdleWork.pc = "idle" /\ IdleWork.job = 0
  BY DEF WorkersTyped, IdleWork
<1>2. \A v \in Workers : Busy(v) => wk[v] \in Works /\ wk[v].job \in DOMAIN jobs /\ IsOpen(wk[v].job)
  BY <1>1 DEF WorkersTyped, Busy
<1>3. \A v \in Workers : wk'[v] = IdleWork
                         \/ (wk'[v] \in Works /\ wk'[v].job \in DOMAIN jobs' /\ IsOpen(wk[v].job)')
  <2> SUFFICES ASSUME NEW v \in Workers, v # w, Busy(v)
               PROVE  wk'[v] \in Works /\ wk'[v].job \in DOMAIN jobs' /\ IsOpen(wk[v].job)'
    BY <1>1 DEF WorkersTyped, Busy, IdleWork, Works
  <2>1. wk[v].job # wk[w].job
    BY DEF WorkersTyped
  <2> QED
    BY <1>1, <1>2, <2>1 DEF IsOpen
<1>4. \A u, v \in Workers : u # v /\ wk'[v].pc # "idle" => wk'[u].job # wk'[v].job
  <2> SUFFICES ASSUME NEW u \in Workers, NEW v \in Workers, u # v, wk'[v].pc # "idle"
               PROVE  wk'[u].job # wk'[v].job
    OBVIOUS
  <2>1. v # w /\ wk'[v] = wk[v] /\ Busy(v)
    BY <1>1 DEF Busy
  <2>2. wk[v].job \in DOMAIN jobs
    BY <1>2, <2>1
  <2> QED
    BY <1>1, <2>1, <2>2 DEF WorkersTyped
<1> QED
  BY <1>1, <1>3, <1>4 DEF WorkersTyped, Busy

(* It dies.                                                                  *)
LEMMA CrashKeeps ==
  ASSUME SyncInvariant, NEW w \in Workers, Crash(w)
  PROVE  /\ SyncInvariant'
         /\ UNCHANGED <<interview, integration, sync, jobs, events, minted, req>>
         /\ wk'[w] = IdleWork /\ \A v \in Workers \ {w} : wk'[v] = wk[v]
<1>1. /\ UNCHANGED <<interview, integration, sync, jobs, events, minted, req>>
      /\ Busy(w) /\ wk' = [wk EXCEPT ![w] = IdleWork] /\ crashes' = crashes + 1
  BY DEF Crash, Busy
<1>2. 0 \notin DOMAIN jobs
  BY DEF SyncInvariant, JobsTyped
<1>3. WorkersTyped' /\ wk'[w] = IdleWork /\ \A v \in Workers \ {w} : wk'[v] = wk[v]
  BY <1>1, <1>2, WorkerStops DEF SyncInvariant
<1>4. SyncInvariant'
  BY <1>1, <1>3 DEF SyncInvariant, RowsTyped, JobsTyped, IsOpen, ReqsTyped, EventsTyped, SyncRowStays, Started, Exists
<1> QED
  BY <1>1, <1>3, <1>4

(* How the row is written, for each way the job can have gone.               *)
LEMMA PersistedRow ==
  ASSUME NEW w \in Workers, wk[w] \in Works, sync \in SyncRows, wk[w].seen # None, wk[w].outcome # "already",
         NEW op \in Operations
  PROVE  LET seen == wk[w].seen
             new  == Persisted(w, op)
             is   == CASE wk[w].outcome = "ok" -> FinalStatus(op)
                       [] wk[w].outcome = "not_connected" -> "not_connected"
                       [] OTHER -> "failed"
             id   == IF wk[w].outcome = "ok" /\ seen.ext = None THEN wk[w].ext ELSE seen.ext
         IN  /\ new \in SyncRows
             /\ new.status = IF is = seen.status THEN sync.status ELSE is
             /\ new.ext = IF id = seen.ext THEN sync.ext ELSE id
<1> DEFINE seen == wk[w].seen
           is == CASE wk[w].outcome = "ok" -> FinalStatus(op)
                   [] wk[w].outcome = "not_connected" -> "not_connected"
                   [] OTHER -> "failed"
           id == IF wk[w].outcome = "ok" /\ seen.ext = None THEN wk[w].ext ELSE seen.ext
           row == [status |-> Flushed(sync.status, seen.status, is), ext |-> Flushed(sync.ext, seen.ext, id)]
<1>1. seen \in SyncRows /\ wk[w].ext \in Nat \cup {None}
      /\ wk[w].outcome \in {"ok", "retryable", "permanent", "not_connected"}
  BY DEF Works
<1>2. Persisted(w, op) = row
  <2>1. CASE wk[w].outcome = "ok"
    BY <2>1 DEF Persisted
  <2>2. CASE wk[w].outcome = "not_connected"
    BY <2>2 DEF Persisted
  <2>3. CASE wk[w].outcome \in {"retryable", "permanent"}
    BY <2>3 DEF Persisted
  <2> QED
    BY <1>1, <2>1, <2>2, <2>3
<1>3. /\ is \in {"not_connected", "synced", "failed", "cancelled"} /\ id \in Nat \cup {None}
      /\ sync.status \in {"not_connected", "pending", "synced", "failed", "cancelled"}
      /\ sync.ext \in Nat \cup {None}
  BY <1>1 DEF FinalStatus, SyncRows
<1> HIDE DEF is, id
<1>4. row \in SyncRows
  BY <1>3 DEF SyncRows, Flushed
<1>5. row.status = (IF is = seen.status THEN sync.status ELSE is) /\ row.ext = IF id = seen.ext THEN sync.ext ELSE id
  BY DEF Flushed
<1> HIDE DEF row
<1> QED
  BY <1>2, <1>4, <1>5 DEF is, id

(* A job's end: only its tries and status change.                            *)
LEMMA FinishedJob ==
  ASSUME SyncInvariant, NEW w \in Workers, Busy(w)
  PROVE  LET j == jobs[wk[w].job]
             new == Finished(j, wk[w].outcome)
         IN  /\ new \in JobRows /\ new.op = j.op /\ new.ext = j.ext
             /\ new.status \in {"pending", "retryable"} => new.tries < MaxAttempts
<1> DEFINE j == jobs[wk[w].job]
           new == Finished(j, wk[w].outcome)
<1>1. /\ j \in JobRows /\ j.tries < MaxAttempts /\ j.tries \in Nat /\ MaxAttempts \in Nat
      /\ wk[w].outcome \in {"ok", "retryable", "permanent", "not_connected", "already"}
  BY BusyWorks, CalendarConstants DEF SyncInvariant, JobsTyped, JobRows, Works
<1>2. CASE wk[w].outcome = "retryable"
  <2>1. new = [j EXCEPT !.tries = j.tries + 1,
                        !.status = IF j.tries + 1 >= MaxAttempts THEN "failed" ELSE "retryable"]
    BY <1>2 DEF Finished
  <2>2. j.tries + 1 \in 0..MaxAttempts /\ (j.tries + 1 >= MaxAttempts \/ j.tries + 1 < MaxAttempts)
    BY <1>1
  <2> HIDE DEF new, j
  <2> QED
    BY <1>1, <2>1, <2>2 DEF JobRows, j, new
<1>3. CASE wk[w].outcome = "permanent"
  <2>1. new = [j EXCEPT !.status = "failed"]
    BY <1>3 DEF Finished
  <2> QED
    BY <1>1, <2>1 DEF JobRows
<1>4. CASE wk[w].outcome \notin {"retryable", "permanent"}
  <2>1. new = [j EXCEPT !.status = "succeeded"]
    BY <1>4 DEF Finished
  <2> QED
    BY <1>1, <2>1 DEF JobRows
<1> QED
  BY <1>2, <1>3, <1>4

(* The transaction of a job's end.                                           *)
LEMMA WriteWrites ==
  ASSUME SyncInvariant, NEW w \in Workers, Write(w)
  PROVE  LET i == wk[w].job
             writesSync == wk[w].seen # None /\ wk[w].outcome # "already"
         IN  /\ UNCHANGED <<interview, integration, events, minted, req, crashes>>
             /\ wk[w].pc = "write" /\ wk' = [wk EXCEPT ![w] = IdleWork]
             /\ DOMAIN jobs' = DOMAIN jobs /\ \A k \in DOMAIN jobs \ {i} : jobs'[k] = jobs[k]
             /\ jobs'[i].op = jobs[i].op
             /\ sync' = (IF writesSync /\ sync # None THEN Persisted(w, jobs[i].op) ELSE sync)
             /\ JobsTyped'
<1> DEFINE i == wk[w].job
           writesSync == wk[w].seen # None /\ wk[w].outcome # "already"
<1>1. /\ UNCHANGED <<interview, integration, events, minted, req, crashes>>
      /\ wk[w].pc = "write" /\ Busy(w) /\ wk' = [wk EXCEPT ![w] = IdleWork]
  BY DEF Write, Busy
<1>2. i \in DOMAIN jobs /\ JobsTyped /\ jobs \in Seq(JobRows)
  BY <1>1, BusyWorks DEF SyncInvariant, JobsTyped
<1>3. CASE writesSync /\ sync = None
  <2>1. UNCHANGED <<sync, jobs>>
    BY <1>3 DEF Write
  <2> QED
    BY <1>1, <1>2, <1>3, <2>1 DEF JobsTyped, IsOpen
<1>4. CASE ~(writesSync /\ sync = None)
  <2> DEFINE new == Finished(jobs[i], wk[w].outcome)
  <2>1. /\ sync' = (IF writesSync THEN Persisted(w, jobs[i].op) ELSE sync)
        /\ jobs' = [jobs EXCEPT ![i] = new]
    BY <1>4 DEF Write
  <2>2. /\ new \in JobRows /\ new.op = jobs[i].op /\ new.ext = jobs[i].ext
        /\ new.status \in {"pending", "retryable"} => new.tries < MaxAttempts
    BY <1>1, FinishedJob
  <2> HIDE DEF new
  <2>3. /\ jobs' \in Seq(JobRows) /\ DOMAIN jobs' = DOMAIN jobs /\ jobs'[i] = new
        /\ \A k \in DOMAIN jobs \ {i} : jobs'[k] = jobs[k]
    BY <1>2, <2>1, <2>2
  <2>4. JobsTyped'
    BY <1>2, <2>2, <2>3 DEF JobsTyped, IsOpen
  <2> QED
    BY <1>1, <1>4, <2>1, <2>2, <2>3, <2>4
<1> QED
  BY <1>3, <1>4

(* A job ends.                                                               *)
LEMMA WriteKeeps ==
  ASSUME SyncInvariant, NEW w \in Workers, Write(w)
  PROVE  SyncInvariant'
<1> DEFINE i == wk[w].job
<1>1. /\ UNCHANGED <<interview, integration, events, minted, req, crashes>>
      /\ wk[w].pc = "write" /\ Busy(w) /\ wk' = [wk EXCEPT ![w] = IdleWork]
      /\ DOMAIN jobs' = DOMAIN jobs /\ \A k \in DOMAIN jobs \ {i} : jobs'[k] = jobs[k]
      /\ sync' = (IF wk[w].seen # None /\ wk[w].outcome # "already" /\ sync # None
                    THEN Persisted(w, jobs[i].op) ELSE sync)
      /\ JobsTyped'
  BY WriteWrites DEF Busy
<1>2. 0 \notin DOMAIN jobs /\ i \in DOMAIN jobs /\ wk[w] \in Works /\ jobs[i].op \in Operations
  BY <1>1, BusyWorks DEF SyncInvariant, JobsTyped, JobRows
<1>3. WorkersTyped'
  BY <1>1, <1>2, WorkerStops DEF SyncInvariant
<1>4. sync' \in SyncRows \cup {None} /\ ((sync' = None) <=> (sync = None))
  BY <1>1, <1>2, PersistedRow, NoneIsNothing DEF SyncInvariant, RowsTyped
<1>5. jobs' # <<>> /\ jobs # <<>>
  BY <1>1, <1>2
<1>6. SyncRowStays'
  BY <1>1, <1>4, <1>5 DEF SyncInvariant, SyncRowStays, Started, Exists
<1> QED
  BY <1>1, <1>3, <1>4, <1>6 DEF SyncInvariant, RowsTyped, ReqsTyped, EventsTyped

(* The steps.                                                                *)
LEMMA SyncPreserved == SyncInvariant /\ [Next]_vars => SyncInvariant'
<1> SUFFICES ASSUME SyncInvariant, [Next]_vars PROVE SyncInvariant'
  OBVIOUS
<1>1. CASE UNCHANGED vars
  BY <1>1 DEF vars, SyncInvariant, RowsTyped, JobsTyped, ReqsTyped, WorkersTyped, EventsTyped, SyncRowStays,
    Started, Exists, IsOpen, Busy
<1>2. ASSUME NEW r \in Requests, RequestStep(r) PROVE SyncInvariant'
  BY <1>2, CommitKeeps, BeginKeeps, MarkKeeps, SubmitKeeps, DeleteKeeps DEF RequestStep
<1>3. ASSUME NEW w \in Workers, WorkerStep(w) \/ Crash(w) PROVE SyncInvariant'
  BY <1>3, LoadKeeps, CallKeeps, CallFailsKeeps, WriteKeeps, CrashKeeps DEF WorkerStep
<1> QED
  BY <1>1, <1>2, <1>3, CreateKeeps, BeginKeeps DEF Next

(* Any number of recruiters and workers, whatever fails and crashes: what    *)
(* they write has its type.                                                  *)
THEOREM TypeCorrect == Spec => []TypeOK
<1> QED
  BY SyncInit, SyncPreserved, SyncInvariantTypes, PTL DEF Spec

-----------------------------------------------------------------------------
(* One worker.                                                               *)

OneWorker == \E w : Workers = {w}

(* Nobody else writes the event of a sync row, nor its status but to ask for *)
(* work or to say that there is no calendar.                                 *)
RowIsAsSeen(w) ==
  sync # None =>
    /\ wk[w].seen # None /\ sync.ext = wk[w].seen.ext
    /\ sync.status = wk[w].seen.status \/ sync.status \in {"pending", "not_connected"}

(* What it is about to write is so.                                          *)
OutcomeIsTrue(w) ==
  /\ wk[w].pc = "call" => wk[w].outcome = "ok"
  /\ wk[w].outcome \in {"ok", "already"} /\ wk[w].seen # None /\ wk[w].seen.ext # None => wk[w].ext = wk[w].seen.ext
  /\ wk[w].pc = "write" /\ wk[w].outcome = "ok" =>
       /\ wk[w].ext # None
       /\ (jobs[wk[w].job].op = "cancel") <=> (wk[w].ext \notin DOMAIN events)
  /\ wk[w].outcome = "already" =>
       wk[w].seen # None /\ wk[w].seen.status = "synced" /\ jobs[wk[w].job].op = "create"
  /\ wk[w].rev =< interview.rev
  /\ wk[w].pc = "call" => \A e \in DOMAIN events : events[e] =< wk[w].rev

(* A status that is not true will be corrected by a job that is open.        *)
OpenJob(cancels) == \E i \in DOMAIN jobs : IsOpen(i) /\ (cancels <=> jobs[i].op = "cancel")
StatusIsOwed ==
  sync # None =>
    /\ sync.status = "synced" /\ sync.ext \notin DOMAIN events => OpenJob(TRUE)
    /\ sync.status = "cancelled" /\ sync.ext \in DOMAIN events => OpenJob(FALSE)

(* The inductive invariant of one worker. No event shows a schedule that is  *)
(* newer than the interview's.                                               *)
WorkerInvariant ==
  /\ SyncInvariant
  /\ \A e \in DOMAIN events : events[e] =< interview.rev
  /\ \A w \in Workers : Busy(w) => RowIsAsSeen(w) /\ OutcomeIsTrue(w)
  /\ StatusIsOwed

(* Whatever comes of a request disturbs the worker only by marking the row,  *)
(* which is there while it works, or by deleting it.                         *)
LEMMA WorkerUndisturbed ==
  ASSUME WorkerInvariant, SyncInvariant', wk' = wk, events' = events,
         interview.rev =< interview'.rev,
         \A i \in DOMAIN jobs : i \in DOMAIN jobs' /\ jobs'[i] = jobs[i],
         \/ sync' = sync \/ sync' = None
         \/ /\ sync # None /\ sync'.ext = sync.ext
            /\ sync'.status = sync.status \/ sync'.status \in {"pending", "not_connected"}
         \/ /\ sync'.status \in {"pending", "not_connected"}
            /\ \A w \in Workers : ~Busy(w)
  PROVE  WorkerInvariant'
<1>1. interview.rev \in Nat /\ interview'.rev \in Nat
  BY DEF WorkerInvariant, SyncInvariant, RowsTyped
<1>2. \A e \in DOMAIN events : events[e] \in Nat
  BY DEF WorkerInvariant, SyncInvariant, EventsTyped
<1>3. ASSUME NEW w \in Workers, Busy(w) PROVE RowIsAsSeen(w)' /\ OutcomeIsTrue(w)'
  <2>1. wk[w] \in Works /\ wk[w].job \in DOMAIN jobs
    BY <1>3, BusyWorks DEF WorkerInvariant
  <2>2. RowIsAsSeen(w) /\ OutcomeIsTrue(w)
    BY <1>3 DEF WorkerInvariant
  <2>3. RowIsAsSeen(w)'
    BY <1>3, <2>2 DEF RowIsAsSeen
  <2>4. jobs'[wk[w].job] = jobs[wk[w].job] /\ wk[w].rev \in Nat
    BY <2>1 DEF Works
  <2>5. OutcomeIsTrue(w)'
    BY <1>1, <2>2, <2>4 DEF OutcomeIsTrue
  <2> QED
    BY <2>3, <2>5
<1>4. StatusIsOwed'
  <2>1. \A b \in BOOLEAN : OpenJob(b) => OpenJob(b)'
    BY DEF OpenJob, IsOpen
  <2> QED
    BY <2>1 DEF WorkerInvariant, StatusIsOwed
<1> QED
  BY <1>1, <1>2, <1>3, <1>4 DEF WorkerInvariant, Busy

(* A request steps.                                                          *)
LEMMA RequestKeepsWork ==
  ASSUME WorkerInvariant, NEW r \in Requests,
         \/ Create(r) \/ \E c \in Changes : Open(r, c) \/ Administer(r, c)
         \/ RequestStep(r)
  PROVE  WorkerInvariant'
<1>1. SyncInvariant /\ interview.rev \in Nat
  BY DEF WorkerInvariant, SyncInvariant, RowsTyped
<1>2. CASE Create(r) \/ Commit(r)
  <2>1. SyncInvariant' /\ interview.rev =< interview'.rev
    BY <1>1, <1>2, CreateKeeps, CommitKeeps
  <2>2. wk' = wk /\ events' = events /\ jobs' = jobs /\ sync' = sync
    BY <1>2 DEF Create, Commit
  <2> QED
    BY <2>1, <2>2, WorkerUndisturbed
<1>3. CASE Look(r) \/ \E c \in Changes : Open(r, c) \/ Administer(r, c)
  <2>1. SyncInvariant' /\ wk' = wk /\ events' = events /\ jobs' = jobs /\ sync' = sync /\ interview' = interview
    BY <1>1, <1>3, BeginKeeps DEF Look, Open, Administer
  <2> QED
    BY <1>1, <2>1, WorkerUndisturbed
<1>4. CASE Mark(r)
  <2>1. SyncInvariant' /\ wk' = wk /\ events' = events /\ jobs' = jobs /\ interview' = interview
    BY <1>1, <1>4, MarkKeeps DEF Mark
  <2>2. CASE sync' = sync
    BY <1>1, <2>1, <2>2, WorkerUndisturbed
  <2>3. CASE sync' # sync
    <3>1. /\ Exists
          /\ \/ sync # None /\ sync'.status = sync.status
             \/ sync'.status \in {"pending", "not_connected"}
          /\ sync # None => sync'.ext = sync.ext
      BY <1>1, <1>4, <2>3, MarkMarks
    <3>2. sync # None \/ \A w \in Workers : ~Busy(w)
      BY <1>1, <3>1, BusyWorks DEF SyncInvariant, SyncRowStays, Started
    <3> QED
      BY <1>1, <2>1, <3>1, <3>2, WorkerUndisturbed
  <2> QED
    BY <2>2, <2>3
<1>5. CASE Submit(r)
  <2>1. SyncInvariant' /\ wk' = wk /\ events' = events /\ sync' = sync /\ interview' = interview
    BY <1>1, <1>5, SubmitKeeps DEF Submit
  <2>2. \A i \in DOMAIN jobs : i \in DOMAIN jobs' /\ jobs'[i] = jobs[i]
    BY <1>1, <1>5, SubmitAdds
  <2> QED
    BY <1>1, <2>1, <2>2, WorkerUndisturbed
<1>6. CASE Delete(r)
  <2>1. SyncInvariant' /\ wk' = wk /\ events' = events /\ jobs' = jobs
    BY <1>1, <1>6, DeleteKeeps DEF Delete
  <2>2. interview'.rev = interview.rev /\ (sync' = sync \/ sync' = None)
    BY <1>6 DEF Delete, WorkerInvariant, SyncInvariant, RowsTyped
  <2> QED
    BY <1>1, <2>1, <2>2, WorkerUndisturbed
<1> QED
  BY <1>2, <1>3, <1>4, <1>5, <1>6 DEF RequestStep

(* The worker takes a job.                                                   *)
LEMMA LoadKeepsWork ==
  ASSUME WorkerInvariant, NEW w, Workers = {w}, NEW i \in DOMAIN jobs, Load(w, i)
  PROVE  WorkerInvariant'
<1>1. SyncInvariant /\ SyncInvariant' /\ interview.rev \in Nat
  BY LoadKeeps DEF WorkerInvariant, SyncInvariant, RowsTyped
<1>2. /\ UNCHANGED <<interview, integration, sync, jobs, events, minted, req, crashes>>
      /\ wk'[w].job = i /\ wk'[w].rev = interview.rev /\ wk'[w].seen = sync
      /\ wk'[w].ext = KnownEvent(jobs[i])
      /\ \/ wk'[w].pc = "call" /\ wk'[w].outcome = "ok"
         \/ wk'[w].pc = "write" /\ wk'[w].outcome \in {"not_connected", "permanent"}
         \/ wk'[w].pc = "write" /\ wk'[w].outcome = "already" /\ AlreadySynced(jobs[i])
  BY <1>1, LoadLoads
<1>3. RowIsAsSeen(w)'
  BY <1>2 DEF RowIsAsSeen
<1>4. OutcomeIsTrue(w)'
  <2>1. sync # None /\ sync.ext # None => wk'[w].ext = sync.ext
    BY <1>2 DEF KnownEvent, HasEvent
  <2>2. AlreadySynced(jobs[i]) => sync # None /\ sync.status = "synced" /\ jobs[i].op = "create"
    BY DEF AlreadySynced, HasEvent
  <2>3. \A e \in DOMAIN events : events[e] =< interview.rev
    BY DEF WorkerInvariant
  <2> QED
    BY <1>1, <1>2, <2>1, <2>2, <2>3 DEF OutcomeIsTrue
<1>5. StatusIsOwed'
  BY <1>2 DEF WorkerInvariant, StatusIsOwed, OpenJob, IsOpen
<1> QED
  BY <1>1, <1>2, <1>3, <1>4, <1>5 DEF WorkerInvariant

(* The provider does what the job says, which is open.                       *)
LEMMA CallKeepsWork ==
  ASSUME WorkerInvariant, NEW w, Workers = {w}, Call(w)
  PROVE  WorkerInvariant'
<1> DEFINE id == TargetId(w)
           i  == wk[w].job
<1>1. SyncInvariant /\ SyncInvariant' /\ interview.rev \in Nat
  BY CallKeeps DEF WorkerInvariant, SyncInvariant, RowsTyped
<1>2. /\ UNCHANGED <<interview, integration, sync, jobs, req, crashes>>
      /\ wk[w].pc = "call" /\ Busy(w) /\ id \in Nat
      /\ events' = IF jobs[i].op = "cancel" THEN Without(id) ELSE With(id, wk[w].rev)
      /\ wk'[w].pc = "write" /\ wk'[w].ext = id /\ wk'[w].job = i /\ wk'[w].rev = wk[w].rev
      /\ wk'[w].seen = wk[w].seen /\ wk'[w].outcome = wk[w].outcome
  BY <1>1, CallCalls DEF Busy
<1>3. RowIsAsSeen(w) /\ OutcomeIsTrue(w) /\ wk[w].outcome = "ok"
  BY <1>2 DEF WorkerInvariant, OutcomeIsTrue
<1>4. i \in DOMAIN jobs /\ IsOpen(i) /\ wk[w].rev \in Nat
  BY <1>1, <1>2, BusyWorks DEF Works
<1>5. id = wk[w].ext \/ wk[w].ext = None
  BY DEF TargetId
<1> HIDE DEF id
<1>6. /\ jobs[i].op = "cancel" => /\ DOMAIN events' = DOMAIN events \ {id}
                                  /\ \A e \in DOMAIN events' : events'[e] = events[e]
      /\ jobs[i].op # "cancel" => /\ DOMAIN events' = DOMAIN events \cup {id}
                                  /\ \A e \in DOMAIN events' : events'[e] = events[e] \/ events'[e] = wk[w].rev
                                  /\ \A e \in DOMAIN events' \ {id} : events'[e] = events[e]
  BY <1>2 DEF Without, With
<1>7. \A e \in DOMAIN events' : events'[e] =< interview'.rev
  BY <1>2, <1>3, <1>6 DEF WorkerInvariant, OutcomeIsTrue, With
<1>8. RowIsAsSeen(w)'
  BY <1>2, <1>3 DEF RowIsAsSeen
<1>9. OutcomeIsTrue(w)'
  <2>1. id # None /\ ((jobs[i].op = "cancel") <=> (id \notin DOMAIN events'))
    BY <1>2, <1>6, NoneIsNothing
  <2> QED
    BY <1>2, <1>3, <1>5, <2>1 DEF OutcomeIsTrue
<1>10. StatusIsOwed'
  <2>1. OpenJob(TRUE)' \/ OpenJob(FALSE)'
    BY <1>2, <1>4 DEF OpenJob, IsOpen
  <2>2. jobs[i].op = "cancel" => OpenJob(TRUE)'
    BY <1>2, <1>4 DEF OpenJob, IsOpen
  <2>3. jobs[i].op # "cancel" => OpenJob(FALSE)'
    BY <1>2, <1>4 DEF OpenJob, IsOpen
  <2>4. (OpenJob(TRUE) => OpenJob(TRUE)') /\ (OpenJob(FALSE) => OpenJob(FALSE)')
    BY <1>2 DEF OpenJob, IsOpen
  <2> QED
    BY <1>2, <1>6, <2>2, <2>3, <2>4 DEF WorkerInvariant, StatusIsOwed
<1> QED
  BY <1>1, <1>7, <1>8, <1>9, <1>10 DEF WorkerInvariant

(* The provider fails, or the worker dies.                                   *)
LEMMA FaultKeepsWork ==
  ASSUME WorkerInvariant, NEW w, Workers = {w},
         Crash(w) \/ \E o \in {"retryable", "permanent"} : CallFails(w, o)
  PROVE  WorkerInvariant'
<1>1. SyncInvariant /\ StatusIsOwed /\ \A e \in DOMAIN events : events[e] =< interview.rev
  BY DEF WorkerInvariant
<1>2. ASSUME SyncInvariant', UNCHANGED <<interview, sync, jobs, events>>,
             Busy(w)' => RowIsAsSeen(w)' /\ OutcomeIsTrue(w)'
      PROVE  WorkerInvariant'
  <2>1. StatusIsOwed'
    BY <1>1, <1>2 DEF StatusIsOwed, OpenJob, IsOpen
  <2> QED
    BY <1>1, <1>2, <2>1 DEF WorkerInvariant
<1>3. CASE Crash(w)
  <2>1. SyncInvariant' /\ UNCHANGED <<interview, sync, jobs, events>> /\ ~Busy(w)'
    BY <1>1, <1>3, CrashKeeps DEF Busy, IdleWork
  <2> QED
    BY <1>2, <2>1
<1>4. ASSUME NEW o \in {"retryable", "permanent"}, CallFails(w, o) PROVE WorkerInvariant'
  <2>1. /\ SyncInvariant' /\ UNCHANGED <<interview, sync, jobs, events>> /\ Busy(w)
        /\ wk'[w].pc = "write" /\ wk'[w].outcome = o /\ wk'[w].job = wk[w].job
        /\ wk'[w].rev = wk[w].rev /\ wk'[w].seen = wk[w].seen
    BY <1>1, <1>4, CallFailsKeeps DEF Busy
  <2>2. RowIsAsSeen(w) /\ OutcomeIsTrue(w)
    BY <2>1 DEF WorkerInvariant
  <2>3. RowIsAsSeen(w)' /\ OutcomeIsTrue(w)'
    BY <2>1, <2>2 DEF RowIsAsSeen, OutcomeIsTrue
  <2> QED
    BY <1>2, <2>1, <2>3
<1> QED
  BY <1>3, <1>4

(* A job ends: it wrote the truth, or left it to another job.                *)
LEMMA WriteKeepsWork ==
  ASSUME WorkerInvariant, NEW w, Workers = {w}, Write(w)
  PROVE  WorkerInvariant'
<1> DEFINE i == wk[w].job
           seen == wk[w].seen
<1>1. SyncInvariant /\ SyncInvariant' /\ 0 \notin DOMAIN jobs
  BY WriteKeeps DEF WorkerInvariant, SyncInvariant, JobsTyped
<1>2. /\ UNCHANGED <<interview, integration, events, minted, req, crashes>>
      /\ wk[w].pc = "write" /\ Busy(w) /\ wk' = [wk EXCEPT ![w] = IdleWork]
      /\ DOMAIN jobs' = DOMAIN jobs /\ \A k \in DOMAIN jobs \ {i} : jobs'[k] = jobs[k]
      /\ jobs'[i].op = jobs[i].op
      /\ sync' = (IF seen # None /\ wk[w].outcome # "already" /\ sync # None
                    THEN Persisted(w, jobs[i].op) ELSE sync)
  BY <1>1, WriteWrites DEF Busy
<1>3. /\ RowIsAsSeen(w) /\ OutcomeIsTrue(w)
      /\ wk[w] \in Works /\ jobs[i].op \in Operations /\ i \in DOMAIN jobs
      /\ sync \in SyncRows \cup {None}
  BY <1>1, <1>2, BusyWorks DEF WorkerInvariant, JobRows, SyncInvariant, RowsTyped
<1>4. ~Busy(w)'
  BY <1>1, <1>2 DEF Busy, IdleWork, SyncInvariant, WorkersTyped
<1>5. StatusIsOwed'
  <2> SUFFICES ASSUME sync' # None
               PROVE  /\ sync'.status = "synced" /\ sync'.ext \notin DOMAIN events => OpenJob(TRUE)'
                      /\ sync'.status = "cancelled" /\ sync'.ext \in DOMAIN events => OpenJob(FALSE)'
    BY <1>2 DEF StatusIsOwed
  <2>1. sync # None
    BY <1>2
  <2>2. /\ seen # None /\ sync.ext = seen.ext
        /\ sync.status = seen.status \/ sync.status \in {"pending", "not_connected"}
    BY <1>3, <2>1 DEF RowIsAsSeen
  <2>3. CASE wk[w].outcome = "already"
    <3>1. sync' = sync /\ seen.status = "synced" /\ jobs[i].op = "create" /\ StatusIsOwed
      BY <1>2, <1>3, <2>3 DEF OutcomeIsTrue, WorkerInvariant
    <3>2. OpenJob(TRUE) => OpenJob(TRUE)'
      BY <1>2, <3>1 DEF OpenJob, IsOpen
    <3> QED
      BY <2>1, <2>2, <3>1, <3>2 DEF StatusIsOwed
  <2>4. CASE wk[w].outcome = "ok"
    <3> DEFINE is == FinalStatus(jobs[i].op)
               id == IF seen.ext = None THEN wk[w].ext ELSE seen.ext
    <3>1. /\ sync'.status = IF is = seen.status THEN sync.status ELSE is
          /\ sync'.ext = IF id = seen.ext THEN sync.ext ELSE id
      BY <1>2, <1>3, <2>1, <2>2, <2>4, PersistedRow
    <3>2. id = wk[w].ext /\ ((jobs[i].op = "cancel") <=> (wk[w].ext \notin DOMAIN events))
      BY <1>2, <1>3, <2>2, <2>4 DEF OutcomeIsTrue
    <3>3. sync'.ext = wk[w].ext
      BY <2>2, <3>1, <3>2
    <3>4. is = IF jobs[i].op = "cancel" THEN "cancelled" ELSE "synced"
      BY DEF FinalStatus
    <3> HIDE DEF is, id
    <3> QED
      BY <2>2, <3>1, <3>2, <3>3, <3>4
  <2>5. CASE wk[w].outcome \in {"not_connected", "retryable", "permanent"}
    <3> DEFINE is == IF wk[w].outcome = "not_connected" THEN "not_connected" ELSE "failed"
    <3>1. sync'.status = IF is = seen.status THEN sync.status ELSE is
      BY <1>2, <1>3, <2>1, <2>2, <2>5, PersistedRow
    <3> QED
      BY <2>2, <3>1
  <2> QED
    BY <1>3, <2>3, <2>4, <2>5 DEF Works
<1> QED
  BY <1>1, <1>2, <1>4, <1>5 DEF WorkerInvariant

(* Initially.                                                                *)
LEMMA WorkerInit == Init => WorkerInvariant
<1> SUFFICES ASSUME Init PROVE WorkerInvariant
  OBVIOUS
<1>1. StatusIsOwed /\ \A w \in Workers : ~Busy(w)
  BY DEF Init, StatusIsOwed, Busy, IdleWork
<1> QED
  BY <1>1, SyncInit DEF Init, WorkerInvariant

(* The steps.                                                                *)
LEMMA WorkerPreserved == OneWorker /\ WorkerInvariant /\ [Next]_vars => WorkerInvariant'
<1> SUFFICES ASSUME OneWorker, WorkerInvariant, [Next]_vars PROVE WorkerInvariant'
  OBVIOUS
<1> PICK w : Workers = {w}
  BY DEF OneWorker
<1>1. CASE UNCHANGED vars
  <2>1. SyncInvariant' /\ wk' = wk /\ events' = events /\ jobs' = jobs /\ sync' = sync /\ interview' = interview
    BY <1>1, SyncPreserved DEF vars, WorkerInvariant
  <2>2. interview.rev \in Nat
    BY DEF WorkerInvariant, SyncInvariant, RowsTyped
  <2> QED
    BY <2>1, <2>2, WorkerUndisturbed
<1>2. ASSUME WorkerStep(w) \/ Crash(w) PROVE WorkerInvariant'
  BY <1>2, LoadKeepsWork, CallKeepsWork, FaultKeepsWork, WriteKeepsWork DEF WorkerStep
<1> QED
  BY <1>1, <1>2, RequestKeepsWork DEF Next

(* With no job open the status is true.                                      *)
LEMMA WorkerInvariantTells == WorkerInvariant => StatusIsTrue
<1> SUFFICES ASSUME WorkerInvariant, WorkersDone, sync # None
             PROVE  /\ sync.status = "synced" => sync.ext \in DOMAIN events
                    /\ sync.status = "cancelled" => sync.ext \notin DOMAIN events
  BY DEF StatusIsTrue
<1>1. \A w \in Workers : wk[w].job \notin DOMAIN jobs
  BY DEF WorkersDone, WorkerInvariant, SyncInvariant, WorkersTyped, JobsTyped, IdleWork, Works
<1>2. \A i \in DOMAIN jobs : ~IsOpen(i)
  BY <1>1 DEF WorkersDone, Runnable, IsOpen
<1> QED
  BY <1>2 DEF WorkerInvariant, StatusIsOwed, OpenJob

(* With one worker process, which may crash and whose calls of the provider  *)
(* may fail, any number of requests leave the sync row with a status that is *)
(* true as soon as the queue is empty.                                       *)
THEOREM OneWorkerTellsTruth ==
  ASSUME OneWorker
  PROVE  Spec => []StatusIsTrue
<1>1. WorkerInvariant /\ [Next]_vars => WorkerInvariant'
  BY WorkerPreserved
<1> QED
  BY <1>1, WorkerInit, WorkerInvariantTells, PTL DEF Spec

-----------------------------------------------------------------------------
(* One worker that does not crash.                                           *)

(* Every event is the one a sync row names, or the one a worker is about to  *)
(* enter there.                                                              *)
AllAre(x) == \A e \in DOMAIN events : e = x
KnownTo(w) == IF wk[w].pc = "write" /\ wk[w].outcome = "ok" THEN wk[w].ext ELSE wk[w].seen.ext
EventIsKnown ==
  /\ \A d, e \in DOMAIN events : d = e
  /\ sync = None /\ interview.status # "deleted" => DOMAIN events = {}
  /\ sync # None /\ (\A w \in Workers : ~Busy(w)) => AllAre(sync.ext)
  /\ \A w \in Workers : Busy(w) /\ wk[w].seen # None => AllAre(KnownTo(w))
  /\ \A w \in Workers : wk[w].pc = "call" /\ jobs[wk[w].job].op # "cancel" =>
       wk[w].seen # None /\ wk[w].ext = wk[w].seen.ext

(* The inductive invariant.                                                  *)
OneEventInvariant == WorkerInvariant /\ EventIsKnown

(* Events are numbered.                                                      *)
LEMMA NoEventIsNone == SyncInvariant => None \notin DOMAIN events /\ (AllAre(None) <=> DOMAIN events = {})
<1> SUFFICES ASSUME SyncInvariant PROVE None \notin DOMAIN events /\ (AllAre(None) <=> DOMAIN events = {})
  OBVIOUS
<1>1. DOMAIN events \subseteq Nat
  BY DEF SyncInvariant, EventsTyped
<1>2. None \notin DOMAIN events
  BY <1>1, NoneIsNothing
<1> QED
  BY <1>2 DEF AllAre

(* Requests leave it, for the row they mark names the same event.            *)
LEMMA RequestKeepsEvent ==
  ASSUME OneEventInvariant, NEW w, Workers = {w}, NEW r \in Requests,
         \/ Create(r) \/ \E c \in Changes : Open(r, c) \/ Administer(r, c)
         \/ RequestStep(r)
  PROVE  EventIsKnown'
<1>1. SyncInvariant /\ EventIsKnown
  BY DEF OneEventInvariant, WorkerInvariant
<1>2. wk' = wk /\ events' = events
  BY DEF Create, Open, Administer, RequestStep, Commit, Look, Mark, Submit, Delete
<1>3. \A v \in Workers : Busy(v) => jobs'[wk[v].job] = jobs[wk[v].job]
  <2>1. jobs' = jobs \/ Submit(r)
    BY DEF Create, Open, Administer, RequestStep, Commit, Look, Mark, Delete
  <2> QED
    BY <1>1, <2>1, BusyWorks, SubmitAdds
<1>4. ASSUME NEW x PROVE AllAre(x)' <=> AllAre(x)
  BY <1>2 DEF AllAre
<1>5. /\ \A d, e \in DOMAIN events' : d = e
      /\ \A v \in Workers : Busy(v)' /\ wk'[v].seen # None => AllAre(KnownTo(v))'
      /\ \A v \in Workers : wk'[v].pc = "call" /\ jobs'[wk'[v].job].op # "cancel" =>
           wk'[v].seen # None /\ wk'[v].ext = wk'[v].seen.ext
  BY <1>1, <1>2, <1>3 DEF EventIsKnown, Busy, AllAre, KnownTo
<1>6. /\ sync' = None /\ interview'.status # "deleted" => DOMAIN events' = {}
      /\ sync' # None /\ (\A v \in Workers : ~Busy(v)) => AllAre(sync'.ext)
  <2>1. CASE Mark(r) /\ sync' # sync
    <3>1. sync' \in SyncRows /\ sync'.ext = (IF sync = None THEN None ELSE sync.ext) /\ Exists
      BY <1>1, <2>1, MarkMarks
    <3>2. sync = None => DOMAIN events = {}
      BY <1>1, <3>1 DEF EventIsKnown, Exists
    <3>3. sync' # None
      BY <3>1, NoneIsNothing
    <3> QED
      BY <1>1, <1>2, <3>1, <3>2, <3>3, NoEventIsNone DEF EventIsKnown
  <2>2. CASE Delete(r) /\ Exists
    <3>1. interview'.status = "deleted" /\ sync' = None
      BY <1>1, <2>2 DEF Delete, SyncInvariant, RowsTyped
    <3> QED
      BY <3>1
  <2>3. CASE ~(Mark(r) /\ sync' # sync) /\ ~(Delete(r) /\ Exists)
    <3>1. sync' = sync
      BY <2>3 DEF Create, Open, Administer, RequestStep, Commit, Look, Submit, Delete
    <3>2. interview.status # "deleted" \/ interview'.status = "deleted"
      BY <2>3 DEF Create, Open, Administer, RequestStep, Commit, Look, Mark, Submit, Delete, Exists
    <3> QED
      BY <1>1, <1>2, <3>1, <3>2 DEF EventIsKnown
  <2> QED
    BY <2>1, <2>2, <2>3
<1> QED
  BY <1>2, <1>4, <1>5, <1>6 DEF EventIsKnown, Busy, AllAre

(* The worker finds the event of the row: a job for an interview that is     *)
(* there is never without a row.                                             *)
LEMMA LoadKeepsEvent ==
  ASSUME OneEventInvariant, NEW w, Workers = {w}, NEW i \in DOMAIN jobs, Load(w, i)
  PROVE  EventIsKnown'
<1>1. SyncInvariant /\ EventIsKnown
  BY DEF OneEventInvariant, WorkerInvariant
<1>2. /\ UNCHANGED <<interview, sync, jobs, events>>
      /\ wk[w].pc = "idle" /\ wk'[w] \in Works
      /\ wk'[w].job = i /\ wk'[w].seen = sync /\ wk'[w].ext = KnownEvent(jobs[i])
      /\ wk'[w].pc = "call" /\ jobs[i].op # "cancel" => Exists
      /\ wk'[w].pc = "write" => wk'[w].outcome # "ok"
  BY <1>1, LoadLoads
<1>3. ASSUME sync # None PROVE AllAre(KnownTo(w))'
  <2>1. AllAre(sync.ext)
    BY <1>1, <1>2, <1>3 DEF EventIsKnown, Busy
  <2> QED
    BY <1>2, <2>1 DEF AllAre, KnownTo
<1>4. ASSUME wk'[w].pc = "call", jobs[i].op # "cancel"
      PROVE  sync # None /\ KnownEvent(jobs[i]) = sync.ext
  <2>1. sync # None
    BY <1>1, <1>2, <1>4 DEF SyncInvariant, SyncRowStays, Started
  <2>2. jobs[i].ext = None
    BY <1>1, <1>4 DEF SyncInvariant, JobsTyped
  <2> QED
    BY <2>1, <2>2 DEF KnownEvent, HasEvent
<1>5. Busy(w)'
  BY <1>2 DEF Busy, Works
<1> QED
  BY <1>1, <1>2, <1>3, <1>4, <1>5 DEF EventIsKnown, AllAre

(* The provider makes an event only if there is none.                        *)
LEMMA CallKeepsEvent ==
  ASSUME OneEventInvariant, NEW w, Workers = {w}, Call(w)
  PROVE  EventIsKnown'
<1> DEFINE id == TargetId(w)
           op == jobs[wk[w].job].op
<1>1. SyncInvariant /\ EventIsKnown /\ OutcomeIsTrue(w) /\ Busy(w)
  BY DEF OneEventInvariant, WorkerInvariant, Call, Busy
<1>2. /\ UNCHANGED <<interview, sync, jobs>>
      /\ wk[w].pc = "call" /\ id \in Nat
      /\ events' = IF op = "cancel" THEN Without(id) ELSE With(id, wk[w].rev)
      /\ wk'[w].pc = "write" /\ wk'[w].ext = id /\ wk'[w].job = wk[w].job
      /\ wk'[w].seen = wk[w].seen /\ wk'[w].outcome = wk[w].outcome
  BY <1>1, CallCalls
<1>3. wk[w].outcome = "ok" /\ KnownTo(w) = wk[w].seen.ext
  BY <1>1, <1>2 DEF OutcomeIsTrue, KnownTo
<1>4. id = wk[w].ext \/ wk[w].ext = None
  BY DEF TargetId
<1>5. wk[w].seen # None => AllAre(wk[w].seen.ext)
  BY <1>1, <1>3 DEF EventIsKnown
<1>6. KnownTo(w)' = id
  BY <1>2, <1>3 DEF KnownTo
<1> HIDE DEF id
<1>7. CASE op = "cancel"
  <2>1. DOMAIN events' = DOMAIN events \ {id}
    BY <1>2, <1>7 DEF Without
  <2>2. wk[w].seen # None => \A e \in DOMAIN events' : e = id
    <3>1. ASSUME wk[w].seen # None PROVE \A e \in DOMAIN events \ {id} : e = id
      <4>1. CASE wk[w].seen.ext = None
        BY <1>1, <1>5, <3>1, <4>1, NoEventIsNone
      <4>2. CASE wk[w].seen.ext # None
        BY <1>1, <1>3, <1>4, <1>5, <3>1, <4>2 DEF OutcomeIsTrue, AllAre
      <4> QED
        BY <4>1, <4>2
    <3> QED
      BY <2>1, <3>1
  <2>3. wk'[w].seen # None => AllAre(KnownTo(w))'
    BY <1>2, <1>6, <2>2 DEF AllAre
  <2>4. sync # None /\ (\A v \in Workers : ~Busy(v))' => AllAre(sync.ext)'
    <3>1. ASSUME sync # None PROVE \A e \in DOMAIN events' : e = sync.ext
      <4>1. wk[w].seen # None /\ sync.ext = wk[w].seen.ext
        BY <1>1, <3>1 DEF OneEventInvariant, WorkerInvariant, RowIsAsSeen
      <4> QED
        BY <1>5, <2>1, <4>1 DEF AllAre
    <3> QED
      BY <1>2, <3>1 DEF AllAre
  <2> QED
    BY <1>1, <1>2, <2>1, <2>3, <2>4 DEF EventIsKnown
<1>8. CASE op # "cancel"
  <2>1. DOMAIN events' = DOMAIN events \cup {id}
    BY <1>2, <1>8 DEF With
  <2>2. wk[w].seen # None /\ wk[w].ext = wk[w].seen.ext
    BY <1>1, <1>2, <1>8 DEF EventIsKnown
  <2>3. \A e \in DOMAIN events : e = id
    <3>1. CASE wk[w].ext = None
      BY <1>1, <1>5, <2>2, <3>1, NoEventIsNone
    <3>2. CASE wk[w].ext # None
      BY <1>4, <1>5, <2>2, <3>2 DEF AllAre
    <3> QED
      BY <3>1, <3>2
  <2>4. sync = None => interview.status = "deleted"
    <3>1. Started /\ interview.status # "absent"
      BY <1>1, BusyWorks DEF SyncInvariant, SyncRowStays, Started
    <3> QED
      BY <1>1, <3>1 DEF SyncInvariant, SyncRowStays, Exists
  <2>5. \A e \in DOMAIN events' : e = id
    BY <2>1, <2>3
  <2>6. AllAre(KnownTo(w))'
    BY <1>6, <2>5 DEF AllAre
  <2>7. Busy(w)'
    BY <1>2 DEF Busy
  <2> QED
    BY <1>2, <2>4, <2>5, <2>6, <2>7 DEF EventIsKnown
<1> QED
  BY <1>7, <1>8

(* It fails.                                                                 *)
LEMMA CallFailsKeepsEvent ==
  ASSUME OneEventInvariant, NEW w, Workers = {w}, NEW o \in {"retryable", "permanent"}, CallFails(w, o)
  PROVE  EventIsKnown'
<1>1. SyncInvariant /\ EventIsKnown
  BY DEF OneEventInvariant, WorkerInvariant
<1>2. /\ UNCHANGED <<interview, sync, jobs, events>>
      /\ wk[w].pc = "call" /\ wk'[w].pc = "write" /\ wk'[w].outcome = o /\ wk'[w].seen = wk[w].seen
  BY <1>1, CallFailsKeeps
<1>3. KnownTo(w)' = KnownTo(w)
  BY <1>2 DEF KnownTo
<1> QED
  BY <1>1, <1>2, <1>3 DEF EventIsKnown, Busy, AllAre

(* The row takes the event the worker knows.                                 *)
LEMMA WriteKeepsEvent ==
  ASSUME OneEventInvariant, NEW w, Workers = {w}, Write(w)
  PROVE  EventIsKnown'
<1> DEFINE i == wk[w].job
           seen == wk[w].seen
<1>1. SyncInvariant /\ EventIsKnown /\ OutcomeIsTrue(w) /\ RowIsAsSeen(w) /\ Busy(w)
  BY DEF OneEventInvariant, WorkerInvariant, Write, Busy
<1>2. /\ UNCHANGED <<interview, events>>
      /\ wk[w].pc = "write" /\ wk' = [wk EXCEPT ![w] = IdleWork] /\ DOMAIN wk = Workers
      /\ sync' = (IF seen # None /\ wk[w].outcome # "already" /\ sync # None
                    THEN Persisted(w, jobs[i].op) ELSE sync)
  BY <1>1, WriteWrites DEF SyncInvariant, WorkersTyped
<1>3. wk[w] \in Works /\ jobs[i].op \in Operations /\ sync \in SyncRows \cup {None}
  BY <1>1, BusyWorks DEF JobRows, SyncInvariant, RowsTyped
<1>4. ~Busy(w)' /\ wk'[w].pc = "idle"
  BY <1>2 DEF Busy, IdleWork
<1>5. (sync' = None) <=> (sync = None)
  BY <1>2, <1>3, PersistedRow, NoneIsNothing
<1>6. ASSUME sync # None PROVE AllAre(sync'.ext)
  <2>1. seen # None /\ sync.ext = seen.ext
    BY <1>1, <1>6 DEF RowIsAsSeen
  <2>2. AllAre(KnownTo(w))
    BY <1>1, <2>1 DEF EventIsKnown
  <2>3. CASE wk[w].outcome = "already"
    BY <1>2, <2>1, <2>2, <2>3 DEF KnownTo
  <2>4. CASE wk[w].outcome # "already"
    <3> DEFINE id == IF wk[w].outcome = "ok" /\ seen.ext = None THEN wk[w].ext ELSE seen.ext
    <3>1. sync'.ext = IF id = seen.ext THEN sync.ext ELSE id
      BY <1>2, <1>3, <1>6, <2>1, <2>4, PersistedRow
    <3>2. id = KnownTo(w)
      BY <1>1, <1>2, <2>1 DEF KnownTo, OutcomeIsTrue
    <3> QED
      BY <2>1, <2>2, <3>1, <3>2
  <2> QED
    BY <2>3, <2>4
<1>7. interview' = interview /\ events' = events
  BY <1>2
<1> QED
  BY <1>1, <1>4, <1>5, <1>6, <1>7 DEF EventIsKnown, AllAre

(* Initially there is none.                                                  *)
LEMMA OneEventInit == Init => OneEventInvariant
BY WorkerInit DEF Init, OneEventInvariant, EventIsKnown, Busy, IdleWork, AllAre

(* The steps.                                                                *)
LEMMA OneEventPreserved ==
  OneWorker /\ MaxCrashes = 0 /\ OneEventInvariant /\ [Next]_vars => OneEventInvariant'
<1> SUFFICES ASSUME OneWorker, MaxCrashes = 0, OneEventInvariant, [Next]_vars PROVE OneEventInvariant'
  OBVIOUS
<1> PICK w : Workers = {w}
  BY DEF OneWorker
<1>1. WorkerInvariant'
  BY WorkerPreserved DEF OneEventInvariant
<1>2. ASSUME UNCHANGED vars PROVE EventIsKnown'
  BY <1>2 DEF vars, OneEventInvariant, EventIsKnown, KnownTo, AllAre, Busy
<1>3. ~Crash(w)
  BY DEF Crash, OneEventInvariant, WorkerInvariant, SyncInvariant, RowsTyped
<1>4. ASSUME WorkerStep(w) PROVE EventIsKnown'
  BY <1>4, LoadKeepsEvent, CallKeepsEvent, CallFailsKeepsEvent, WriteKeepsEvent DEF WorkerStep
<1>5. EventIsKnown'
  BY <1>2, <1>3, <1>4, RequestKeepsEvent DEF Next, OneEventInvariant
<1> QED
  BY <1>1, <1>5 DEF OneEventInvariant

(* What is all alike is at most one.                                         *)
LEMMA OneEventInvariantCounts == OneEventInvariant => OneEvent
<1> SUFFICES ASSUME OneEventInvariant PROVE Cardinality(DOMAIN events) =< 1
  BY DEF OneEvent
<1>1. CASE DOMAIN events = {}
  BY <1>1, FS_EmptySet
<1>2. CASE DOMAIN events # {}
  <2>1. PICK e : DOMAIN events = {e}
    BY <1>2 DEF OneEventInvariant, EventIsKnown
  <2> QED
    BY <2>1, FS_Singleton
<1> QED
  BY <1>1, <1>2

(* One worker process that does not crash never makes two events of an       *)
(* interview, however its calls of the provider fail and whatever recruiters *)
(* do meanwhile. (One that crashes between the call and its commit does, and *)
(* so do two workers.)                                                       *)
THEOREM OneWorkerMakesOneEvent ==
  ASSUME OneWorker, MaxCrashes = 0
  PROVE  Spec => []OneEvent
<1>1. OneEventInvariant /\ [Next]_vars => OneEventInvariant'
  BY OneEventPreserved
<1> QED
  BY <1>1, OneEventInit, OneEventInvariantCounts, PTL DEF Spec

-----------------------------------------------------------------------------
(* What an event shows.                                                      *)

(* An event that stays shows a schedule that is not older.                   *)
GoesForward == \A e \in DOMAIN events \cap DOMAIN events' : events'[e] >= events[e]

(* Only the call of a worker changes one, to what it loaded when the event   *)
(* showed nothing newer.                                                     *)
LEMMA CallsGoForward == OneWorker /\ WorkerInvariant /\ [Next]_vars => GoesForward
<1> SUFFICES ASSUME OneWorker, WorkerInvariant, [Next]_vars PROVE GoesForward
  OBVIOUS
<1> PICK w : Workers = {w}
  BY DEF OneWorker
<1>1. SyncInvariant /\ \A e \in DOMAIN events : events[e] \in Nat
  BY DEF WorkerInvariant, SyncInvariant, EventsTyped
<1>2. CASE events' = events
  BY <1>1, <1>2 DEF GoesForward
<1>3. CASE Call(w)
  <2> DEFINE id == TargetId(w)
  <2>1. wk[w].pc = "call" /\ Busy(w)
    BY <1>3 DEF Call, Busy
  <2>2. wk[w].rev \in Nat /\ \A e \in DOMAIN events : events[e] =< wk[w].rev
    BY <1>1, <2>1, BusyWorks DEF Works, WorkerInvariant, OutcomeIsTrue
  <2>3. events' = Without(id) \/ events' = With(id, wk[w].rev)
    BY <1>3 DEF Call
  <2>4. \A e \in DOMAIN events \cap DOMAIN events' : events'[e] \in {events[e], wk[w].rev}
    BY <2>3 DEF Without, With
  <2> QED
    BY <1>1, <2>2, <2>4 DEF GoesForward
<1>4. events' = events \/ Call(w)
  <2>1. ASSUME NEW r \in Requests,
               \/ Create(r)
               \/ \E c \in Changes : Open(r, c) \/ Administer(r, c)
               \/ RequestStep(r)
        PROVE  events' = events
    <3>1. CASE Create(r) \/ \E c \in Changes : Open(r, c) \/ Administer(r, c)
      BY <3>1 DEF Create, Open, Administer
    <3>2. CASE Commit(r) \/ Look(r) \/ Delete(r)
      BY <3>2 DEF Commit, Look, Delete
    <3>3. CASE Mark(r)
      BY <3>3 DEF Mark
    <3>4. CASE Submit(r)
      BY <3>4 DEF Submit
    <3> QED
      BY <2>1, <3>1, <3>2, <3>3, <3>4 DEF RequestStep
  <2>2. ASSUME WorkerStep(w) \/ Crash(w)
        PROVE  events' = events \/ Call(w)
    <3>1. CASE \E i \in DOMAIN jobs : Load(w, i)
      BY <3>1 DEF Load
    <3>2. CASE \E o \in {"retryable", "permanent"} : CallFails(w, o)
      BY <3>2 DEF CallFails
    <3>3. CASE Write(w)
      BY <3>3 DEF Write
    <3>4. CASE Crash(w)
      BY <3>4 DEF Crash
    <3> QED
      BY <2>2, <3>1, <3>2, <3>3, <3>4 DEF WorkerStep
  <2>3. CASE UNCHANGED vars
    BY <2>3 DEF vars
  <2> QED
    BY <2>1, <2>2, <2>3 DEF Next
<1> QED
  BY <1>2, <1>3, <1>4

(* No late or retried job of one worker process, also of one that crashes,   *)
(* puts an older schedule back into the calendar.                            *)
THEOREM SchedulesGoForward ==
  ASSUME OneWorker
  PROVE  Spec => [][GoesForward]_vars
<1>1. WorkerInvariant /\ [Next]_vars => WorkerInvariant'
  BY WorkerPreserved
<1>2. WorkerInvariant /\ [Next]_vars => [GoesForward]_vars
  BY CallsGoForward
<1> QED
  BY <1>1, <1>2, WorkerInit, PTL DEF Spec
=============================================================================
