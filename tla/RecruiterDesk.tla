---------------------------- MODULE RecruiterDesk ----------------------------
(***************************************************************************)
(* The page services/recruiter_workspace.py assembles for a recruiter from *)
(* one query after another, each of which sees what was committed before   *)
(* it; only a row the session has loaded keeps the values it was loaded    *)
(* with. A summary repeats the counts, and asks again for a list that was  *)
(* empty: for decisions by the candidates' own status, not the company's   *)
(* applications.                                                           *)
(***************************************************************************)
EXTENDS Integers, Sequences, FiniteSets, SequencesExt

CONSTANTS
  Cands, Jobs, Mine,     \* candidates and jobs, and those the recruiter made
  Apps, Offers,          \* applications and active offers of the company
  CandStatuses, AppStatuses,
  MaxChanges             \* bound: changes by others

Gone == "gone"
InterviewStatuses == {"interview", "interview_scheduled", "interview_pending", "onsite", "phone_screen"}
QueueStatuses     == {"decision_pending", "interview_completed", "final_review", "approval_pending"}

VARIABLES
  cands,     \* candidate -> status, or Gone
  jobs,      \* existing jobs
  apps,      \* application -> [status, at], at: place in the order of updated_at
  decided,   \* applications with a hiring decision
  pending,   \* offers in the queue
  desk,      \* the request: [pc, loaded, cands, jobs, talks, rows, queue, offers, totals]
  changes    \* made since the request began
vars == <<cands, jobs, apps, decided, pending, desk, changes>>

NoDesk == [pc |-> "new", loaded |-> <<>>, cands |-> {}, jobs |-> {}, talks |-> {}, rows |-> <<>>,
           queue |-> <<>>, offers |-> {}, totals |-> <<>>]

Init ==
  /\ cands \in [Cands -> CandStatuses \cup {Gone}] /\ jobs = Jobs
  /\ apps \in [Apps -> [status : AppStatuses, at : 1..Cardinality(Apps)]]
  /\ \A a, b \in Apps : a # b => apps[a].at # apps[b].at
  /\ decided \in SUBSET Apps /\ pending = Offers
  /\ desk = NoDesk /\ changes = 0

-----------------------------------------------------------------------------
(* Of the rows a query finds, those loaded before keep their values.         *)
Loaded == [c \in {x \in Cands : cands[x] # Gone} |->
             IF c \in DOMAIN desk.loaded THEN desk.loaded[c] ELSE cands[c]]

Assigned(found) == DOMAIN found \cap Mine
WithStatus(found, statuses) == {c \in Assigned(found) : found[c] \in statuses}

ReadCandidates ==
  /\ desk.pc = "new"
  /\ desk' = [desk EXCEPT !.pc = "jobs", !.loaded = Loaded, !.cands = Assigned(Loaded)]
ReadJobs ==
  /\ desk.pc = "jobs"
  /\ desk' = [desk EXCEPT !.pc = "talks", !.jobs = jobs \cap Mine]
ReadInterviews ==
  /\ desk.pc = "talks"
  /\ desk' = [desk EXCEPT !.pc = "rows", !.loaded = Loaded, !.talks = WithStatus(Loaded, InterviewStatuses)]

(* get_pending_hiring_decisions_for_user: the applications, then of each its *)
(* decision; decided ones first, then by updated_at.                         *)
ReadApplications ==
  /\ desk.pc = "rows"
  /\ desk' = [desk EXCEPT !.pc = "queue", !.rows = apps]

Before(x, y) == (x.decided /\ ~y.decided) \/ (x.decided = y.decided /\ x.at < y.at)
Queue(rows) ==
  SetToSortSeq({[app |-> a, decided |-> a \in decided, at |-> rows[a].at] :
                  a \in {x \in DOMAIN rows : rows[x].status \in QueueStatuses}}, Before)

ReadDecisions ==
  /\ desk.pc = "queue"
  /\ desk' = [desk EXCEPT !.pc = "offers", !.queue = Queue(desk.rows)]
ReadOffers ==
  /\ desk.pc = "offers"
  /\ desk' = [desk EXCEPT !.pc = "summary", !.offers = pending]

(* get_workspace_summary *)
Or(list, again) == IF list = {} THEN again ELSE list
Summarise ==
  /\ desk.pc = "summary"
  /\ desk' = [desk EXCEPT !.pc = "done", !.totals =
       [cands  |-> Cardinality(Or(desk.cands, Assigned(Loaded))),
        jobs   |-> Cardinality(Or(desk.jobs, jobs \cap Mine)),
        talks  |-> Cardinality(Or(desk.talks, WithStatus(Loaded, InterviewStatuses))),
        queue  |-> IF desk.queue # <<>> THEN Len(desk.queue) ELSE Cardinality(WithStatus(Loaded, QueueStatuses)),
        offers |-> Cardinality(Or(desk.offers, pending))]]

Read ==
  /\ ReadCandidates \/ ReadJobs \/ ReadInterviews \/ ReadApplications \/ ReadDecisions \/ ReadOffers \/ Summarise
  /\ UNCHANGED <<cands, jobs, apps, decided, pending, changes>>

(* What others change meanwhile. *)
Change ==
  /\ desk.pc \notin {"new", "done"} /\ changes < MaxChanges /\ changes' = changes + 1
  /\ \/ \E c \in Cands, st \in CandStatuses : cands' = [cands EXCEPT ![c] = st] /\ UNCHANGED <<jobs, apps, decided, pending>>
     \/ \E a \in Apps, st \in AppStatuses :
          /\ apps' = [b \in Apps |-> IF b = a THEN [status |-> st, at |-> Cardinality(Apps)]
                                     ELSE [apps[b] EXCEPT !.at = IF @ > apps[a].at THEN @ - 1 ELSE @]]
          /\ UNCHANGED <<cands, jobs, decided, pending>>
     \/ \E a \in Apps \ decided : decided' = decided \cup {a} /\ UNCHANGED <<cands, jobs, apps, pending>>
     \/ \E j \in jobs : jobs' = jobs \ {j} /\ UNCHANGED <<cands, apps, decided, pending>>
     \/ \E o \in pending : pending' = pending \ {o} /\ UNCHANGED <<cands, jobs, apps, decided>>
  /\ UNCHANGED desk

Next == Read \/ Change

-----------------------------------------------------------------------------
Done == desk.pc = "done"
Awaiting == {a \in Apps : apps[a].status \in QueueStatuses}

(* Whatever changes meanwhile, the interviews are of candidates on the page, *)
(* or of ones it was too early to list, and the queue has the decided        *)
(* applications first and each list in the order of the last change.         *)
PageHoldsTogether ==
  Done => /\ \A c \in desk.talks : c \in desk.cands \/ changes > 0
          /\ \A i, j \in DOMAIN desk.queue : i < j =>
               /\ desk.queue[j].decided => desk.queue[i].decided
               /\ desk.queue[i].decided = desk.queue[j].decided => desk.queue[i].at < desk.queue[j].at

(* If nothing changed, the queue is the applications that await a decision,  *)
(* each with whether it has one, and the summary counts the lists; but no    *)
(* such application makes it count candidates of that status.                *)
PageIsTrue ==
  Done /\ changes = 0 =>
    /\ {[app |-> q.app, decided |-> q.decided] : q \in ToSet(desk.queue)}
         = {[app |-> a, decided |-> a \in decided] : a \in Awaiting}
    /\ Len(desk.queue) = Cardinality(Awaiting)
    /\ desk.totals = [cands |-> Cardinality(desk.cands), jobs |-> Cardinality(desk.jobs),
                      talks |-> Cardinality(desk.talks), offers |-> Cardinality(desk.offers),
                      queue |-> IF Awaiting # {} THEN Cardinality(Awaiting)
                                ELSE Cardinality({c \in Mine \cap Cands : cands[c] \in QueueStatuses})]
=============================================================================
