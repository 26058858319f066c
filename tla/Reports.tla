------------------------------ MODULE Reports ------------------------------
(***************************************************************************)
(* The same applications, counted and listed by services/reporting.py,     *)
(* recruiter_dashboard.py, dashboard_service.py and candidate_ranking.py,  *)
(* each with queries of its own. Every query of a report sees the rows     *)
(* committed by then: the parts of one report may be of different moments. *)
(***************************************************************************)
EXTENDS Integers, Sequences, FiniteSets, FiniteSetsExt, SequencesExt

CONSTANTS
  Apps, Jobs,   \* applications, jobs of the company
  Statuses,     \* of ApplicationStatus, "hired" among them
  Ranks,        \* rank scores of an analysis
  MaxDay,       \* bound: days
  MaxOverviews  \* bound: overviews under way together, 0 or 1

VARIABLES
  rows,     \* application -> [job, status, applied, updated, score], score -1: none
  day,
  report    \* overview under way: its sums, and (a history) what changed since
vars == <<rows, day, report>>

NoScore == -1
NoReport == [pc |-> "none", sum |-> 0, total |-> 0, again |-> 0, changed |-> {}]

Init == rows = <<>> /\ day = 0 /\ report = NoReport

Changes(a) == report' = IF report.pc \in {"none", "done"} THEN report ELSE [report EXCEPT !.changed = @ \cup {a}]
Same == UNCHANGED day

Apply(a, j) ==
  /\ a \notin DOMAIN rows
  /\ rows' = [x \in DOMAIN rows \cup {a} |->
       IF x = a THEN [job |-> j, status |-> "applied", applied |-> day, updated |-> day, score |-> NoScore]
       ELSE rows[x]]
  /\ Changes(a) /\ Same

Move(a, s) ==
  /\ rows' = [rows EXCEPT ![a].status = s, ![a].updated = day]
  /\ Changes(a) /\ Same

(* An analysis is a row of its own. *)
Analysed(a, v) == rows' = [rows EXCEPT ![a].score = v] /\ UNCHANGED report /\ Same

(* The job or the candidate is deleted, and the application with it.         *)
Deleted(a) == rows' = [x \in DOMAIN rows \ {a} |-> rows[x]] /\ Changes(a) /\ Same

NextDay == day < MaxDay /\ day' = day + 1 /\ UNCHANGED <<rows, report>>

-----------------------------------------------------------------------------
(* ReportingRepository: a scope is a set of jobs and a first and last day.   *)
Scope(js, from, to) == [jobs |-> js, from |-> from, to |-> to]
Always == Scope(Jobs, 0, MaxDay)

InScope(scope, a, on) == rows[a].job \in scope.jobs /\ on >= scope.from /\ on =< scope.to

PIPELINE_STATUSES == Statuses
CountApplicationsByStatus(scope) ==
  [s \in PIPELINE_STATUSES |->
     Cardinality({a \in DOMAIN rows : InScope(scope, a, rows[a].applied) /\ rows[a].status = s})]
(* Hires have the date of the last change of their application.              *)
Hired(a) == rows[a].status = "hired"
CountHires(scope) == Cardinality({a \in DOMAIN rows : InScope(scope, a, rows[a].updated) /\ Hired(a)})
ApplicationsOverTime(scope) ==
  [d \in 0..MaxDay |-> Cardinality({a \in DOMAIN rows : InScope(scope, a, rows[a].applied) /\ rows[a].applied = d})]
HiresOverTime(scope) ==
  [d \in 0..MaxDay |->
     Cardinality({a \in DOMAIN rows : InScope(scope, a, rows[a].updated) /\ Hired(a) /\ rows[a].updated = d})]

Total(counts) == MapThenSumSet(LAMBDA x : counts[x], DOMAIN counts)

(* RecruiterDashboardService.get_pipeline, get_dashboard_summary             *)
Groups == [s \in PIPELINE_STATUSES |-> {a \in DOMAIN rows : rows[a].status = s}]
(* count_by_status, count_total                                              *)
CountByStatus == [s \in {rows[a].status : a \in DOMAIN rows} |->
                    Cardinality({a \in DOMAIN rows : rows[a].status = s})]
CountTotal == Cardinality(DOMAIN rows)

(* get_job_ranking, get_top_candidates: by score, then first come.           *)
Before(a, b) == rows[a].score > rows[b].score \/ (rows[a].score = rows[b].score /\ rows[a].applied =< rows[b].applied)
Rankings(j) ==
  LET in == {a \in DOMAIN rows : rows[a].job = j /\ rows[a].score # NoScore}
  IN  {s \in [1..Cardinality(in) -> in] : IsInjective(s) /\ \A i \in 1..Len(s)-1 : Before(s[i], s[i + 1])}
Pending(j) == {a \in DOMAIN rows : rows[a].job = j /\ rows[a].score = NoScore}

(* RecruiterDashboardService.get_overview: _load_stats counts the statuses   *)
(* and all; then the statuses are counted again.                             *)
CountStatuses ==
  /\ report.pc = "none" /\ MaxOverviews > 0
  /\ report' = [NoReport EXCEPT !.pc = "statuses", !.sum = Total(CountByStatus)]
  /\ UNCHANGED <<rows, day>>
CountAll ==
  /\ report.pc = "statuses"
  /\ report' = [report EXCEPT !.pc = "total", !.total = CountTotal]
  /\ UNCHANGED <<rows, day>>
CountAgain ==
  /\ report.pc = "total"
  /\ report' = [report EXCEPT !.pc = "done", !.again = Total(CountByStatus)]
  /\ UNCHANGED <<rows, day>>
Answer == report.pc = "done" /\ report' = NoReport /\ UNCHANGED <<rows, day>>

Next ==
  \/ \E a \in Apps, j \in Jobs : Apply(a, j)
  \/ \E a \in DOMAIN rows : (\E s \in Statuses : Move(a, s)) \/ (\E v \in Ranks : Analysed(a, v)) \/ Deleted(a)
  \/ NextDay \/ CountStatuses \/ CountAll \/ CountAgain \/ Answer

-----------------------------------------------------------------------------
Difference(m, n) == IF m < n THEN n - m ELSE m - n

(* Counted by whichever report, every application is in one status, in one   *)
(* job, in one of two adjoining periods, on one day, and ranked or pending   *)
(* in its job; hires are dated otherwise than applications but are the same  *)
(* in all.                                                                   *)
CountsAgree ==
  /\ Total(CountApplicationsByStatus(Always)) = CountTotal
  /\ \A s \in PIPELINE_STATUSES : CountApplicationsByStatus(Always)[s] = Cardinality(Groups[s])
  /\ CountHires(Always) = Cardinality(Groups["hired"])
  /\ \A js \in SUBSET Jobs, d \in 0..MaxDay :
       LET whole == Scope(js, 0, MaxDay)  early == Scope(js, 0, d)  late == Scope(js, d + 1, MaxDay)
       IN  /\ Total(CountApplicationsByStatus(early)) + Total(CountApplicationsByStatus(late))
                = Total(ApplicationsOverTime(whole))
           /\ CountHires(early) + CountHires(late) = Total(HiresOverTime(whole))
  /\ \A j \in Jobs :
       /\ Rankings(j) # {}
       /\ \A s \in Rankings(j) : Len(s) + Cardinality(Pending(j)) = Total(ApplicationsOverTime(Scope({j}, 0, MaxDay)))

(* The numbers of one overview differ by no more than what changed while it  *)
(* was made; without one under way the reports agree.                        *)
ReportsAgree ==
  /\ report = NoReport => CountsAgree
  /\ report.pc = "done" =>
       /\ Difference(report.sum, report.total) =< Cardinality(report.changed)
       /\ Difference(report.again, report.total) =< Cardinality(report.changed)
=============================================================================
