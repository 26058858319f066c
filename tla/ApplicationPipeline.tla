------------------------ MODULE ApplicationPipeline ------------------------
(***************************************************************************)
(* One application on its way from the resume to the hiring decision, and  *)
(* everybody who writes it: the resume job, the candidate's assessment and *)
(* AI interview, the interviews recruiters schedule, the composite         *)
(* decision, the recruiter's generated decision and override, and the      *)
(* recruiter's own change of status.                                       *)
(*                                                                         *)
(* Every request loads rows into its session, works on them (often for as  *)
(* long as an AI provider needs) and commits. The session sends an UPDATE  *)
(* with the columns whose value differs from the loaded one: Flush. A      *)
(* refused request changes nothing and is not a step.                      *)
(***************************************************************************)
EXTENDS ApplicationStatus, CompositeScore, Sequences, FiniteSets

CONSTANTS
  Clients,         \* requests that can be in flight at the same time
  Ops,             \* the kinds of requests that arrive
  Scores,          \* the scores the AI and the answers produce, in percent
  ManualStatuses,  \* statuses a recruiter sets by hand
  MaxFaults        \* bound: requests that die between two commits

AllOps == {"resume", "assess_open", "assess", "interview_open", "interview",
           "evaluate", "generate", "override", "schedule", "unschedule", "patch"}

ASSUME PipelineConstants ==
  /\ Ops \subseteq AllOps /\ Scores \subseteq 0..100
  /\ ManualStatuses \subseteq ApplicationStatuses
  /\ IsFiniteSet(Clients) /\ MaxFaults \in Nat

VARIABLES
  app,        \* the row of applications
  sessions,   \* per kind, the session rows in the order of created_at
  interviewed, \* the application has interview rows
  dec,        \* the row of application_hiring_decisions
  req,        \* the request each client is executing
  faults

vars == <<app, sessions, interviewed, dec, req, faults>>

-----------------------------------------------------------------------------
(* A stored decision, or none: what recommends it, and the override. The     *)
(* labels of the two generators differ; "Hire" stands for the two labels     *)
(* that open the offer gate, "Reject" for the two that do not.               *)
NoDecision == [id |-> 0, rec |-> "none", override |-> "none", original |-> "none"]

OverrideLabels == {"Hire", "Reject"}

NewApplication ==
  [status |-> "applied", fit |-> NoScore, assessment |-> NoScore, interview |-> NoScore,
   composite |-> NoScore, json |-> NoScore]

NoRequest ==
  [op |-> "none", at |-> "idle", app |-> NewApplication, dec |-> NoDecision, n |-> 0]

Init ==
  /\ app = NewApplication
  /\ sessions = [k \in {"assess", "interview"} |-> <<>>]
  /\ interviewed = FALSE
  /\ dec = NoDecision
  /\ req = [c \in Clients |-> NoRequest]
  /\ faults = 0

Rows == <<app, sessions, interviewed, dec>>

Starts(c, q) ==
  /\ req[c] = NoRequest /\ q.op \in Ops
  /\ req' = [req EXCEPT ![c] = q]
  /\ UNCHANGED <<app, sessions, interviewed, dec, faults>>

Proceeds(c, q) == req' = [req EXCEPT ![c] = q] /\ UNCHANGED faults
Ends(c)        == Proceeds(c, NoRequest)
At(c, op, at)  == req[c].op = op /\ req[c].at = at

(* The row after the commit of an object loaded as old and now equal to new. *)
Flush_WholeRow(row, old, new) == new                                 \* mutant
Flush(row, old, new) ==
  [k \in DOMAIN row |-> IF new[k] = old[k] THEN row[k] ELSE new[k]]

Loads(op) == [NoRequest EXCEPT !.op = op, !.at = "writing", !.app = app]

-----------------------------------------------------------------------------
(* The resume job: the status is advanced only if it was loaded as applied.  *)
ResumeLoad(c) == Starts(c, Loads("resume"))

ResumeWrite(c) ==
  /\ At(c, "resume", "writing")
  /\ \E s \in Scores :
       LET old == req[c].app
           status == IF old.status # "applied" THEN old.status
                     ELSE IF s >= 75 THEN "shortlisted" ELSE "screening"
       IN  app' = Flush(app, old, [old EXCEPT !.fit = s, !.status = status])
  /\ Ends(c)
  /\ UNCHANGED <<sessions, interviewed, dec>>

-----------------------------------------------------------------------------
(* get_or_create_session, of both kinds: questions are generated between the *)
(* lookup and the insert.                                                    *)
OpenKind(op) == IF op = "assess_open" THEN "assess" ELSE "interview"

OpenLoad(c, op) ==
  /\ sessions[OpenKind(op)] = <<>>
  /\ Starts(c, [NoRequest EXCEPT !.op = op, !.at = "writing"])

OpenInsert(c) ==
  /\ req[c].op \in {"assess_open", "interview_open"}
  /\ sessions' = [sessions EXCEPT ![OpenKind(req[c].op)] =
                    Append(@, [done |-> FALSE, score |-> NoScore])]
  /\ Ends(c)
  /\ UNCHANGED <<app, interviewed, dec>>

(* submit_candidate_assessment and submit_candidate_interview: the newest    *)
(* session must still be open when it is loaded.                             *)
SubmitLoad(c, kind) ==
  /\ sessions[kind] # <<>>
  /\ ~sessions[kind][Len(sessions[kind])].done
  /\ Starts(c, [Loads(kind) EXCEPT !.n = Len(sessions[kind])])

Completed(kind, n, s) ==
  [sessions EXCEPT ![kind][n] = [done |-> TRUE, score |-> s]]

AssessWrite_NoScore(c) ==                                            \* mutant
  /\ At(c, "assess", "writing")
  /\ \E s \in Scores : sessions' = Completed("assess", req[c].n, s)
  /\ Ends(c)
  /\ UNCHANGED <<app, interviewed, dec>>

AssessWrite(c) ==
  /\ At(c, "assess", "writing")
  /\ \E s \in Scores :
       LET old == req[c].app
           status == CASE old.status = "applied"               -> "screening"
                       [] old.status = "screening" /\ s >= 60  -> "shortlisted"
                       [] OTHER                                -> old.status
       IN  /\ sessions' = Completed("assess", req[c].n, s)
           /\ app' = Flush(app, old, [old EXCEPT !.assessment = s, !.status = status])
  /\ Ends(c)
  /\ UNCHANGED <<interviewed, dec>>

InterviewWrite_NoDecision(c) ==                                      \* mutant
  /\ At(c, "interview", "writing")
  /\ interviewed' = TRUE
  /\ \E s \in Scores :
       LET old == req[c].app IN
         /\ sessions' = Completed("interview", req[c].n, s)
         /\ app' = Flush(app, old,
                     [old EXCEPT !.interview = s, !.status = "interview_completed"])
  /\ Ends(c)
  /\ UNCHANGED dec

(* The AI interview writes its status whatever the application's is, brings  *)
(* an interview row along, and goes on to the composite decision.            *)
InterviewWrite(c) ==
  /\ At(c, "interview", "writing")
  /\ interviewed' = TRUE
  /\ \E s \in Scores :
       LET old == req[c].app IN
         /\ sessions' = Completed("interview", req[c].n, s)
         /\ app' = Flush(app, old,
                     [old EXCEPT !.interview = s, !.status = "interview_completed"])
  /\ Proceeds(c, [NoRequest EXCEPT !.op = "evaluate", !.at = "loading"])
  /\ UNCHANGED dec

-----------------------------------------------------------------------------
(* evaluate_final_hiring_decision, by itself or after an AI interview. *)
EvaluateStarts(c) == Starts(c, [NoRequest EXCEPT !.op = "evaluate", !.at = "loading"])

EvaluateLoad(c) ==
  /\ At(c, "evaluate", "loading")
  /\ Proceeds(c, [Loads("evaluate") EXCEPT !.dec = dec])
  /\ UNCHANGED Rows

(* The id of a new row: one that neither the table nor a session knows. *)
FreshId ==
  CHOOSE i \in 1..(Cardinality(Clients) + 2) :
    i # dec.id /\ \A c \in Clients : req[c].dec.id # i

StageScores(a) == [k \in Stages |-> a[k]]

(* The decision row the evaluation leaves: its recommendation, or an insert; *)
(* the empty set when the transaction fails, because the row it loaded is    *)
(* gone or somebody inserted one.                                            *)
Evaluated_FirstOnly(old, rec) ==                                     \* mutant
  IF dec.id = 0 THEN {[NoDecision EXCEPT !.id = FreshId, !.rec = rec]} ELSE {dec}

Evaluated_NoInsert(old, rec) ==                                      \* mutant
  IF old.id = dec.id THEN {IF dec.id = 0 THEN dec ELSE Flush(dec, old, [old EXCEPT !.rec = rec])}
  ELSE {}

Evaluated(old, rec) ==
  CASE old.id = 0 /\ dec.id = 0      -> {[NoDecision EXCEPT !.id = FreshId, !.rec = rec]}
    [] old.id > 0 /\ old.id = dec.id -> {Flush(dec, old, [old EXCEPT !.rec = rec])}
    [] OTHER                         -> {}

(* Statuses from which a completed evaluation advances. *)
Decidable_Any == ApplicationStatuses                                 \* mutant
Decidable == {"interview_completed", "interview", "shortlisted"}

EvaluateWrite(c) ==
  /\ At(c, "evaluate", "writing")
  /\ LET old == req[c].app
         status == IF Progress(StageScores(old)) = "completed" /\ old.status \in Decidable
                     THEN "decision_ready" ELSE old.status
     IN \E t \in Composites(StageScores(old)) :
          LET after == Evaluated(req[c].dec, Recommendation(t)) IN
          \/ /\ after = {}
             /\ UNCHANGED <<app, dec>>
          \/ /\ dec' \in after
             /\ app' = [Flush(app, old, [old EXCEPT !.composite = t, !.status = status])
                          EXCEPT !.json = t]     \* holds a timestamp: always written
  /\ Ends(c)
  /\ UNCHANGED <<sessions, interviewed>>

-----------------------------------------------------------------------------
(* recommend_for_application: a resume analysis is required; a fresh         *)
(* decision is returned unless the recruiter forces a new one (whether it is *)
(* fresh compares time stamps: either). The old row and the new one are two  *)
(* commits.                                                                  *)
GenerateLoad(c) ==
  /\ app.fit # NoScore
  /\ Starts(c, [NoRequest EXCEPT !.op = "generate",
                                 !.at = IF dec.id = 0 THEN "inserting" ELSE "replacing"])

GenerateDelete(c) ==
  /\ At(c, "generate", "replacing")
  /\ dec' = NoDecision
  /\ Proceeds(c, [req[c] EXCEPT !.at = "inserting"])
  /\ UNCHANGED <<app, sessions, interviewed>>

GenerateInsert(c) ==
  /\ At(c, "generate", "inserting")
  /\ IF dec.id # 0 THEN UNCHANGED dec
     ELSE \E rec \in OverrideLabels : dec' = [NoDecision EXCEPT !.id = FreshId, !.rec = rec]
  /\ Ends(c)
  /\ UNCHANGED <<app, sessions, interviewed>>

(* apply_recruiter_override: an existing row is updated by its id, a missing *)
(* one is bootstrapped from the override.                                    *)
OverrideLoad(c) == Starts(c, [Loads("override") EXCEPT !.app = NewApplication, !.dec = dec])

Overridden(old, label) ==
  LET original == IF old.original # "none" THEN old.original ELSE old.rec IN
  CASE old.id = 0 /\ dec.id = 0 ->
         {[id |-> FreshId, rec |-> label, override |-> label, original |-> "none"]}
    [] old.id > 0 /\ old.id = dec.id ->
         {[dec EXCEPT !.override = label, !.original = original]}
    [] OTHER -> {}

OverrideWrite(c) ==
  /\ At(c, "override", "writing")
  /\ \E label \in OverrideLabels :
       LET after == Overridden(req[c].dec, label) IN
       IF after = {} THEN UNCHANGED dec ELSE dec' \in after
  /\ Ends(c)
  /\ UNCHANGED <<app, sessions, interviewed>>

-----------------------------------------------------------------------------
(* create_interview: the interview is committed, then the status. *)
ScheduleLoad(c) ==
  /\ app.status \notin TerminalApplicationStatuses
  /\ Starts(c, [Loads("schedule") EXCEPT !.n = IF interviewed THEN 1 ELSE 0])

ScheduleInsert(c) ==
  /\ At(c, "schedule", "writing")
  /\ interviewed' = TRUE
  /\ IF req[c].n = 0 /\ req[c].app.status = "shortlisted"
       THEN Proceeds(c, [req[c] EXCEPT !.at = "advancing"])
       ELSE Ends(c)
  /\ UNCHANGED <<app, sessions, dec>>

ScheduleAdvance(c) ==
  /\ At(c, "schedule", "advancing")
  /\ app' = Flush(app, req[c].app, [req[c].app EXCEPT !.status = "interview"])
  /\ Ends(c)
  /\ UNCHANGED <<sessions, interviewed, dec>>

(* delete_interview of the last row; another deletion changes nothing here *)
Unschedule(c) ==
  /\ interviewed /\ "unschedule" \in Ops /\ req[c] = NoRequest
  /\ interviewed' = FALSE
  /\ UNCHANGED <<app, sessions, dec, req, faults>>

(* apply_status_transition for a recruiter *)
PatchLoad(c, s) ==
  /\ <<app.status, s>> \in AllowedStatusTransitions
  /\ Starts(c, [NoRequest EXCEPT !.op = "patch", !.at = "writing", !.app.status = s])

PatchWrite(c) ==
  /\ At(c, "patch", "writing")
  /\ app' = [app EXCEPT !.status = req[c].app.status]
  /\ Ends(c)
  /\ UNCHANGED <<sessions, interviewed, dec>>

(* The process dies, or the database connection is lost: what was committed  *)
(* stays, the rest of the request never happens.                             *)
Dies(c) ==
  /\ req[c] # NoRequest /\ faults < MaxFaults
  /\ faults' = faults + 1
  /\ req' = [req EXCEPT ![c] = NoRequest]
  /\ UNCHANGED Rows

-----------------------------------------------------------------------------
Arrives(c) ==
  \/ ResumeLoad(c) \/ EvaluateStarts(c) \/ GenerateLoad(c) \/ OverrideLoad(c)
  \/ ScheduleLoad(c) \/ Unschedule(c)
  \/ \E op \in {"assess_open", "interview_open"} : OpenLoad(c, op)
  \/ \E kind \in {"assess", "interview"} : SubmitLoad(c, kind)
  \/ \E s \in ManualStatuses : PatchLoad(c, s)

(* A request that arrived runs to its end. *)
Runs(c) ==
  \/ ResumeWrite(c) \/ OpenInsert(c) \/ AssessWrite(c) \/ InterviewWrite(c)
  \/ EvaluateLoad(c) \/ EvaluateWrite(c) \/ GenerateDelete(c) \/ GenerateInsert(c)
  \/ OverrideWrite(c) \/ ScheduleInsert(c) \/ ScheduleAdvance(c) \/ PatchWrite(c)

Next == \E c \in Clients : Arrives(c) \/ Runs(c) \/ Dies(c)

Spec == Init /\ [][Next]_vars

-----------------------------------------------------------------------------
CompositeLabels == {"strong_hire", "hire", "review", "reject"}

StageScore == {NoScore} \cup Scores
Tenths     == {NoScore} \cup 0..1000

ApplicationRows ==
  [status : ApplicationStatuses, fit : StageScore, assessment : StageScore,
   interview : StageScore, composite : Tenths, json : Tenths]

DecisionRows ==
  [id : 0..(Cardinality(Clients) + 2), rec : {"none"} \cup OverrideLabels \cup CompositeLabels,
   override : {"none"} \cup OverrideLabels,
   original : {"none"} \cup OverrideLabels \cup CompositeLabels]

(* Every variable has its type. *)
TypeOK ==
  /\ app \in ApplicationRows /\ dec \in DecisionRows
  /\ sessions \in [{"assess", "interview"} -> Seq([done : BOOLEAN, score : StageScore])]
  /\ interviewed \in BOOLEAN /\ faults \in 0..MaxFaults
  /\ req \in [Clients -> [op : AllOps \cup {"none"}, n : Nat, dec : DecisionRows,
                          at : {"idle", "loading", "writing", "replacing", "inserting", "advancing"},
                          app : ApplicationRows]]

Scored(kind) == {sessions[kind][i].score : i \in DOMAIN sessions[kind]} \ {NoScore}

(* The column of the application that takes the scores of a kind.            *)
Shown(kind) == IF kind = "assess" THEN app.assessment ELSE app.interview

(* The application shows a stage score exactly if a session of the stage was *)
(* completed, since both are written in one commit; and with one session it  *)
(* is the score of that session, however many submissions of it overlap (the *)
(* last to commit writes both rows). Two first visits that both insert a     *)
(* session can part the two (AssessmentService, AIInterviewService).         *)
ScoresComeFromSessions ==
  \A kind \in {"assess", "interview"} :
    /\ Shown(kind) = NoScore <=> Scored(kind) = {}
    /\ Len(sessions[kind]) = 1 => Shown(kind) = sessions[kind][1].score

(* The composite column, the stored explanation and the decision row that    *)
(* gates offers say the same, after any sequence of evaluations, generated   *)
(* decisions and overrides (evaluate_final_hiring_decision).                 *)
DecisionMatchesComposite ==
  /\ app.composite = app.json
  /\ dec.rec \in CompositeLabels => dec.rec = Recommendation(app.composite)

(* A recruiter's override is not lost to an evaluation, however the two      *)
(* interleave: only a regeneration, which replaces the row, removes it.      *)
OverrideSurvivesEvaluation ==
  [][dec'.id = dec.id /\ dec.override # "none" => dec'.override # "none"]_vars

(* What is still to be written of a request that has loaded the application. *)
LoadedBefore(c) ==
  /\ req[c].op \in {"resume", "assess", "evaluate", "schedule"}
  /\ req[c].at \in {"writing", "advancing"}
  /\ req[c].app.status \notin TerminalApplicationStatuses

(* hired and rejected are left by a recruiter and by the AI interview, which *)
(* writes its status over every other; a resume job, an assessment, a        *)
(* scheduled interview or an evaluation undoes a verdict only if it had      *)
(* loaded the application before the verdict was given, whatever else runs   *)
(* at the same time (no request locks the row it loaded).                    *)
VerdictStands ==
  [][app.status \in TerminalApplicationStatuses /\ app'.status # app.status =>
       \E c \in DOMAIN req : /\ req'[c] # req[c]
                             /\ req[c].op \in {"patch", "interview"} \/ LoadedBefore(c)]_vars

(* An application that was evaluated has a decision row, which offers ask    *)
(* for, except while a regeneration is between its two commits, and after a  *)
(* request died there (recommend_for_application).                           *)
DecisionMissesOnlyInBetween ==
  app.json # NoScore /\ dec.id = 0 =>
    faults > 0 \/ \E c \in DOMAIN req : At(c, "generate", "inserting")

InterviewSubmitted == \E i \in DOMAIN sessions["interview"] : sessions["interview"][i].done
=============================================================================
