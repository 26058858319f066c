---------------------------- MODULE Intelligence ----------------------------
(***************************************************************************)
(* What is derived from what, and how it is known to be out of date: the   *)
(* analysis of an application's resume, the analysis of its interview      *)
(* notes, and the hiring decision made from both.                          *)
(*                                                                         *)
(* A row is dated when it is made, after the call of the AI provider. To   *)
(* replace one is two commits: the old row is deleted, the new one         *)
(* inserted (its application or interview is unique). A reader compares    *)
(* dates. No two events have the same date.                                *)
(***************************************************************************)
EXTENDS Integers, FiniteSets

CONSTANTS
  Requests,   \* API requests and resume_intelligence jobs under way together
  MaxClock,   \* bound: dates given
  MaxFaults   \* bound: requests that fail or die half-way

None == [at |-> 0]

Kinds == {"resume", "talk", "again", "decide", "regenerate", "batch", "override"}

VARIABLES
  edited,  \* date of the interview row and of its notes
  resume,  \* ApplicationAIAnalysis: [at]
  talk,    \* InterviewAIAnalysis: [at, of, over]
  dec,     \* ApplicationHiringDecision: [at, made, of, over, moved]
  req,     \* request -> [pc, kind, seen, of, over, at, replace]
  clock, faults
vars == <<edited, resume, talk, dec, req, clock, faults>>

(* Histories: "of" is what a row was made from, "over" that this changed     *)
(* between its being read and the date of the row, "moved" that an override  *)
(* dated the decision anew.                                                  *)
Idle == [pc |-> "new", kind |-> "-", seen |-> 0, of |-> <<0, 0>>, over |-> FALSE, at |-> 0, replace |-> FALSE]

Init ==
  /\ edited = 0 /\ resume = [at |-> 1] /\ talk = None /\ dec = None
  /\ req = [r \in Requests |-> Idle]
  /\ clock = 1 /\ faults = 0

Exists(row) == row # None
Done(r) == req' = [req EXCEPT ![r] = Idle]
Tick == clock < MaxClock /\ clock' = clock + 1
Analyses == {"resume", "talk", "again"}
Decisions == {"decide", "regenerate", "batch"}
RowsKept == UNCHANGED <<edited, resume, talk, dec>>
TimeKept == UNCHANGED <<clock, faults>>

Stale_ResumeOnly(d, resumeAt) == resumeAt > d.at                          \* mutant
(* _is_decision_stale, of a resume analysis as the session has loaded it.    *)
Stale(d, resumeAt) == resumeAt > d.at \/ talk.at > d.at

(* An analysis is dated and not stored yet. *)
Storing == \E q \in Requests : req[q].kind \in Analyses /\ req[q].pc = "store"

Reads(r, k, pc, replace) ==
  req' = [req EXCEPT ![r] =
    [Idle EXCEPT !.pc = pc, !.kind = k, !.replace = replace,
       !.of = IF k \in Decisions THEN <<resume.at, talk.at>> ELSE <<edited, 0>>,
       !.over = k \in Decisions /\ Storing,
       !.seen = CASE k \in {"talk", "again"} -> talk.at [] k = "override" /\ Exists(dec) -> dec.made [] OTHER -> 0]]

(* ResumeIntelligenceJobHandler always replaces; analyze_interview returns   *)
(* what there is, unless forced.                                             *)
Analyse(r, k) ==
  /\ req[r].pc = "new" /\ k \in Analyses
  /\ IF k = "talk" /\ Exists(talk) THEN Done(r) ELSE Reads(r, k, "ai", TRUE)
  /\ RowsKept /\ TimeKept

(* recommend_for_application *)
Decide(r, k) ==
  /\ req[r].pc = "new" /\ k \in {"decide", "regenerate"}
  /\ IF Exists(resume) /\ (k = "regenerate" \/ ~Exists(dec) \/ Stale(dec, resume.at))
       THEN Reads(r, k, "ai", k = "regenerate" \/ Exists(dec))
       ELSE Done(r)
  /\ RowsKept /\ TimeKept

(* recommend_for_job reads the inputs of all applications first ...          *)
List(r) ==
  /\ req[r].pc = "new"
  /\ IF Exists(resume) THEN Reads(r, "batch", "listed", FALSE) ELSE Done(r)
  /\ RowsKept /\ TimeKept

(* ... and looks for the decision when the application's turn comes.         *)
Turn(r) ==
  /\ req[r].pc = "listed"
  /\ IF Exists(dec) /\ ~Stale(dec, req[r].of[1]) THEN Done(r)
     ELSE req' = [req EXCEPT ![r].pc = "ai", ![r].replace = Exists(dec)]
  /\ RowsKept /\ TimeKept

Overtaken(r) ==   \* requests whose inputs an analysis that is dated or stored now changes
  [q \in Requests |->
     IF req[r].kind \in Analyses /\ req[q].kind \in Decisions /\ req[q].pc \in {"listed", "ai"}
       THEN [req[q] EXCEPT !.over = TRUE] ELSE req[q]]

Dates(r) ==
  /\ Tick
  /\ req' = [Overtaken(r) EXCEPT ![r].pc = "store", ![r].at = clock + 1]

(* The provider answered: the date is taken and the old row deleted. The     *)
(* row analyze_interview deletes is the one it found at first.               *)
DeleteOld(r) ==
  /\ req[r].pc = "ai"
  /\ CASE req[r].kind = "resume" ->
            resume' = None /\ UNCHANGED <<talk, dec>> /\ Dates(r)
       [] req[r].kind \in {"talk", "again"} ->
            talk' = (IF talk.at = req[r].seen THEN None ELSE talk) /\ UNCHANGED <<resume, dec>> /\ Dates(r)
       [] OTHER ->                                                   \* _persist_decision
            IF Exists(dec) /\ ~req[r].replace
              THEN Done(r) /\ UNCHANGED <<resume, talk, dec, clock>>
              ELSE dec' = None /\ UNCHANGED <<resume, talk>> /\ Dates(r)
  /\ UNCHANGED <<edited, faults>>

(* create: an IntegrityError if another request was faster.                  *)
Store(r) ==
  /\ req[r].pc = "store"
  /\ req' = [Overtaken(r) EXCEPT ![r] = Idle]
  /\ CASE req[r].kind = "resume" ->
            resume' = (IF Exists(resume) THEN resume ELSE [at |-> req[r].at]) /\ UNCHANGED <<talk, dec>>
       [] req[r].kind \in {"talk", "again"} ->
            /\ talk' = IF Exists(talk) THEN talk
                       ELSE [at |-> req[r].at, of |-> req[r].of[1], over |-> req[r].over]
            /\ UNCHANGED <<resume, dec>>
       [] OTHER ->
            /\ dec' = IF Exists(dec) THEN dec
                      ELSE [at |-> req[r].at, made |-> req[r].at, of |-> req[r].of, over |-> req[r].over,
                            moved |-> req[r].kind = "override"]
            /\ UNCHANGED <<resume, talk>>
  /\ UNCHANGED edited /\ TimeKept

(* apply_recruiter_override: the decision is loaded (made, if there is none) *)
(* ...                                                                       *)
Override(r) ==
  /\ req[r].pc = "new"
  /\ Reads(r, "override", IF Exists(dec) THEN "update" ELSE "ai", FALSE)
  /\ RowsKept /\ TimeKept

(* ... and updated, with a new date, if it was not replaced meanwhile.       *)
Update(r) ==
  /\ req[r].pc = "update"
  /\ Tick /\ Done(r)
  /\ dec' = IF Exists(dec) /\ dec.made = req[r].seen THEN [dec EXCEPT !.at = clock + 1, !.moved = TRUE] ELSE dec
  /\ UNCHANGED <<edited, resume, talk, faults>>

(* update_interview: the notes are edited. *)
Edit ==
  /\ Tick /\ edited' = clock + 1
  /\ req' = [q \in Requests |->
       IF req[q].kind \in {"talk", "again"} /\ req[q].pc = "ai"
         THEN [req[q] EXCEPT !.over = TRUE] ELSE req[q]]
  /\ UNCHANGED <<resume, talk, dec, faults>>

(* The provider fails, or the process dies between the commits.              *)
Abort(r) ==
  /\ faults < MaxFaults /\ faults' = faults + 1
  /\ req[r].pc \in {"listed", "ai", "store", "update"}
  /\ Done(r)
  /\ RowsKept /\ UNCHANGED clock

Next ==
  \/ \E r \in Requests :
       \/ \E k \in Kinds : Analyse(r, k) \/ Decide(r, k)
       \/ List(r) \/ Turn(r) \/ DeleteOld(r) \/ Store(r) \/ Override(r) \/ Update(r) \/ Abort(r)
  \/ Edit

-----------------------------------------------------------------------------
(* A decision that is not reported stale has taken every stored analysis     *)
(* into account, and an interview analysis that is not reported stale was    *)
(* made from the notes there are: unless their input changed under way, or   *)
(* an override gave the decision a new date.                                 *)
StaleIsReported ==
  /\ (Exists(dec) /\ ~Stale(dec, resume.at) /\ ~dec.over /\ ~dec.moved) =>
       /\ Exists(resume) => resume.at = dec.of[1]
       /\ Exists(talk)   => talk.at = dec.of[2]
  /\ (Exists(talk) /\ ~(edited > talk.at) /\ ~talk.over) => talk.of = edited
=============================================================================
