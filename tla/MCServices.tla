----------------------------- MODULE MCServices -----------------------------
(***************************************************************************)
(* The services that touch one another's state only through rows already   *)
(* committed, for TLC: each behaviour is of one of them ("part"), with the *)
(* constants given here, while the variables of the others keep their      *)
(* initial values. A service's actions and properties are in its module.   *)
(***************************************************************************)
EXTENDS Integers, FiniteSets, Sequences

VARIABLES
  part,
  active, emailOn, hook, prod, notes, read, emails, posts, mailed, clock, faults, edits,
  inbox, hidden,
  disk, req, truth, doubt,
  scores, signals,
  resume, asked,
  open, files, cand, apps, queued, holder, form, errors,
  data, told, cache, reader, now,
  bucket, time, passed, refused,
  edited, analysis, talk, dec, aiReq, aiClock, aiFaults,
  company, role, members, slugs, branches, call,
  table, log, index, pc, auditRead, failed, lostLog, together,
  rows, day, report,
  roles, profile,
  test, answers,
  kind, key, phase, calls, reply, answer,
  lists, page, seen, fixed, pulled, torn, changes,
  offers, recent,
  redis, local, up, second, todo, written, unseen, held, raced, writes, outages,
  post, made, editor, matches, died, loose,
  cands, jobs, pipeline, decided, pending, desk, moved,
  pool, evaluations,
  strengths, concerns, focus, hint, words,
  row, admin, trail, posting, sending, got, off, begun, events, misses,
  store, boot, known, kept, version, ask, minute, starts, asks,
  person, papers, remarks, visits, entries, started, mixedUp, owed, passedBy

fanoutVars  == <<active, emailOn, hook, prod, notes, read, emails, posts, mailed, clock, faults, edits>>
inboxVars   == <<inbox, hidden>>
storeVars   == <<disk, req, truth, doubt>>
fitVars     == <<resume, asked>>
applyVars   == <<open, files, cand, apps, queued, holder, form, errors>>
cacheVars   == <<data, told, cache, reader, now>>
limiterVars == <<bucket, time, passed, refused>>
derivedVars == <<edited, analysis, talk, dec, aiReq, aiClock, aiFaults>>
memberVars  == <<company, role, members, slugs, branches, call>>
auditVars   == <<table, log, index, pc, auditRead, failed, lostLog, together>>
reportVars  == <<rows, day, report>>
resumeVars  == <<roles, profile>>
answerVars  == <<test, answers>>
pipeVars    == <<kind, key, phase, calls, reply, answer>>
listVars    == <<lists, page, seen, fixed, pulled, torn, changes>>
offerVars   == <<offers, recent>>
tierVars    == <<redis, local, up, second, todo, written, unseen, held, raced, writes, outages>>
jobVars     == <<post, made, editor, matches, died, loose>>
deskVars    == <<cands, jobs, pipeline, decided, pending, desk, moved>>
compareVars == <<pool, evaluations>>
copilotVars == <<strengths, concerns, focus, hint, words>>
hookVars    == <<row, admin, trail, posting, sending, got, off, begun, events, misses>>
assistantVars == <<store, boot, known, kept, version, ask, minute, starts, asks>>
peopleVars  == <<person, papers, remarks, visits, entries, started, mixedUp, owed, passedBy>>

-----------------------------------------------------------------------------
(* Two requests of the candidate that both find the offer open to accept.    *)
Accepts == INSTANCE Notifications WITH
  Mutations <- {"m1", "m2"}, EventOf <- [m1 |-> "offer.accepted", m2 |-> "offer.accepted"],
  EntityOf <- [m1 |-> "e1", m2 |-> "e1"], ContentOf <- [m1 |-> "c1", m2 |-> "c1"],
  Staff <- {"adm", "rec"}, RoleOf <- [adm |-> "company_admin", rec |-> "recruiter"],
  Interviewer <- "rec", Candidate <- "cand", Hooks <- {"h1"},
  MaxAttempts <- 2, MaxClock <- 0, MaxFaults <- 1, MaxLost <- 1, MaxEdits <- 0

(* An offer is submitted and an interview scheduled.                         *)
Mixed == INSTANCE Notifications WITH
  Mutations <- {"m1", "m2"}, EventOf <- [m1 |-> "interview.scheduled", m2 |-> "offer.submitted"],
  EntityOf <- [m1 |-> "e1", m2 |-> "e2"], ContentOf <- [m1 |-> "c1", m2 |-> "c1"],
  Staff <- {"adm", "rec", "int"},
  RoleOf <- [adm |-> "company_admin", rec |-> "recruiter", int |-> "interviewer"],
  Interviewer <- "int", Candidate <- "cand", Hooks <- {"h1"},
  MaxAttempts <- 2, MaxClock <- 0, MaxFaults <- 0, MaxLost <- 0, MaxEdits <- 1

(* An application moves to the interview, on, and back to it within a second.*)
Moves == INSTANCE Notifications WITH
  Mutations <- {"m1", "m2", "m3"}, EventOf <- [m \in {"m1", "m2", "m3"} |-> "application.status_changed"],
  EntityOf <- [m \in {"m1", "m2", "m3"} |-> "e1"], ContentOf <- [m1 |-> "c1", m2 |-> "c2", m3 |-> "c1"],
  Staff <- {"int"}, RoleOf <- [int |-> "interviewer"],
  Interviewer <- "int", Candidate <- "cand", Hooks <- {"h1"},
  MaxAttempts <- 2, MaxClock <- 1, MaxFaults <- 0, MaxLost <- 0, MaxEdits <- 0

Inbox == INSTANCE NotificationList WITH
  rows <- inbox, Categories <- {"interview", "application"}, Mandatory <- {"system"},
  MaxLimit <- 4, MaxRows <- 5

Workspace == INSTANCE WorkspaceStore WITH
  Requests <- {"r1", "r2", "r3"}, Items <- {"i1", "rec"}, Recruiters <- {"rec"},
  Calls <- {"add", "update", "delete", "touch", "prefer", "remove", "list", "get", "preferences"}

Stage == INSTANCE StageScores WITH Scores <- {0, 40, 54, 55, 69, 70, 84, 85, 100}
Hiring == INSTANCE HiringScore WITH
  Values <- [overall |-> {100}, skills |-> {100}, experience |-> {49, 100}, education |-> {0, 100}, keyword |-> {100}],
  Confident <- {10, 100}, Missing <- {0, 1}
Fit == INSTANCE ResumeScore WITH Skills <- {"s1", "s2"}, Others <- {0, 4, 10}, Experience <- {0, 1, 10}

Career == INSTANCE ResumeEngine WITH
  Years <- {1, 2, 4}, This <- 5, Titles <- {{"lead"}}, Named <- {TRUE}, MaxRoles <- 3, Facts <- {}, Counts <- {}
Rise == INSTANCE ResumeEngine WITH
  Years <- {1, 4}, This <- 5, Titles <- {{"senior", "engineer"}, {"lead"}}, Named <- {TRUE}, MaxRoles <- 3,
  Facts <- {}, Counts <- {}
Ats == INSTANCE ResumeEngine WITH
  Years <- {4}, This <- 5, Titles <- {{}, {"engineer"}}, Named <- BOOLEAN, MaxRoles <- 1,
  Facts <- {"email", "technical", "education", "studies", "emails", "summary"}, Counts <- {0, 1, 17}
Answers == INSTANCE AnswerScore WITH MaxQuestions <- 5, Lengths <- {0, 13, 14, 45}
Pipeline == INSTANCE AIPipeline WITH MaxAttempts <- 3, Scores <- {-5, 50, 120}, Items <- {0, 2, 3}

Apply == INSTANCE PublicApply WITH Forms <- {"f1", "f2"}, Jobs <- {"j1", "j2"}, MaxErrors <- 1
Cached == INSTANCE ReadCache WITH
  Readers <- {"q1", "q2"}, Keys <- {<<"a", "x">>, <<"a", "y">>, <<"b", "x">>},
  TTL <- 1, MaxSize <- 2, MaxClock <- 1, MaxWrites <- 1
Limiter == INSTANCE RateLimiter WITH Clients <- {"c1"}, Limit <- 2, Window <- 2, MaxTime <- 5
Derived == INSTANCE Intelligence WITH
  resume <- analysis, req <- aiReq, clock <- aiClock, faults <- aiFaults,
  Requests <- {"q1"}, MaxClock <- 5, MaxFaults <- 0
Aborted == INSTANCE Intelligence WITH
  resume <- analysis, req <- aiReq, clock <- aiClock, faults <- aiFaults,
  Requests <- {"q1", "q2"}, MaxClock <- 3, MaxFaults <- 1
Member == INSTANCE Membership WITH
  Users <- {"u1", "u2", "u3"}, Names <- {"n1"}, Calls <- {"q1", "q2"}, MaxBranches <- 1
Audit == INSTANCE AuditTrail WITH
  read <- auditRead, crossed <- together, Events <- {"e1", "e2", "e3"},
  CandidateOf <- [e1 |-> "a", e2 |-> "a", e3 |-> "b"],
  ProcessOf <- [e1 |-> "api", e2 |-> "api", e3 |-> "worker"], MaxFaults <- 1
Report == INSTANCE Reports WITH
  Apps <- {"a1", "a2"}, Jobs <- {"j1", "j2"}, Statuses <- {"applied", "screening", "hired"}, Ranks <- {40, 90},
  MaxDay <- 1, MaxOverviews <- 0
Overview == INSTANCE Reports WITH
  Apps <- {"a1", "a2", "a3"}, Jobs <- {"j1"}, Statuses <- {"applied", "hired"}, Ranks <- {},
  MaxDay <- 0, MaxOverviews <- 1

OfferList == INSTANCE Listing WITH
  rq <- page, Kind <- "offers", MaxRows <- 3, Limit <- 2, MaxOffset <- 4, MaxChanges <- 2
DecisionList == INSTANCE Listing WITH
  rq <- page, Kind <- "decisions", MaxRows <- 3, Limit <- 2, MaxOffset <- 4, MaxChanges <- 1
AuditList == INSTANCE Listing WITH
  rq <- page, Kind <- "audit", MaxRows <- 4, Limit <- 2, MaxOffset <- 4, MaxChanges <- 2
HitList == INSTANCE Listing WITH
  rq <- page, Kind <- "hits", MaxRows <- 3, Limit <- 2, MaxOffset <- 4, MaxChanges <- 1
Views == INSTANCE OfferViews WITH
  Apps <- {"a1", "a2", "a3"}, CompanyOf <- [a1 |-> "A", a2 |-> "A", a3 |-> "B"],
  JobOf <- [a1 |-> "j1", a2 |-> "j1", a3 |-> "j2"], CandidateOf <- [a1 |-> "p", a2 |-> "q", a3 |-> "p"],
  MaxOffers <- 3, Steps <- {"pending_approval", "approved", "accepted", "withdrawn"}

(* Two processes; one process with a full copy; a lock of three.            *)
Copies == INSTANCE TieredCache WITH
  now <- second, rq <- todo, truth <- written, crossed <- raced,
  Procs <- {1, 2}, Keys <- {"k1"}, Locks <- {}, TTL <- 2, MaxSize <- 1, MaxClock <- 3, MaxWrites <- 2, MaxOutages <- 1
Full == INSTANCE TieredCache WITH
  now <- second, rq <- todo, truth <- written, crossed <- raced,
  Procs <- {1}, Keys <- {"k1", "k2", "k3"}, Locks <- {}, TTL <- 2, MaxSize <- 1, MaxClock <- 2, MaxWrites <- 3,
  MaxOutages <- 0
Lock == INSTANCE TieredCache WITH
  now <- second, rq <- todo, truth <- written, crossed <- raced,
  Procs <- {1, 2, 3}, Keys <- {"lock"}, Locks <- {"lock"}, TTL <- 2, MaxSize <- 1, MaxClock <- 3, MaxWrites <- 3,
  MaxOutages <- 0

Posts == INSTANCE JobRecords WITH
  call <- editor, faults <- died,
  Calls <- {"q1", "q2"}, MaxText <- 3, MaxMatches <- 2, MaxFaults <- 1,
  Replies <- {[years |-> {0, 3}, more |-> TRUE, plus |-> TRUE, words |-> {"lead", "mid"}],
              [years |-> {5}, more |-> TRUE, plus |-> TRUE, words |-> {}], [years |-> {5}, more |-> FALSE, plus |-> TRUE, words |-> {}]}
Desk == INSTANCE RecruiterDesk WITH
  apps <- pipeline, changes <- moved,
  Cands <- {"c1", "c2"}, Jobs <- {"j1", "j2"}, Mine <- {"c1", "j1"}, Apps <- {"a1", "a2"}, Offers <- {"o1"},
  CandStatuses <- {"interview", "interview_completed"}, AppStatuses <- {"applied", "interview_completed"},
  MaxChanges <- 1
Compare == INSTANCE Comparison WITH
  reports <- evaluations, Candidates <- 2, RecScores <- {15}, Years <- {0, 7}, MaxSkills <- 2, MaxReports <- 2,
  Evaluated <- [score : {49, 50, 67, 68, 80, 85}, confidence : {44, 45}]
Insights == INSTANCE Copilot WITH Points <- {"x", "y", "z", "v"}, MaxPoints <- 1, Asked <- {}
Areas    == INSTANCE Copilot WITH Points <- {"x", "y", "z", "v"}, MaxPoints <- 2, Asked <- {}
Asking   == INSTANCE Copilot WITH
  Points <- {"x", "y"}, MaxPoints <- 1, Asked <- {"risk", "best", "skill", "gap", "focus", "why"}

(* Admins change one webhook at a time; an admin changes it while it posts.  *)
Managed == INSTANCE Webhooks WITH
  call <- admin, jobs <- posting, post <- sending, faults <- misses,
  Hooks <- {"h"}, Calls <- {"q1", "q2"}, Urls <- {"u", "v"}, Kinds <- {"app", "offer"},
  Types <- {{"app"}, {"app", "offer"}},
  Created <- {[is |-> "row", url |-> "u", types |-> {"app"}, active |-> TRUE]},
  MaxCalls <- 3, MaxEvents <- 0, MaxAttempts <- 2, MaxFaults <- 0
Posted == INSTANCE Webhooks WITH
  call <- admin, jobs <- posting, post <- sending, faults <- misses,
  Hooks <- {"h"}, Calls <- {"q1"}, Urls <- {"u"}, Kinds <- {"app"}, Types <- {{"app"}},
  Created <- {[is |-> "row", url |-> "u", types |-> {"app"}, active |-> a] : a \in BOOLEAN},
  MaxCalls <- 3, MaxEvents <- 1, MaxAttempts <- 2, MaxFaults <- 2

(* Processes that start together; comparisons while the candidates change.   *)
Booting == INSTANCE Assistant WITH
  clock <- minute, Procs <- {1, 2}, Calls <- {"q1"}, HomeOf <- [q1 |-> 1],
  Defaults <- <<"compare_candidates", "explain_decision">>, Template <- "compare_candidates",
  Cands <- 2, TTL <- 1, MaxClock <- 0, MaxEdits <- 0, MaxStarts <- 3, MaxAsks <- 1
Chatting == INSTANCE Assistant WITH
  clock <- minute, Procs <- {1}, Calls <- {"q1", "q2"}, HomeOf <- [q1 |-> 1, q2 |-> 1],
  Defaults <- <<"compare_candidates">>, Template <- "compare_candidates",
  Cands <- 2, TTL <- 1, MaxClock <- 1, MaxEdits <- 1, MaxStarts <- 1, MaxAsks <- 2

People == INSTANCE CandidateRecords WITH
  apps <- papers, notes <- remarks, desk <- visits, crossed <- mixedUp, due <- owed, passed <- passedBy,
  Calls <- {"q1", "q2"}, Apps <- {"a1"}, Notes <- {"n1"}, Statuses <- {"new", "rejected"}, Stages <- {"interview"},
  MaxCalls <- 4

-----------------------------------------------------------------------------
Fanouts == {"accepts", "mixed", "moves"}
Lists   == {"offer_list", "decision_list", "audit_list", "hit_list"}
Tiers   == {"copies", "full", "lock"}
Parts   == Fanouts \cup Lists \cup Tiers \cup
  {"inbox", "workspace", "stage", "hiring", "fit", "career", "rise", "ats", "answers", "pipeline", "apply",
    "cached", "limiter", "derived", "aborted", "member", "audit", "report", "overview", "views",
    "posts", "desk", "compare", "analytics", "insights", "areas", "asking",
    "managed", "posted", "booting", "chatting", "people"}

(* The requests of the workspace differ in nothing but their calls: one order *)
(* of these stands for all.                                                  *)
Order == [add |-> 1, update |-> 2, delete |-> 3, touch |-> 4, prefer |-> 5, remove |-> 6,
          list |-> 7, get |-> 8, preferences |-> 9]
InOrder == Order[req["r1"].call] =< Order[req["r2"].call] /\ Order[req["r2"].call] =< Order[req["r3"].call]

MCInit ==
  /\ part \in Parts
  /\ CASE part = "mixed" -> Mixed!Init [] part = "moves" -> Moves!Init [] OTHER -> Accepts!Init
  /\ Workspace!Init /\ InOrder
  /\ (part = "workspace" \/ \A r \in DOMAIN req : req[r].call = "list" /\ req[r].item = "i1")
  /\ Fit!Init /\ (part = "fit" \/ (asked = [known |-> {}, described |-> {}] /\ resume.words = 0))
  /\ Answers!Init /\ (part = "answers" \/ (test = "interview" /\ DOMAIN answers = 1..3))
  /\ Pipeline!Init /\ (part = "pipeline" \/ (kind = "resume" /\ key))
  /\ Apply!Init /\ (part = "apply" \/ cand = "nobody")
  /\ CASE part = "offer_list" -> OfferList!Init [] part = "decision_list" -> DecisionList!Init
       [] part = "hit_list" -> HitList!Init
       [] OTHER -> AuditList!Init /\ (part = "audit_list" \/ lists = <<<<>>>>)
  /\ CASE part = "full" -> Full!Init [] part = "lock" -> Lock!Init [] OTHER -> Copies!Init
  /\ Views!Init
  /\ Desk!Init /\ (part = "desk" \/ (/\ decided = {} /\ \A c \in DOMAIN cands : cands[c] = "gone"
                                     /\ \A a \in DOMAIN pipeline : pipeline[a].status = "applied" /\ (a = "a1" => pipeline[a].at = 1)))
  /\ Compare!Init /\ (part = "compare" \/ \A i \in DOMAIN pool : pool[i].years = 0 /\ pool[i].risks = {})
  /\ Areas!Init /\ (part = "areas" \/ hint = "-")
  /\ Posts!Init /\ People!Init
  /\ IF part = "chatting" THEN Chatting!Init ELSE Booting!Init
  /\ IF part = "posted" THEN Posted!Init ELSE Managed!Init
  /\ Inbox!Init /\ Stage!Init /\ Hiring!Init /\ Career!Init /\ Cached!Init /\ Limiter!Init
  /\ IF part = "aborted" THEN Aborted!Init ELSE Derived!Init
  /\ Member!Init /\ Audit!Init /\ Report!Init

MCNext ==
  /\ \/ part = "accepts" /\ Accepts!Next
     \/ part = "mixed"   /\ Mixed!Next
     \/ part = "moves"   /\ Moves!Next
     \/ part = "inbox"   /\ Inbox!Next
     \/ part = "workspace" /\ Workspace!Next
     \/ part = "stage"   /\ Stage!Next
     \/ part = "hiring"  /\ Hiring!Next
     \/ part = "fit"     /\ Fit!Next
     \/ part = "career"  /\ Career!AddRole
     \/ part = "rise"    /\ Rise!AddRole
     \/ part = "ats"     /\ Ats!Next
     \/ part = "answers" /\ Answers!Answer
     \/ part = "pipeline" /\ Pipeline!Next
     \/ part = "apply"   /\ Apply!Next
     \/ part = "cached"  /\ Cached!Next
     \/ part = "limiter" /\ Limiter!Next
     \/ part = "derived" /\ Derived!Next
     \/ part = "aborted" /\ Aborted!Next
     \/ part = "member"  /\ Member!Next
     \/ part = "audit"   /\ Audit!Next
     \/ part = "report"  /\ Report!Next
     \/ part = "overview" /\ Overview!Next
     \/ part = "offer_list"    /\ OfferList!Next
     \/ part = "decision_list" /\ DecisionList!Next
     \/ part = "audit_list"    /\ AuditList!Next
     \/ part = "hit_list"      /\ HitList!Next
     \/ part = "views"  /\ Views!Next
     \/ part = "copies" /\ Copies!Next
     \/ part = "full"   /\ Full!Next
     \/ part = "lock"   /\ Lock!Next
     \/ part = "posts"  /\ Posts!Next
     \/ part = "desk"   /\ Desk!Next
     \/ part = "compare"   /\ Compare!Improve
     \/ part = "analytics" /\ Compare!Evaluate
     \/ part = "insights"  /\ Insights!Strength
     \/ part = "areas"     /\ Areas!Focus
     \/ part = "asking"    /\ (Asking!Concern \/ Asking!Word)
     \/ part = "managed"   /\ Managed!Next
     \/ part = "posted"    /\ Posted!Next
     \/ part = "booting"   /\ Booting!Next
     \/ part = "chatting"  /\ Chatting!Next
     \/ part = "people"    /\ People!Next
  /\ IF part \in Fanouts   THEN TRUE ELSE UNCHANGED fanoutVars
  /\ IF part = "inbox"     THEN TRUE ELSE UNCHANGED inboxVars
  /\ IF part = "workspace" THEN TRUE ELSE UNCHANGED storeVars
  /\ IF part = "stage"     THEN TRUE ELSE UNCHANGED scores
  /\ IF part = "hiring"    THEN TRUE ELSE UNCHANGED signals
  /\ IF part = "fit"       THEN TRUE ELSE UNCHANGED fitVars
  /\ IF part \in {"career", "rise", "ats"} THEN TRUE ELSE UNCHANGED resumeVars
  /\ IF part = "answers"   THEN TRUE ELSE UNCHANGED answerVars
  /\ IF part = "pipeline"  THEN TRUE ELSE UNCHANGED pipeVars
  /\ IF part = "apply"     THEN TRUE ELSE UNCHANGED applyVars
  /\ IF part = "cached"    THEN TRUE ELSE UNCHANGED cacheVars
  /\ IF part = "limiter"   THEN TRUE ELSE UNCHANGED limiterVars
  /\ IF part \in {"derived", "aborted"} THEN TRUE ELSE UNCHANGED derivedVars
  /\ IF part = "member"    THEN TRUE ELSE UNCHANGED memberVars
  /\ IF part = "audit"     THEN TRUE ELSE UNCHANGED auditVars
  /\ IF part \in {"report", "overview"} THEN TRUE ELSE UNCHANGED reportVars
  /\ IF part \in Lists     THEN TRUE ELSE UNCHANGED listVars
  /\ IF part = "views"     THEN TRUE ELSE UNCHANGED offerVars
  /\ IF part \in Tiers     THEN TRUE ELSE UNCHANGED tierVars
  /\ IF part = "posts"     THEN TRUE ELSE UNCHANGED jobVars
  /\ IF part = "desk"      THEN TRUE ELSE UNCHANGED deskVars
  /\ IF part \in {"compare", "analytics"} THEN TRUE ELSE UNCHANGED compareVars
  /\ IF part \in {"insights", "areas", "asking"} THEN TRUE ELSE UNCHANGED copilotVars
  /\ IF part \in {"managed", "posted"} THEN TRUE ELSE UNCHANGED hookVars
  /\ IF part \in {"booting", "chatting"} THEN TRUE ELSE UNCHANGED assistantVars
  /\ IF part = "people" THEN TRUE ELSE UNCHANGED peopleVars
  /\ UNCHANGED part

allVars == <<part, fanoutVars, inboxVars, storeVars, scores, signals, fitVars, applyVars, cacheVars,
             limiterVars, derivedVars, memberVars, auditVars, reportVars,
             resumeVars, answerVars, pipeVars, listVars, offerVars, tierVars,
             jobVars, deskVars, compareVars, copilotVars, hookVars, assistantVars, peopleVars>>

(* A producer's request runs to its end, a pipeline too, and the worker polls *)
(* for ever.                                                                 *)
MCSpec ==
  /\ MCInit /\ [][MCNext]_allVars
  /\ \A m \in {"m1", "m2"} : WF_fanoutVars(part = "accepts" /\ Accepts!Produce(m))
  /\ WF_fanoutVars(part = "accepts" /\ Accepts!Handle)
  /\ WF_pipeVars(part = "pipeline" /\ Pipeline!Next)

-----------------------------------------------------------------------------
(* What each part is checked for; a property is explained in its module. *)

(* Whoever should hear of a change does, by every channel.                   *)
FanoutIsComplete ==
  /\ part = "accepts" => Accepts!FanoutIsComplete
  /\ part = "mixed"   => Mixed!FanoutIsComplete
  /\ part = "moves"   => Moves!FanoutIsComplete
  /\ part = "posted"  => Posted!SubscribersHear

(* Of an offer that is accepted twice at a time, each recipient gets one     *)
(* mail, and of nothing that has no notification.                            *)
OneMailPerEvent == part = "accepts" => Accepts!OneMailPerEvent /\ Accepts!MailFollowsNote

(* Pages and summary of an inbox show the visible rows, the reports count    *)
(* the same applications, whoever walks through a list sees all of it, the   *)
(* views of one offer agree, and so do the lists and the summary of a page   *)
(* for recruiters and of their copilot.                                      *)
ViewsAreExact ==
  /\ part = "inbox"    => Inbox!PageIsExact /\ Inbox!PagesCoverRows /\ Inbox!SummaryIsExact
  /\ part = "report"   => Report!ReportsAgree
  /\ part = "overview" => Overview!ReportsAgree
  /\ part = "offer_list"    => OfferList!WalkSeesAll
  /\ part = "decision_list" => DecisionList!WalkSeesAll
  /\ part = "audit_list"    => AuditList!WalkSeesAll
  /\ part = "hit_list"      => HitList!WalkSeesAll
  /\ part = "views"  => Views!OfferViewsAgree
  /\ part = "desk"   => Desk!PageHoldsTogether /\ Desk!PageIsTrue
  /\ part = "insights" => Insights!SummaryHoldsTogether
  /\ part = "areas"    => Areas!SummaryHoldsTogether
  /\ part = "asking"   => Asking!SummaryHoldsTogether

(* A workspace file keeps every item whose last change overlapped no other;  *)
(* only changes that overlap tear it or take it for missing, and a removal   *)
(* that met no change is for good (the API has a lock per request, so none). *)
WorkspaceKeepsItems ==
  part = "workspace" =>
    /\ Workspace!NothingElseIsLost /\ Workspace!OverlapsTear
    /\ Workspace!OverlapsMissIt /\ Workspace!RemovedForGood

(* In the end every call of a pipeline has returned, and whom a notification *)
(* is for got the mail or the worker gave up.                                *)
WorkIsFinished ==
  <>[](/\ part = "pipeline" => Pipeline!AnswerComes
       /\ part = "accepts" => Accepts!NotesAreMailed)

(* No score falls because something it is made from got better.              *)
ScoresRise ==
  [][/\ part = "stage"  => Stage!ImprovementNeverHurts
     /\ part = "hiring" => Hiring!BetterNeverHurts
     /\ part = "fit"    => Fit!GainsNeverHurt
     /\ part = "ats"    => Ats!RicherNeverHurts
     /\ part = "compare" => Compare!GoodNewsNeverHurts
     /\ part = "answers" => Answers!MoreNeverHurts]_<<scores, signals, resume, profile, pool, answers>>

(* The labels given for a score are those its parts deserve.                 *)
LabelsFollowScores ==
  /\ part = "stage"  => Stage!WithinStages /\ Stage!LabelFollowsStages
  /\ part = "hiring" => Hiring!StrongHireIsSound
  /\ part = "fit"    => Fit!ShortlistFollowsSkills
  /\ part = "career" => Career!GapsAreFound /\ Career!OrderIsIrrelevant
  /\ part = "rise"   => Rise!GapsAreFound /\ Rise!OrderIsIrrelevant
  /\ part = "answers" => Answers!HireAnsweredAll
  /\ part = "analytics" => Compare!AnalyticsAgree
  /\ part = "posts" => Posts!RangeHoldsYears

(* Rows, files and jobs of public applications agree, and so do a candidate, *)
(* the applications and what was done to them.                               *)
ApplicationsHaveTheirResume ==
  /\ part = "apply"  => Apply!ApplicationsHaveTheirResume
  /\ part = "people" => People!DeletionIsSafe /\ People!StatusIsAccountedFor

(* A cached report is out of date only by a load under way, a value in Redis *)
(* and the processes only by a change its reader could not see; a lock built *)
(* on it has one holder. A job's intelligence is of an older description     *)
(* only if calls overlapped or died.                                         *)
StaleOnlyByOverlap ==
  /\ part = "cached" => Cached!StaleOnlyByOverlap
  /\ part = "copies" => Copies!StaleOnlyIfUnseen
  /\ part = "full"   => Full!StaleOnlyIfUnseen /\ Full!SizeIsBounded
  /\ part = "lock"   => Lock!OneHolder
  /\ part = "posts"  => Posts!IntelligenceIsCurrent /\ Posts!OnlyMatchesHideIt

(* The rate limit lets no more and no less through in any window.            *)
LimitIsExact == part = "limiter" => Limiter!LimitIsExact

(* What was made from old input is reported stale.                           *)
StaleIsReported ==
  /\ part = "derived" => Derived!StaleIsReported
  /\ part = "aborted" => Aborted!StaleIsReported

(* Users, members and companies agree on who belongs where.                  *)
TenantsAgree == part = "member" => Member!TenantsAgree

(* No emitted audit event is forgotten.                                      *)
TrailIsComplete ==
  /\ part = "audit"   => Audit!TrailIsComplete
  /\ part = "managed" => Managed!TrailTellsRows
  /\ part = "posted"  => Posted!TrailTellsRows

(* Whatever an AI provider returns, the caller gets an answer it can use, and *)
(* one about the candidates as they are.                                     *)
AnswersAreUsable ==
  /\ part = "pipeline" => Pipeline!AnswerIsUsable
  /\ part = "booting"  => Booting!TemplatesAreKnown /\ Booting!ComparisonsAreCurrent
  /\ part = "chatting" => Chatting!TemplatesAreKnown /\ Chatting!ComparisonsAreCurrent
=============================================================================
