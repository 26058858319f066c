-------------------------- MODULE MCServices_proofs --------------------------
(***************************************************************************)
(* The theorems of Services_proofs for the behaviours TLC runs: MCServices *)
(* gives the constants values, and a behaviour is of one part. An instance *)
(* of Services_proofs with those values is the same service under another  *)
(* name: a lemma says what is shown of it for the part's initial states,   *)
(* its steps and its properties. Parts of one module have different        *)
(* values, so there are three instances, each followed by its parts.       *)
(***************************************************************************)
EXTENDS MCServices, TLAPS

(* The values of most parts.                                                 *)
First == INSTANCE Services_proofs WITH
  Users <- {"u1", "u2", "u3"}, Names <- {"n1"}, MemberCalls <- {"q1", "q2"}, MaxBranches <- 1,
  StoreRequests <- {"r1", "r2", "r3"}, Items <- {"i1", "rec"}, Recruiters <- {"rec"},
  StoreCalls <- {"add", "update", "delete", "touch", "prefer", "remove", "list", "get", "preferences"},
  AIRequests <- {"q1"}, MaxDates <- 5, MaxAIFaults <- 0,
  Forms <- {"f1", "f2"}, FormJobs <- {"j1", "j2"}, MaxErrors <- 1,
  RecordCalls <- {"q1", "q2"}, Papers <- {"a1"}, Remarks <- {"n1"}, SetStatuses <- {"new", "rejected"},
  PaperStages <- {"interview"}, MaxVisits <- 4,
  AuditEvents <- {"e1", "e2", "e3"}, SubjectOf <- [e1 |-> "a", e2 |-> "a", e3 |-> "b"],
  ProcessOf <- [e1 |-> "api", e2 |-> "api", e3 |-> "worker"], MaxAuditFaults <- 1,
  Hooks <- {"h"}, Admins <- {"q1", "q2"}, Urls <- {"u", "v"}, Kinds <- {"app", "offer"},
  Types <- {{"app"}, {"app", "offer"}},
  HooksCreated <- {[is |-> "row", url |-> "u", types |-> {"app"}, active |-> TRUE]},
  MaxCalls <- 3, MaxEvents <- 0, MaxAttempts <- 2, MaxHookFaults <- 0,
  Mutations <- {"m1", "m2"}, EventOf <- [m1 |-> "offer.accepted", m2 |-> "offer.accepted"],
  EntityOf <- [m1 |-> "e1", m2 |-> "e1"], ContentOf <- [m1 |-> "c1", m2 |-> "c1"],
  Staff <- {"adm", "rec"}, RoleOf <- [adm |-> "company_admin", rec |-> "recruiter"],
  Interviewer <- "rec", Candidate <- "cand", Listeners <- {"h1"},
  MaxTries <- 2, MaxSeconds <- 0, MaxFailures <- 1, MaxLost <- 1, MaxEdits <- 0,
  PipelineAttempts <- 3, ProviderScores <- {-5, 50, 120}, ItemNumbers <- {0, 2, 3},
  Procs <- {1, 2}, Questions <- {"q1"}, HomeOf <- [q1 |-> 1],
  Defaults <- <<"compare_candidates", "explain_decision">>, Template <- "compare_candidates",
  Cands <- 2, TTL <- 1, MaxMinutes <- 0, MaxRevisions <- 0, MaxStarts <- 3, MaxAsks <- 1,
  Readers <- {"q1", "q2"}, ReportKeys <- {<<"a", "x">>, <<"a", "y">>, <<"b", "x">>},
  ReportTTL <- 1, ReportMax <- 2, MaxReportTime <- 1, MaxReportWrites <- 1,
  Machines <- {1, 2}, CacheKeys <- {"k1"}, CacheLocks <- {}, CacheTTL <- 2, CopySize <- 1,
  MaxCacheTime <- 3, MaxCacheWrites <- 2, MaxOutages <- 1,
  PostCalls <- {"q1", "q2"}, MaxText <- 3, MaxMatches <- 2, MaxEditFaults <- 1,
  Replies <- {[years |-> {0, 3}, more |-> TRUE, plus |-> TRUE, words |-> {"lead", "mid"}],
              [years |-> {5}, more |-> TRUE, plus |-> TRUE, words |-> {}], [years |-> {5}, more |-> FALSE, plus |-> TRUE, words |-> {}]},
  Addresses <- {"c1"}, Limit <- 2, Window <- 2, MaxLimitTime <- 5,
  auditTable <- table, auditLog <- log, auditIndex <- index, auditPc <- pc, auditFailed <- failed, hookRows <- row,
  apiKey <- key

(* What the theorems of Services_proofs suppose of the constants is true of  *)
(* these.                                                                    *)
LEMMA FirstConstants ==
  /\ First!TenantsConstants /\ First!ApplyConstants /\ First!PeopleConstants /\ First!AuditConstants
  /\ First!HookConstants /\ First!FanoutConstants /\ First!PipeConstants /\ First!AssistantConstants
  /\ First!ReadCacheConstants /\ First!TieredConstants /\ First!LimitConstants
<1>1. /\ First!TenantsConstants /\ First!ApplyConstants /\ First!PeopleConstants /\ First!AuditConstants
      /\ First!FanoutConstants /\ First!PipeConstants /\ First!AssistantConstants
      /\ First!ReadCacheConstants /\ First!LimitConstants
  BY DEF First!TenantsConstants, First!ApplyConstants, First!PeopleConstants, First!AuditConstants,
    First!FanoutConstants, First!PipeConstants, First!AssistantConstants, First!Assisted!Names,
    First!ReadCacheConstants, First!LimitConstants
<1>2. First!HookConstants
  <2>1. \A u \in {"u", "v"}, k \in {{"app"}, {"app", "offer"}}, a \in BOOLEAN :
          First!Configured!Row(u, k, a) \in First!Configured!Rows
    BY DEF First!Configured!Rows
  <2>2. First!Configured!Row("u", {"app"}, TRUE) \in First!Configured!Rows
    BY <2>1, Zenon
  <2>3. First!Configured!Row("u", {"app"}, TRUE) = [is |-> "row", url |-> "u", types |-> {"app"}, active |-> TRUE]
    BY DEF First!Configured!Row
  <2> QED
    BY <2>2, <2>3, Zenon DEF First!HookConstants
<1>3. First!TieredConstants
  BY First!FS_Singleton DEF First!TieredConstants
<1> QED
  BY <1>1, <1>2, <1>3

(* Member is the Tenants of Services_proofs.                                 *)
LEMMA MemberHolds ==
  /\ Member!Init => First!TenantsInvariant
  /\ First!TenantsInvariant /\ [Member!Next]_memberVars => First!TenantsInvariant'
  /\ First!TenantsInvariant => Member!TenantsAgree
BY FirstConstants, First!TenantsService, Zenon
DEF
  Member!Idle, First!Tenants!Idle, Member!None, First!Tenants!None, Member!Joined, First!Tenants!Joined,
  Member!Admin, First!Tenants!Admin, Member!SlugsTaken, First!Tenants!SlugsTaken, Member!Checked,
  First!Tenants!Checked, Member!RowsKept, First!Tenants!RowsKept, Member!Violates, First!Tenants!Violates,
  Member!Init, First!Tenants!Init, Member!Next, First!Tenants!Next, memberVars, First!Tenants!vars, Member!Found,
  First!Tenants!Found, Member!Invite, First!Tenants!Invite, Member!Branch, First!Tenants!Branch, Member!Commit,
  First!Tenants!Commit, Member!Fail, First!Tenants!Fail, Member!FreeSlug, First!Tenants!FreeSlug, Member!Cardinality,
  First!Tenants!Cardinality, Member!Min, First!Tenants!Min, First!Tenants!TenantsAgree, Member!TenantsAgree,
  Member!IsFiniteSet, First!Tenants!IsFiniteSet

(* Workspace is its Store.                                                   *)
LEMMA WorkspaceHolds ==
  /\ Workspace!Init => First!StoreInvariant
  /\ First!StoreInvariant /\ [Workspace!Next]_storeVars => First!StoreInvariant'
  /\ First!StoreInvariant =>
       /\ Workspace!NothingElseIsLost /\ Workspace!OverlapsTear
       /\ Workspace!OverlapsMissIt /\ Workspace!RemovedForGood
BY First!StoreService, Zenon
DEF
  Workspace!NoFile, First!Store!NoFile, Workspace!Truncated, First!Store!Truncated, Workspace!Torn, First!Store!Torn,
  Workspace!Stored, First!Store!Stored, Workspace!Mutations, First!Store!Mutations, Workspace!Reads,
  First!Store!Reads, Workspace!ForItem, First!Store!ForItem, Workspace!Busy, First!Store!Busy, Workspace!Overlaps,
  First!Store!Overlaps, Workspace!Overlapping, First!Store!Overlapping, Workspace!Readable, First!Store!Readable,
  Workspace!Removed, First!Store!Removed, Workspace!Quiet, First!Store!Quiet, Workspace!Init, First!Store!Init,
  Workspace!Next, First!Store!Next, Workspace!Step, First!Store!Step, Workspace!Reading, First!Store!Reading,
  Workspace!Load, First!Store!Load, Workspace!Missing, First!Store!Missing, Workspace!Save, First!Store!Save,
  Workspace!Open, First!Store!Open, Workspace!Changed, First!Store!Changed, Workspace!Write, First!Store!Write,
  Workspace!WriteLost, First!Store!WriteLost, Workspace!Remove, First!Store!Remove, Workspace!List, First!Store!List,
  Workspace!Get, First!Store!Get, Workspace!Preferences, First!Store!Preferences, Workspace!Found, First!Store!Found,
  Workspace!Goes, First!Store!Goes, Workspace!Answers, First!Store!Answers, Workspace!With, First!Store!With,
  Workspace!Altered, First!Store!Altered, Workspace!Agree, First!Store!Agree, Workspace!NothingElseIsLost,
  First!Store!NothingElseIsLost, Workspace!OverlapsTear, First!Store!OverlapsTear, Workspace!OverlapsMissIt,
  First!Store!OverlapsMissIt, Workspace!RemovedForGood, First!Store!RemovedForGood, storeVars, First!Store!vars

(* Derived is its Dated.                                                     *)
LEMMA DerivedHolds ==
  /\ Derived!Init => First!DatedInvariant
  /\ First!DatedInvariant /\ [Derived!Next]_derivedVars => First!DatedInvariant'
  /\ First!DatedInvariant => Derived!StaleIsReported
BY First!DatedService, Zenon
DEF
  Derived!None, First!Dated!None, Derived!Kinds, First!Dated!Kinds, Derived!Idle, First!Dated!Idle, Derived!Exists,
  First!Dated!Exists, Derived!Analyses, First!Dated!Analyses, Derived!Decisions, First!Dated!Decisions,
  Derived!RowsKept, First!Dated!RowsKept, Derived!TimeKept, First!Dated!TimeKept, Derived!Stale, First!Dated!Stale,
  Derived!Init, First!Dated!Init, derivedVars, First!Dated!vars, Derived!Next, First!Dated!Next, Derived!Done,
  First!Dated!Done, Derived!Tick, First!Dated!Tick, Derived!Storing, First!Dated!Storing, Derived!Reads,
  First!Dated!Reads, Derived!Analyse, First!Dated!Analyse, Derived!Decide, First!Dated!Decide, Derived!List,
  First!Dated!List, Derived!Turn, First!Dated!Turn, Derived!Overtaken, First!Dated!Overtaken, Derived!Dates,
  First!Dated!Dates, Derived!DeleteOld, First!Dated!DeleteOld, Derived!Store, First!Dated!Store, Derived!Override,
  First!Dated!Override, Derived!Update, First!Dated!Update, Derived!Edit, First!Dated!Edit, Derived!Abort,
  First!Dated!Abort, Derived!StaleIsReported, First!Dated!StaleIsReported

(* Apply is its Applied.                                                     *)
LEMMA ApplyHolds ==
  /\ Apply!Init => First!ApplyInvariant
  /\ First!ApplyInvariant /\ [Apply!Next]_applyVars => First!ApplyInvariant'
  /\ First!ApplyInvariant => Apply!ApplicationsHaveTheirResume
BY FirstConstants, First!ApplyService, Zenon
DEF
  Apply!Nobody, First!Applied!Nobody, Apply!Staff, First!Applied!Staff, Apply!Goes, First!Applied!Goes, Apply!Taken,
  First!Applied!Taken, Apply!Init, First!Applied!Init, applyVars, First!Applied!vars, Apply!Next, First!Applied!Next,
  Apply!Step, First!Applied!Step, Apply!Upload, First!Applied!Upload, Apply!Look, First!Applied!Look, Apply!Removed,
  First!Applied!Removed, Apply!Fail, First!Applied!Fail, Apply!Flush, First!Applied!Flush, Apply!Check,
  First!Applied!Check, Apply!Commit, First!Applied!Commit, Apply!Submit, First!Applied!Submit, Apply!Error,
  First!Applied!Error, Apply!Die, First!Applied!Die, Apply!Close, First!Applied!Close, Apply!Enter,
  First!Applied!Enter, Apply!ApplicationsHaveTheirResume, First!Applied!ApplicationsHaveTheirResume

(* People is its Records.                                                    *)
LEMMA PeopleHold ==
  /\ People!Init => First!PeopleInvariant
  /\ First!PeopleInvariant /\ [People!Next]_peopleVars => First!PeopleInvariant'
  /\ First!PeopleInvariant => People!DeletionIsSafe /\ People!StatusIsAccountedFor
BY FirstConstants, First!PeopleService, Zenon
DEF
  People!Nobody, First!Records!Nobody, People!Gone, First!Records!Gone, People!Exists, First!Records!Exists,
  People!Idle, First!Records!Idle, People!Rows, First!Records!Rows, People!Init, First!Records!Init, peopleVars,
  First!Records!candidateVars, People!Next, First!Records!Next, People!Request, First!Records!Request, People!Alone,
  First!Records!Alone, People!Loads, First!Records!Loads, People!Ends, First!Records!Ends, People!Audited,
  First!Records!Audited, People!Raises, First!Records!Raises, People!Writing, First!Records!Writing, People!Create,
  First!Records!Create, People!Edit, First!Records!Edit, People!Written, First!Records!Written, People!Update,
  First!Records!Update, People!Remove, First!Records!Remove, People!Delete, First!Records!Delete, People!Note,
  First!Records!Note, People!CreateNote, First!Records!CreateNote, People!EditNote, First!Records!EditNote,
  People!UpdateNote, First!Records!UpdateNote, People!Apply, First!Records!Apply, People!Move, First!Records!Move, People!Analyse,
  First!Records!Analyse, People!Analysed, First!Records!Analysed, People!DeletionIsSafe,
  First!Records!DeletionIsSafe, People!StatusIsAccountedFor, First!Records!StatusIsAccountedFor

(* Audit is its Trail.                                                       *)
LEMMA AuditHolds ==
  /\ Audit!Init => First!AuditInvariant
  /\ First!AuditInvariant /\ [Audit!Next]_auditVars => First!AuditInvariant'
  /\ First!AuditInvariant => Audit!TrailIsComplete
BY FirstConstants, First!AuditService, Zenon
DEF
  Audit!Candidates, First!Trail!Candidates, Audit!NoEvents, First!Trail!NoEvents, Audit!Truncated,
  First!Trail!Truncated, Audit!Goes, First!Trail!Goes, Audit!Faults, First!Trail!Faults, Audit!InLock,
  First!Trail!InLock, Audit!Locked, First!Trail!Locked, Audit!Contains, First!Trail!Contains, Audit!Cardinality,
  First!Trail!Cardinality, Audit!IsFiniteSet, First!Trail!IsFiniteSet, Audit!Init, First!Trail!Init, auditVars,
  First!Trail!vars, Audit!Next, First!Trail!Next, Audit!Persist, First!Trail!Persist, Audit!AppendLine,
  First!Trail!AppendLine, Audit!ReadIndex, First!Trail!ReadIndex, Audit!OpenIndex, First!Trail!OpenIndex,
  Audit!WriteIndex, First!Trail!WriteIndex, Audit!FileError, First!Trail!FileError, Audit!TrailIsComplete,
  First!Trail!TrailIsComplete, Audit!Timeline, First!Trail!Timeline

(* Managed is its Configured, one action after the other.                    *)
LEMMA ManagedIsConfigured ==
  /\ Managed!Init => First!Configured!Init
  /\ [Managed!Next]_hookVars => [First!Configured!Next]_(First!Configured!webhookVars)
  /\ First!Configured!TrailTellsRows => Managed!TrailTellsRows
<1>1. Managed!Init => First!Configured!Init
  BY Zenon DEF Managed!Init, First!Configured!Init, Managed!Absent, First!Configured!Absent, Managed!NoCall,
    First!Configured!NoCall, Managed!Idle, First!Configured!Idle
<1>2. \A c : Managed!Manage(c) => First!Configured!Manage(c)
  <2>1. \A c, h, r : Managed!Create(c, h, r) => First!Configured!Create(c, h, r)
    BY Zenon DEF Managed!Create, First!Configured!Create, Managed!Absent, First!Configured!Absent, Managed!Gone,
      First!Configured!Gone, Managed!Row, First!Configured!Row, Managed!Rows, First!Configured!Rows,
      Managed!Idle, First!Configured!Idle, Managed!NoCall, First!Configured!NoCall, Managed!Live,
      First!Configured!Live, Managed!Goes, First!Configured!Goes, Managed!Ends, First!Configured!Ends,
      Managed!Begins, First!Configured!Begins, Managed!DeliverySame, First!Configured!DeliverySame
  <2>2. \A c, h : Managed!Begin(c, h) => First!Configured!Begin(c, h)
    BY DEF Managed!Begin, First!Configured!Begin, Managed!Load, First!Configured!Load, Managed!Changes,
      First!Configured!Changes, Managed!Switches, First!Configured!Switches, Managed!Absent,
      First!Configured!Absent, Managed!Gone, First!Configured!Gone, Managed!Row, First!Configured!Row,
      Managed!Rows, First!Configured!Rows, Managed!Idle, First!Configured!Idle, Managed!NoCall,
      First!Configured!NoCall, Managed!Live, First!Configured!Live, Managed!Goes, First!Configured!Goes,
      Managed!Ends, First!Configured!Ends, Managed!Begins, First!Configured!Begins, Managed!DeliverySame,
      First!Configured!DeliverySame
  <2>3. \A c : /\ Managed!Write(c) => First!Configured!Write(c)
               /\ Managed!Refresh(c) => First!Configured!Refresh(c)
               /\ Managed!Record(c) => First!Configured!Record(c)
               /\ Managed!Die(c) => First!Configured!Die(c)
    BY Zenon DEF Managed!Write, First!Configured!Write, Managed!Written, First!Configured!Written,
      Managed!Refresh, First!Configured!Refresh, Managed!Record, First!Configured!Record, Managed!Die,
      First!Configured!Die, Managed!Absent, First!Configured!Absent, Managed!Gone, First!Configured!Gone,
      Managed!Row, First!Configured!Row, Managed!Rows, First!Configured!Rows, Managed!Idle,
      First!Configured!Idle, Managed!NoCall, First!Configured!NoCall, Managed!Live, First!Configured!Live,
      Managed!Goes, First!Configured!Goes, Managed!Ends, First!Configured!Ends, Managed!Begins,
      First!Configured!Begins, Managed!DeliverySame, First!Configured!DeliverySame
  <2> QED
    BY <2>1, <2>2, <2>3, Zenon DEF Managed!Manage, First!Configured!Manage
<1>3. /\ \A k : Managed!Dispatch(k) => First!Configured!Dispatch(k)
      /\ Managed!Deliver => First!Configured!Deliver
  BY Zenon DEF Managed!Dispatch, First!Configured!Dispatch, Managed!Subscribers, First!Configured!Subscribers,
    Managed!Deliver, First!Configured!Deliver, Managed!Take, First!Configured!Take, Managed!Runnable,
    First!Configured!Runnable, Managed!SetStatus, First!Configured!SetStatus, Managed!Send,
    First!Configured!Send, Managed!Answers, First!Configured!Answers, Managed!Answered,
    First!Configured!Answered, Managed!Absent, First!Configured!Absent, Managed!Gone, First!Configured!Gone,
    Managed!Row, First!Configured!Row, Managed!Rows, First!Configured!Rows, Managed!Idle, First!Configured!Idle,
    Managed!NoCall, First!Configured!NoCall, Managed!Live, First!Configured!Live, Managed!Goes,
    First!Configured!Goes, Managed!Ends, First!Configured!Ends, Managed!Begins, First!Configured!Begins,
    Managed!DeliverySame, First!Configured!DeliverySame
<1>4. (First!Configured!TrailTellsRows => Managed!TrailTellsRows)
  BY Zenon DEF Managed!TrailTellsRows, First!Configured!TrailTellsRows, Managed!Absent, First!Configured!Absent,
    Managed!Gone, First!Configured!Gone, Managed!Row, First!Configured!Row, Managed!Rows, First!Configured!Rows,
    Managed!Idle, First!Configured!Idle, Managed!NoCall, First!Configured!NoCall, Managed!Live,
    First!Configured!Live, Managed!Goes, First!Configured!Goes, Managed!Ends, First!Configured!Ends,
    Managed!Begins, First!Configured!Begins, Managed!DeliverySame, First!Configured!DeliverySame
<1> QED
  BY <1>1, <1>2, <1>3, <1>4, Zenon DEF hookVars, First!Configured!webhookVars, Managed!Next,
    First!Configured!Next

(* So what is shown of it holds of Managed.                                  *)
LEMMA ManagedHolds ==
  /\ Managed!Init => (First!HookInvariant /\ First!DeliveryInvariant)
  /\ (First!HookInvariant /\ First!DeliveryInvariant) /\ [Managed!Next]_hookVars => (First!HookInvariant /\ First!DeliveryInvariant)'
  /\ (First!HookInvariant /\ First!DeliveryInvariant) => Managed!TrailTellsRows
BY FirstConstants, First!HookService, ManagedIsConfigured, Zenon

(* Accepts is its Fanned.                                                    *)
LEMMA AcceptsHolds ==
  /\ Accepts!Init => First!FanoutInvariant
  /\ First!FanoutInvariant /\ [Accepts!Next]_fanoutVars => First!FanoutInvariant'
  /\ First!FanoutInvariant => Accepts!FanoutIsComplete /\ Accepts!OneMailPerEvent /\ Accepts!MailFollowsNote
BY FirstConstants, First!FanoutService, Zenon
DEF
  Accepts!Init, First!Fanned!Init, Accepts!Recipients, First!Fanned!Recipients, Accepts!Begin, First!Fanned!Begin,
  Accepts!TellsCandidate, First!Fanned!TellsCandidate, Accepts!AppEvents, First!Fanned!AppEvents, Accepts!Interviews,
  First!Fanned!Interviews, Accepts!Goes, First!Fanned!Goes, Accepts!DbSame, First!Fanned!DbSame, Accepts!LoadStaff,
  First!Fanned!LoadStaff, Accepts!Audience, First!Fanned!Audience, Accepts!StaffRoles, First!Fanned!StaffRoles,
  Accepts!NextStaff, First!Fanned!NextStaff, Accepts!CreateNote, First!Fanned!CreateNote, Accepts!EnqueueEmail,
  First!Fanned!EnqueueEmail, Accepts!AfterRecipient, First!Fanned!AfterRecipient, Accepts!EmailEligible,
  First!Fanned!EmailEligible, Accepts!EmailKey, First!Fanned!EmailKey, Accepts!Add, First!Fanned!Add, Accepts!NewJob,
  First!Fanned!NewJob, Accepts!LoadHooks, First!Fanned!LoadHooks, Accepts!Subscribed, First!Fanned!Subscribed,
  Accepts!EventId, First!Fanned!EventId, Accepts!WebhookEligible, First!Fanned!WebhookEligible, Accepts!EnqueuePost,
  First!Fanned!EnqueuePost, Accepts!Produce, First!Fanned!Produce, Accepts!Lose, First!Fanned!Lose,
  Accepts!Cardinality, First!Fanned!Cardinality, Accepts!IsFiniteSet, First!Fanned!IsFiniteSet, Accepts!RunEmail,
  First!Fanned!RunEmail, Accepts!Runnable, First!Fanned!Runnable, Accepts!Ended, First!Fanned!Ended, Accepts!RunPost,
  First!Fanned!RunPost, Accepts!Handle, First!Fanned!Handle, Accepts!MailOutcomes, First!Fanned!MailOutcomes,
  Accepts!PostOutcomes, First!Fanned!PostOutcomes, Accepts!SetMember, First!Fanned!SetMember, Accepts!Edit,
  First!Fanned!Edit, Accepts!UpdatePreference, First!Fanned!UpdatePreference, Accepts!SetHook, First!Fanned!SetHook,
  Accepts!Mark, First!Fanned!Mark, Accepts!MarkAll, First!Fanned!MarkAll, Accepts!Manage, First!Fanned!Manage,
  Accepts!Tick, First!Fanned!Tick, fanoutVars, First!Fanned!vars, Accepts!Next, First!Fanned!Next,
  Accepts!FanoutIsComplete, First!Fanned!FanoutIsComplete, Accepts!OneMailPerEvent, First!Fanned!OneMailPerEvent,
  Accepts!MailFollowsNote, First!Fanned!MailFollowsNote

(* Pipeline is its Piped.                                                    *)
LEMMA PipelineHolds ==
  /\ Pipeline!Init => First!PipeInvariant
  /\ First!PipeInvariant /\ [Pipeline!Next]_pipeVars => First!PipeInvariant'
  /\ First!PipeInvariant => Pipeline!AnswerIsUsable
BY FirstConstants, First!PipeService, Zenon
DEF
  Pipeline!Kinds, First!Piped!Kinds, Pipeline!Replies, First!Piped!Replies, Pipeline!Nothing, First!Piped!Nothing,
  Pipeline!NoReply, First!Piped!NoReply, Pipeline!Pending, First!Piped!Pending, Pipeline!Clamped,
  First!Piped!Clamped, Pipeline!Valid, First!Piped!Valid, Pipeline!Accepted, First!Piped!Accepted, Pipeline!Bank,
  First!Piped!Bank, Pipeline!Init, First!Piped!Init, pipeVars, First!Piped!vars, Pipeline!Next, First!Piped!Next,
  Pipeline!Answered, First!Piped!Answered, Pipeline!Failed, First!Piped!Failed, Pipeline!Backoff,
  First!Piped!Backoff, Pipeline!Check, First!Piped!Check, Pipeline!Fallback, First!Piped!Fallback,
  Pipeline!AnswerIsUsable, First!Piped!AnswerIsUsable

(* Booting is its Assisted.                                                  *)
LEMMA BootingHolds ==
  /\ Booting!Init => First!AssistantInvariant
  /\ First!AssistantInvariant /\ [Booting!Next]_assistantVars => First!AssistantInvariant'
  /\ First!AssistantInvariant => Booting!TemplatesAreKnown /\ Booting!ComparisonsAreCurrent
BY FirstConstants, First!AssistantService, Zenon
DEF
  Booting!Names, First!Assisted!Names, Booting!Down, First!Assisted!Down, Booting!Quiet, First!Assisted!Quiet,
  Booting!Put, First!Assisted!Put, Booting!Served, First!Assisted!Served, Booting!Boots, First!Assisted!Boots,
  Booting!Goes, First!Assisted!Goes, Booting!StoreSame, First!Assisted!StoreSame, Booting!Init, First!Assisted!Init,
  Booting!Launch, First!Assisted!Launch, Booting!Start, First!Assisted!Start, Booting!Add, First!Assisted!Add,
  Booting!Persist, First!Assisted!Persist, Booting!LoadFromStore, First!Assisted!LoadFromStore, Booting!Stop,
  First!Assisted!Stop, Booting!Compare, First!Assisted!Compare, Booting!Begin, First!Assisted!Begin,
  Booting!LoadCandidate, First!Assisted!LoadCandidate, Booting!Render, First!Assisted!Render, Booting!Look,
  First!Assisted!Look, Booting!Hit, First!Assisted!Hit, Booting!Generate, First!Assisted!Generate, Booting!Keep,
  First!Assisted!Keep, Booting!Return, First!Assisted!Return, Booting!EditCandidate, First!Assisted!EditCandidate,
  Booting!Tick, First!Assisted!Tick, assistantVars, First!Assisted!assistantVars, Booting!Next, First!Assisted!Next,
  Booting!TemplatesAreKnown, First!Assisted!TemplatesAreKnown, Booting!ComparisonsAreCurrent,
  First!Assisted!ComparisonsAreCurrent

(* Cached is its Reread.                                                     *)
LEMMA CachedHolds ==
  /\ Cached!Init => First!ReadCacheInvariant
  /\ First!ReadCacheInvariant /\ [Cached!Next]_cacheVars => First!ReadCacheInvariant'
  /\ First!ReadCacheInvariant => Cached!StaleOnlyByOverlap
BY FirstConstants, First!ReadCacheService, Zenon
DEF
  Cached!Companies, First!Reread!Companies, Cached!Idle, First!Reread!Idle, Cached!Init, First!Reread!Init,
  Cached!Fresh, First!Reread!Fresh, Cached!Without, First!Reread!Without, Cached!Get, First!Reread!Get,
  Cached!Load, First!Reread!Load, Cached!Oldest, First!Reread!Oldest, Cached!Roomy, First!Reread!Roomy,
  Cached!Kept, First!Reread!Kept, Cached!Set, First!Reread!Set, Cached!Write, First!Reread!Write, Cached!Dropped,
  First!Reread!Dropped, Cached!Invalidate, First!Reread!Invalidate, Cached!Tick, First!Reread!Tick, Cached!Next,
  First!Reread!Next, Cached!StaleOnlyByOverlap, First!Reread!StaleOnlyByOverlap, Cached!Cardinality,
  First!Reread!Cardinality, Cached!IsFiniteSet, First!Reread!IsFiniteSet, cacheVars, First!Reread!vars

(* Copies is its Tiered.                                                     *)
LEMMA CopiesHold ==
  /\ Copies!Init => First!CacheInvariant
  /\ First!CacheInvariant /\ [Copies!Next]_tierVars => First!CacheInvariant'
  /\ First!CacheInvariant => Copies!StaleOnlyIfUnseen
BY FirstConstants, First!CacheService, Zenon
DEF
  Copies!Before, First!Tiered!Before, Copies!Prefixed, First!Tiered!Prefixed, Copies!Listed, First!Tiered!Listed,
  Copies!InvalidatePrefix, First!Tiered!InvalidatePrefix, Copies!NextKey, First!Tiered!NextKey,
  Copies!None, First!Tiered!None, Copies!Idle, First!Tiered!Idle, Copies!Init, First!Tiered!Init, Copies!Live,
  First!Tiered!Live, Copies!Get, First!Tiered!Get, Copies!Held, First!Tiered!Held, Copies!Without,
  First!Tiered!Without, Copies!Pruned, First!Tiered!Pruned, Copies!Unseen, First!Tiered!Unseen, Copies!SetBackend,
  First!Tiered!SetBackend, Copies!SetFallback, First!Tiered!SetFallback, Copies!DeleteBackend,
  First!Tiered!DeleteBackend, Copies!DeleteFallback, First!Tiered!DeleteFallback, Copies!Write, First!Tiered!Write,
  Copies!Delete, First!Tiered!Delete, Copies!Busy, First!Tiered!Busy, Copies!Look, First!Tiered!Look,
  Copies!Acquire, First!Tiered!Acquire, Copies!Release, First!Tiered!Release, Copies!Fail, First!Tiered!Fail,
  Copies!Recover, First!Tiered!Recover, Copies!Tick, First!Tiered!Tick, Copies!Next, First!Tiered!Next,
  Copies!Cardinality, First!Tiered!Cardinality, Copies!IsFiniteSet, First!Tiered!IsFiniteSet,
  Copies!StaleOnlyIfUnseen, First!Tiered!StaleOnlyIfUnseen, tierVars, First!Tiered!vars

(* Posts is its JobRows, one action after the other.                         *)
LEMMA PostsAreJobRows ==
  /\ Posts!Init => First!JobRows!Init
  /\ [Posts!Next]_jobVars => [First!JobRows!Next]_(First!JobRows!vars)
  /\ First!JobRows!IntelligenceIsCurrent => Posts!IntelligenceIsCurrent
  /\ First!JobRows!OnlyMatchesHideIt => Posts!OnlyMatchesHideIt
<1>1. Posts!Init => First!JobRows!Init
  BY Zenon DEF Posts!Init, First!JobRows!Init, Posts!NoJob, First!JobRows!NoJob, Posts!NoIntel,
    First!JobRows!NoIntel, Posts!Idle, First!JobRows!Idle
<1>2. [Posts!Next]_jobVars => [First!JobRows!Next]_(First!JobRows!vars)
  <2>1. Posts!Nothing = First!JobRows!Nothing /\ \A t, r : Posts!Built(t, r) = First!JobRows!Built(t, r)
    BY Zenon DEF Posts!Built, First!JobRows!Built, Posts!ExperienceRange, First!JobRows!ExperienceRange,
      Posts!Seniority, First!JobRows!Seniority, Posts!Least, First!JobRows!Least, Posts!Greatest,
      First!JobRows!Greatest, Posts!NoRange, First!JobRows!NoRange, Posts!Nothing, First!JobRows!Nothing,
      Posts!Open, First!JobRows!Open, Posts!Levels, First!JobRows!Levels, Posts!Cardinality,
      First!JobRows!Cardinality, Posts!IsFiniteSet, First!JobRows!IsFiniteSet
  <2>2. \A c : /\ Posts!Create(c) => First!JobRows!Create(c)
               /\ Posts!Edit(c) => First!JobRows!Edit(c)
               /\ Posts!Update(c) => First!JobRows!Update(c)
               /\ Posts!Match(c) => First!JobRows!Match(c)
    BY Zenon DEF Posts!Create, First!JobRows!Create, Posts!Edit, First!JobRows!Edit, Posts!Update,
      First!JobRows!Update, Posts!Match, First!JobRows!Match, Posts!Starts, First!JobRows!Starts, Posts!Quiet,
      First!JobRows!Quiet, Posts!Exists, First!JobRows!Exists, Posts!NoJob, First!JobRows!NoJob, Posts!NoIntel,
      First!JobRows!NoIntel, Posts!Idle, First!JobRows!Idle, Posts!Done, First!JobRows!Done
  <2>3. \A c : /\ Posts!Refresh(c) => First!JobRows!Refresh(c)
               /\ Posts!NoteMatch(c) => First!JobRows!NoteMatch(c)
               /\ Posts!Delete(c) => First!JobRows!Delete(c)
               /\ Posts!Die(c) => First!JobRows!Die(c)
    BY Zenon DEF Posts!Refresh, First!JobRows!Refresh, Posts!NoteMatch, First!JobRows!NoteMatch, Posts!Delete,
      First!JobRows!Delete, Posts!Die, First!JobRows!Die, Posts!Rebuilds, First!JobRows!Rebuilds, Posts!Noted,
      First!JobRows!Noted, Posts!Exists, First!JobRows!Exists, Posts!NoJob, First!JobRows!NoJob, Posts!NoIntel,
      First!JobRows!NoIntel, Posts!Idle, First!JobRows!Idle, Posts!Done, First!JobRows!Done
  <2>4. \A c : Posts!Store(c) => First!JobRows!Store(c)
    BY <2>1, Zenon DEF Posts!Store, First!JobRows!Store, Posts!Exists, First!JobRows!Exists, Posts!NoJob,
      First!JobRows!NoJob, Posts!NoIntel, First!JobRows!NoIntel, Posts!Idle, First!JobRows!Idle, Posts!Done,
      First!JobRows!Done
  <2> QED
    BY <2>1, <2>2, <2>3, <2>4, Zenon DEF jobVars, First!JobRows!vars, Posts!Next, First!JobRows!Next
<1>3. /\ First!JobRows!IntelligenceIsCurrent => Posts!IntelligenceIsCurrent
      /\ First!JobRows!OnlyMatchesHideIt => Posts!OnlyMatchesHideIt
  BY Zenon DEF Posts!IntelligenceIsCurrent, First!JobRows!IntelligenceIsCurrent, Posts!OnlyMatchesHideIt,
    First!JobRows!OnlyMatchesHideIt, Posts!Quiet, First!JobRows!Quiet, Posts!Exists, First!JobRows!Exists,
    Posts!NoJob, First!JobRows!NoJob, Posts!NoIntel, First!JobRows!NoIntel, Posts!Idle, First!JobRows!Idle,
    Posts!Done, First!JobRows!Done
<1> QED
  BY <1>1, <1>2, <1>3, Zenon

(* So what is shown of it holds of Posts.                                    *)
LEMMA PostsHold ==
  /\ Posts!Init => First!PostInvariant
  /\ First!PostInvariant /\ [Posts!Next]_jobVars => First!PostInvariant'
  /\ First!PostInvariant => Posts!IntelligenceIsCurrent /\ Posts!OnlyMatchesHideIt
BY First!PostService, PostsAreJobRows, Zenon

(* Limiter is its Limited.                                                   *)
LEMMA LimiterHolds ==
  /\ Limiter!Init => First!LimitInvariant
  /\ First!LimitInvariant /\ [Limiter!Next]_limiterVars => First!LimitInvariant'
  /\ First!LimitInvariant => Limiter!LimitIsExact
BY FirstConstants, First!LimitService, Zenon
DEF
  Limiter!Init, First!Limited!Init, Limiter!Stale, First!Limited!Stale, Limiter!Popped, First!Limited!Popped,
  Limiter!Pruned, First!Limited!Pruned, Limiter!Request, First!Limited!Request, Limiter!Later, First!Limited!Later,
  Limiter!Next, First!Limited!Next, Limiter!InWindow, First!Limited!InWindow, Limiter!LimitIsExact,
  First!Limited!LimitIsExact, Limiter!Cardinality, First!Limited!Cardinality, Limiter!IsFiniteSet,
  First!Limited!IsFiniteSet, limiterVars, First!Limited!vars

(* What is inductive in a behaviour of one of these parts.                   *)
FirstInvariant ==
  /\ part = "member"   => First!TenantsInvariant
  /\ part = "workspace" => First!StoreInvariant
  /\ part = "derived"  => First!DatedInvariant
  /\ part = "apply"    => First!ApplyInvariant
  /\ part = "people"   => First!PeopleInvariant
  /\ part = "audit"    => First!AuditInvariant
  /\ part = "managed"  => First!HookInvariant /\ First!DeliveryInvariant
  /\ part = "accepts"  => First!FanoutInvariant
  /\ part = "pipeline" => First!PipeInvariant
  /\ part = "booting"  => First!AssistantInvariant
  /\ part = "cached"   => First!ReadCacheInvariant
  /\ part = "copies"   => First!CacheInvariant
  /\ part = "posts"    => First!PostInvariant
  /\ part = "limiter"  => First!LimitInvariant

(* Each of them starts as its service does, and a step is one of its service.*)
LEMMA FirstPartsHold == MCSpec => []FirstInvariant
<1>1. MCInit => FirstInvariant
  BY MemberHolds, WorkspaceHolds, DerivedHolds, ApplyHolds, PeopleHold, AuditHolds, ManagedHolds, AcceptsHolds,
    PipelineHolds, BootingHolds, CachedHolds, CopiesHold, PostsHold, LimiterHolds, Zenon
  DEF MCInit, FirstInvariant
<1>2. FirstInvariant /\ [MCNext]_allVars => FirstInvariant'
  <2>1. [MCNext]_allVars =>
          /\ part' = "member" => part = "member" /\ [Member!Next]_memberVars
          /\ part' = "workspace" => part = "workspace" /\ [Workspace!Next]_storeVars
          /\ part' = "derived" => part = "derived" /\ [Derived!Next]_derivedVars
          /\ part' = "apply" => part = "apply" /\ [Apply!Next]_applyVars
          /\ part' = "people" => part = "people" /\ [People!Next]_peopleVars
          /\ part' = "audit" => part = "audit" /\ [Audit!Next]_auditVars
          /\ part' = "managed" => part = "managed" /\ [Managed!Next]_hookVars
          /\ part' = "accepts" => part = "accepts" /\ [Accepts!Next]_fanoutVars
          /\ part' = "pipeline" => part = "pipeline" /\ [Pipeline!Next]_pipeVars
          /\ part' = "booting" => part = "booting" /\ [Booting!Next]_assistantVars
          /\ part' = "cached" => part = "cached" /\ [Cached!Next]_cacheVars
          /\ part' = "copies" => part = "copies" /\ [Copies!Next]_tierVars
          /\ part' = "posts" => part = "posts" /\ [Posts!Next]_jobVars
          /\ part' = "limiter" => part = "limiter" /\ [Limiter!Next]_limiterVars
    BY Zenon DEF MCNext, allVars
  <2>2. FirstInvariant /\ [MCNext]_allVars =>
          /\ part' = "member" => First!TenantsInvariant'
          /\ part' = "workspace" => First!StoreInvariant'
          /\ part' = "derived" => First!DatedInvariant'
          /\ part' = "apply" => First!ApplyInvariant'
    BY <2>1, MemberHolds, WorkspaceHolds, DerivedHolds, ApplyHolds, Zenon DEF FirstInvariant
  <2>3. FirstInvariant /\ [MCNext]_allVars =>
          /\ part' = "people" => First!PeopleInvariant'
          /\ part' = "audit" => First!AuditInvariant'
          /\ part' = "managed" => (First!HookInvariant /\ First!DeliveryInvariant)'
          /\ part' = "accepts" => First!FanoutInvariant'
    BY <2>1, PeopleHold, AuditHolds, ManagedHolds, AcceptsHolds, Zenon DEF FirstInvariant
  <2>4. FirstInvariant /\ [MCNext]_allVars =>
          /\ part' = "pipeline" => First!PipeInvariant'
          /\ part' = "booting" => First!AssistantInvariant'
          /\ part' = "cached" => First!ReadCacheInvariant'
          /\ part' = "copies" => First!CacheInvariant'
    BY <2>1, PipelineHolds, BootingHolds, CachedHolds, CopiesHold, Zenon DEF FirstInvariant
  <2>5. FirstInvariant /\ [MCNext]_allVars =>
          /\ part' = "posts" => First!PostInvariant'
          /\ part' = "limiter" => First!LimitInvariant'
    BY <2>1, PostsHold, LimiterHolds, Zenon DEF FirstInvariant
  <2> QED
    BY <2>2, <2>3, <2>4, <2>5 DEF FirstInvariant
<1> QED
  BY <1>1, <1>2, PTL DEF MCSpec

(* Users, members and companies agree on who belongs where.                  *)
THEOREM TenantsHold == MCSpec => []TenantsAgree
<1>1. FirstInvariant => TenantsAgree
  BY MemberHolds DEF FirstInvariant, TenantsAgree
<1> QED
  BY <1>1, FirstPartsHold, PTL

(* A workspace file keeps every item whose last change overlapped no other;  *)
(* only changes that overlap tear it or take it for missing, and a removal   *)
(* that met no change is for good.                                           *)
THEOREM WorkspaceFilesKeepItems == MCSpec => []WorkspaceKeepsItems
<1>1. FirstInvariant => WorkspaceKeepsItems
  BY WorkspaceHolds DEF FirstInvariant, WorkspaceKeepsItems
<1> QED
  BY <1>1, FirstPartsHold, PTL

(* Rows, files and jobs of public applications agree, and so do a candidate, *)
(* the applications and what was done to them.                               *)
THEOREM ApplicationsKeepTheirResume == MCSpec => []ApplicationsHaveTheirResume
<1>1. FirstInvariant => ApplicationsHaveTheirResume
  BY ApplyHolds, PeopleHold DEF FirstInvariant, ApplicationsHaveTheirResume
<1> QED
  BY <1>1, FirstPartsHold, PTL

(* Of an offer that is accepted twice at a time, each recipient gets one     *)
(* mail, and of nothing that has no notification.                            *)
THEOREM MailsAreSentOnce == MCSpec => []OneMailPerEvent
<1>1. FirstInvariant => OneMailPerEvent
  BY AcceptsHolds DEF FirstInvariant, OneMailPerEvent
<1> QED
  BY <1>1, FirstPartsHold, PTL

(* The rate limit lets no more and no less through in any window.            *)
THEOREM LimitStaysExact == MCSpec => []LimitIsExact
<1>1. FirstInvariant => LimitIsExact
  BY LimiterHolds DEF FirstInvariant, LimitIsExact
<1> QED
  BY <1>1, FirstPartsHold, PTL

-----------------------------------------------------------------------------
(* The values of a second part with the same module.                         *)
Second == INSTANCE Services_proofs WITH
  Users <- {}, Names <- {}, MemberCalls <- {}, MaxBranches <- 0,
  StoreRequests <- {}, Items <- {}, Recruiters <- {}, StoreCalls <- {},
  AIRequests <- {"q1", "q2"}, MaxDates <- 3, MaxAIFaults <- 1,
  Forms <- {}, FormJobs <- {}, MaxErrors <- 0,
  RecordCalls <- {}, Papers <- {}, Remarks <- {}, SetStatuses <- {}, PaperStages <- {},
  MaxVisits <- 0,
  AuditEvents <- {}, SubjectOf <- <<>>, ProcessOf <- <<>>, MaxAuditFaults <- 0,
  Hooks <- {"h"}, Admins <- {"q1"}, Urls <- {"u"}, Kinds <- {"app"}, Types <- {{"app"}},
  HooksCreated <- {[is |-> "row", url |-> "u", types |-> {"app"}, active |-> a] : a \in BOOLEAN},
  MaxCalls <- 3, MaxEvents <- 1, MaxAttempts <- 2, MaxHookFaults <- 2,
  Mutations <- {"m1", "m2"}, EventOf <- [m1 |-> "interview.scheduled", m2 |-> "offer.submitted"],
  EntityOf <- [m1 |-> "e1", m2 |-> "e2"], ContentOf <- [m1 |-> "c1", m2 |-> "c1"],
  Staff <- {"adm", "rec", "int"},
  RoleOf <- [adm |-> "company_admin", rec |-> "recruiter", int |-> "interviewer"],
  Interviewer <- "int", Candidate <- "cand", Listeners <- {"h1"},
  MaxTries <- 2, MaxSeconds <- 0, MaxFailures <- 0, MaxLost <- 0, MaxEdits <- 1,
  PipelineAttempts <- 1, ProviderScores <- {}, ItemNumbers <- {},
  Procs <- {1}, Questions <- {"q1", "q2"}, HomeOf <- [q1 |-> 1, q2 |-> 1],
  Defaults <- <<"compare_candidates">>, Template <- "compare_candidates",
  Cands <- 2, TTL <- 1, MaxMinutes <- 1, MaxRevisions <- 1, MaxStarts <- 1, MaxAsks <- 2,
  Readers <- {}, ReportKeys <- {}, ReportTTL <- 0, ReportMax <- 0, MaxReportTime <- 0, MaxReportWrites <- 0,
  Machines <- {1}, CacheKeys <- {"k1", "k2", "k3"}, CacheLocks <- {}, CacheTTL <- 2, CopySize <- 1,
  MaxCacheTime <- 2, MaxCacheWrites <- 3, MaxOutages <- 0,
  PostCalls <- {}, MaxText <- 0, MaxMatches <- 0, MaxEditFaults <- 0, Replies <- {},
  Addresses <- {}, Limit <- 0, Window <- 0, MaxLimitTime <- 0,
  auditTable <- table, auditLog <- log, auditIndex <- index, auditPc <- pc, auditFailed <- failed, hookRows <- row,
  apiKey <- key

(* What is supposed of the constants, likewise.                              *)
LEMMA SecondConstants ==
  Second!HookConstants /\ Second!FanoutConstants /\ Second!AssistantConstants /\ Second!TieredConstants
<1>1. Second!FanoutConstants /\ Second!AssistantConstants
  BY DEF Second!FanoutConstants, Second!AssistantConstants, Second!Assisted!Names
<1>2. Second!HookConstants
  BY DEF Second!HookConstants, Second!Configured!Rows, Second!Configured!Row
<1>3. Second!TieredConstants
  <2>1. Second!IsFiniteSet(({"k1"} \cup {"k2"}) \cup {"k3"})
    BY Second!FS_Singleton, Second!FS_AddElement
  <2>2. ({"k1"} \cup {"k2"}) \cup {"k3"} = {"k1", "k2", "k3"}
    OBVIOUS
  <2> QED
    BY <2>1, <2>2 DEF Second!TieredConstants
<1> QED
  BY <1>1, <1>2, <1>3

(* Aborted is its Dated.                                                     *)
LEMMA AbortedHolds ==
  /\ Aborted!Init => Second!DatedInvariant
  /\ Second!DatedInvariant /\ [Aborted!Next]_derivedVars => Second!DatedInvariant'
  /\ Second!DatedInvariant => Aborted!StaleIsReported
BY Second!DatedService, Zenon
DEF
  Aborted!None, Second!Dated!None, Aborted!Kinds, Second!Dated!Kinds, Aborted!Idle, Second!Dated!Idle,
  Aborted!Exists, Second!Dated!Exists, Aborted!Analyses, Second!Dated!Analyses, Aborted!Decisions,
  Second!Dated!Decisions, Aborted!RowsKept, Second!Dated!RowsKept, Aborted!TimeKept, Second!Dated!TimeKept,
  Aborted!Stale, Second!Dated!Stale, Aborted!Init, Second!Dated!Init, derivedVars, Second!Dated!vars, Aborted!Next,
  Second!Dated!Next, Aborted!Done, Second!Dated!Done, Aborted!Tick, Second!Dated!Tick, Aborted!Storing,
  Second!Dated!Storing, Aborted!Reads, Second!Dated!Reads, Aborted!Analyse, Second!Dated!Analyse, Aborted!Decide,
  Second!Dated!Decide, Aborted!List, Second!Dated!List, Aborted!Turn, Second!Dated!Turn, Aborted!Overtaken,
  Second!Dated!Overtaken, Aborted!Dates, Second!Dated!Dates, Aborted!DeleteOld, Second!Dated!DeleteOld,
  Aborted!Store, Second!Dated!Store, Aborted!Override, Second!Dated!Override, Aborted!Update, Second!Dated!Update,
  Aborted!Edit, Second!Dated!Edit, Aborted!Abort, Second!Dated!Abort, Aborted!StaleIsReported,
  Second!Dated!StaleIsReported

(* Posted is its Configured.                                                 *)
LEMMA PostedIsConfigured ==
  /\ Posted!Init => Second!Configured!Init
  /\ [Posted!Next]_hookVars => [Second!Configured!Next]_(Second!Configured!webhookVars)
  /\ Second!Configured!TrailTellsRows => Posted!TrailTellsRows
  /\ Second!Configured!SubscribersHear => Posted!SubscribersHear
<1>1. Posted!Init => Second!Configured!Init
  BY Zenon DEF Posted!Init, Second!Configured!Init, Posted!Absent, Second!Configured!Absent, Posted!NoCall,
    Second!Configured!NoCall, Posted!Idle, Second!Configured!Idle
<1>2. \A c : Posted!Manage(c) => Second!Configured!Manage(c)
  <2>1. \A c, h, r : Posted!Create(c, h, r) => Second!Configured!Create(c, h, r)
    BY Zenon DEF Posted!Create, Second!Configured!Create, Posted!Absent, Second!Configured!Absent, Posted!Gone,
      Second!Configured!Gone, Posted!Row, Second!Configured!Row, Posted!Rows, Second!Configured!Rows,
      Posted!Idle, Second!Configured!Idle, Posted!NoCall, Second!Configured!NoCall, Posted!Live,
      Second!Configured!Live, Posted!Goes, Second!Configured!Goes, Posted!Ends, Second!Configured!Ends,
      Posted!Begins, Second!Configured!Begins, Posted!DeliverySame, Second!Configured!DeliverySame
  <2>2. \A c, h : Posted!Begin(c, h) => Second!Configured!Begin(c, h)
    BY DEF Posted!Begin, Second!Configured!Begin, Posted!Load, Second!Configured!Load, Posted!Changes,
      Second!Configured!Changes, Posted!Switches, Second!Configured!Switches, Posted!Absent,
      Second!Configured!Absent, Posted!Gone, Second!Configured!Gone, Posted!Row, Second!Configured!Row,
      Posted!Rows, Second!Configured!Rows, Posted!Idle, Second!Configured!Idle, Posted!NoCall,
      Second!Configured!NoCall, Posted!Live, Second!Configured!Live, Posted!Goes, Second!Configured!Goes,
      Posted!Ends, Second!Configured!Ends, Posted!Begins, Second!Configured!Begins, Posted!DeliverySame,
      Second!Configured!DeliverySame
  <2>3. \A c : /\ Posted!Write(c) => Second!Configured!Write(c)
               /\ Posted!Refresh(c) => Second!Configured!Refresh(c)
               /\ Posted!Record(c) => Second!Configured!Record(c)
               /\ Posted!Die(c) => Second!Configured!Die(c)
    BY Zenon DEF Posted!Write, Second!Configured!Write, Posted!Written, Second!Configured!Written,
      Posted!Refresh, Second!Configured!Refresh, Posted!Record, Second!Configured!Record, Posted!Die,
      Second!Configured!Die, Posted!Absent, Second!Configured!Absent, Posted!Gone, Second!Configured!Gone,
      Posted!Row, Second!Configured!Row, Posted!Rows, Second!Configured!Rows, Posted!Idle,
      Second!Configured!Idle, Posted!NoCall, Second!Configured!NoCall, Posted!Live, Second!Configured!Live,
      Posted!Goes, Second!Configured!Goes, Posted!Ends, Second!Configured!Ends, Posted!Begins,
      Second!Configured!Begins, Posted!DeliverySame, Second!Configured!DeliverySame
  <2> QED
    BY <2>1, <2>2, <2>3, Zenon DEF Posted!Manage, Second!Configured!Manage
<1>3. /\ \A k : Posted!Dispatch(k) => Second!Configured!Dispatch(k)
      /\ Posted!Deliver => Second!Configured!Deliver
  BY Zenon DEF Posted!Dispatch, Second!Configured!Dispatch, Posted!Subscribers, Second!Configured!Subscribers,
    Posted!Deliver, Second!Configured!Deliver, Posted!Take, Second!Configured!Take, Posted!Runnable,
    Second!Configured!Runnable, Posted!SetStatus, Second!Configured!SetStatus, Posted!Send,
    Second!Configured!Send, Posted!Answers, Second!Configured!Answers, Posted!Answered,
    Second!Configured!Answered, Posted!Absent, Second!Configured!Absent, Posted!Gone, Second!Configured!Gone,
    Posted!Row, Second!Configured!Row, Posted!Rows, Second!Configured!Rows, Posted!Idle, Second!Configured!Idle,
    Posted!NoCall, Second!Configured!NoCall, Posted!Live, Second!Configured!Live, Posted!Goes,
    Second!Configured!Goes, Posted!Ends, Second!Configured!Ends, Posted!Begins, Second!Configured!Begins,
    Posted!DeliverySame, Second!Configured!DeliverySame
<1>4. (Second!Configured!TrailTellsRows => Posted!TrailTellsRows) /\ (Second!Configured!SubscribersHear => Posted!SubscribersHear)
  BY Zenon DEF Posted!TrailTellsRows, Second!Configured!TrailTellsRows, Posted!SubscribersHear,
    Second!Configured!SubscribersHear, Posted!Absent, Second!Configured!Absent, Posted!Gone,
    Second!Configured!Gone, Posted!Row, Second!Configured!Row, Posted!Rows, Second!Configured!Rows, Posted!Idle,
    Second!Configured!Idle, Posted!NoCall, Second!Configured!NoCall, Posted!Live, Second!Configured!Live,
    Posted!Goes, Second!Configured!Goes, Posted!Ends, Second!Configured!Ends, Posted!Begins,
    Second!Configured!Begins, Posted!DeliverySame, Second!Configured!DeliverySame
<1> QED
  BY <1>1, <1>2, <1>3, <1>4, Zenon DEF hookVars, Second!Configured!webhookVars, Posted!Next,
    Second!Configured!Next

(* So what is shown of it holds of Posted.                                   *)
LEMMA PostedHolds ==
  /\ Posted!Init => (Second!HookInvariant /\ Second!DeliveryInvariant)
  /\ (Second!HookInvariant /\ Second!DeliveryInvariant) /\ [Posted!Next]_hookVars => (Second!HookInvariant /\ Second!DeliveryInvariant)'
  /\ (Second!HookInvariant /\ Second!DeliveryInvariant) => Posted!TrailTellsRows /\ Posted!SubscribersHear
BY SecondConstants, Second!HookService, PostedIsConfigured, Zenon

(* Mixed is its Fanned.                                                      *)
LEMMA MixedHolds ==
  /\ Mixed!Init => Second!FanoutInvariant
  /\ Second!FanoutInvariant /\ [Mixed!Next]_fanoutVars => Second!FanoutInvariant'
  /\ Second!FanoutInvariant => Mixed!FanoutIsComplete
BY SecondConstants, Second!FanoutService, Zenon
DEF
  Mixed!Init, Second!Fanned!Init, Mixed!Recipients, Second!Fanned!Recipients, Mixed!Begin, Second!Fanned!Begin,
  Mixed!TellsCandidate, Second!Fanned!TellsCandidate, Mixed!AppEvents, Second!Fanned!AppEvents, Mixed!Interviews,
  Second!Fanned!Interviews, Mixed!Goes, Second!Fanned!Goes, Mixed!DbSame, Second!Fanned!DbSame, Mixed!LoadStaff,
  Second!Fanned!LoadStaff, Mixed!Audience, Second!Fanned!Audience, Mixed!StaffRoles, Second!Fanned!StaffRoles,
  Mixed!NextStaff, Second!Fanned!NextStaff, Mixed!CreateNote, Second!Fanned!CreateNote, Mixed!EnqueueEmail,
  Second!Fanned!EnqueueEmail, Mixed!AfterRecipient, Second!Fanned!AfterRecipient, Mixed!EmailEligible,
  Second!Fanned!EmailEligible, Mixed!EmailKey, Second!Fanned!EmailKey, Mixed!Add, Second!Fanned!Add, Mixed!NewJob,
  Second!Fanned!NewJob, Mixed!LoadHooks, Second!Fanned!LoadHooks, Mixed!Subscribed, Second!Fanned!Subscribed,
  Mixed!EventId, Second!Fanned!EventId, Mixed!WebhookEligible, Second!Fanned!WebhookEligible, Mixed!EnqueuePost,
  Second!Fanned!EnqueuePost, Mixed!Produce, Second!Fanned!Produce, Mixed!Lose, Second!Fanned!Lose, Mixed!Cardinality,
  Second!Fanned!Cardinality, Mixed!IsFiniteSet, Second!Fanned!IsFiniteSet, Mixed!RunEmail, Second!Fanned!RunEmail,
  Mixed!Runnable, Second!Fanned!Runnable, Mixed!Ended, Second!Fanned!Ended, Mixed!RunPost, Second!Fanned!RunPost,
  Mixed!Handle, Second!Fanned!Handle, Mixed!MailOutcomes, Second!Fanned!MailOutcomes, Mixed!PostOutcomes,
  Second!Fanned!PostOutcomes, Mixed!SetMember, Second!Fanned!SetMember, Mixed!Edit, Second!Fanned!Edit,
  Mixed!UpdatePreference, Second!Fanned!UpdatePreference, Mixed!SetHook, Second!Fanned!SetHook, Mixed!Mark,
  Second!Fanned!Mark, Mixed!MarkAll, Second!Fanned!MarkAll, Mixed!Manage, Second!Fanned!Manage, Mixed!Tick,
  Second!Fanned!Tick, fanoutVars, Second!Fanned!vars, Mixed!Next, Second!Fanned!Next, Mixed!FanoutIsComplete,
  Second!Fanned!FanoutIsComplete

(* Chatting is its Assisted.                                                 *)
LEMMA ChattingHolds ==
  /\ Chatting!Init => Second!AssistantInvariant
  /\ Second!AssistantInvariant /\ [Chatting!Next]_assistantVars => Second!AssistantInvariant'
  /\ Second!AssistantInvariant => Chatting!TemplatesAreKnown /\ Chatting!ComparisonsAreCurrent
BY SecondConstants, Second!AssistantService, Zenon
DEF
  Chatting!Names, Second!Assisted!Names, Chatting!Down, Second!Assisted!Down, Chatting!Quiet, Second!Assisted!Quiet,
  Chatting!Put, Second!Assisted!Put, Chatting!Served, Second!Assisted!Served, Chatting!Boots, Second!Assisted!Boots,
  Chatting!Goes, Second!Assisted!Goes, Chatting!StoreSame, Second!Assisted!StoreSame, Chatting!Init,
  Second!Assisted!Init, Chatting!Launch, Second!Assisted!Launch, Chatting!Start, Second!Assisted!Start, Chatting!Add,
  Second!Assisted!Add, Chatting!Persist, Second!Assisted!Persist, Chatting!LoadFromStore,
  Second!Assisted!LoadFromStore, Chatting!Stop, Second!Assisted!Stop, Chatting!Compare, Second!Assisted!Compare,
  Chatting!Begin, Second!Assisted!Begin, Chatting!LoadCandidate, Second!Assisted!LoadCandidate, Chatting!Render,
  Second!Assisted!Render, Chatting!Look, Second!Assisted!Look, Chatting!Hit, Second!Assisted!Hit, Chatting!Generate,
  Second!Assisted!Generate, Chatting!Keep, Second!Assisted!Keep, Chatting!Return, Second!Assisted!Return,
  Chatting!EditCandidate, Second!Assisted!EditCandidate, Chatting!Tick, Second!Assisted!Tick, assistantVars,
  Second!Assisted!assistantVars, Chatting!Next, Second!Assisted!Next, Chatting!TemplatesAreKnown,
  Second!Assisted!TemplatesAreKnown, Chatting!ComparisonsAreCurrent, Second!Assisted!ComparisonsAreCurrent

(* Full is its Tiered.                                                       *)
LEMMA FullHolds ==
  /\ Full!Init => Second!CacheInvariant
  /\ Second!CacheInvariant /\ [Full!Next]_tierVars => Second!CacheInvariant'
  /\ Second!CacheInvariant => Full!StaleOnlyIfUnseen /\ Full!SizeIsBounded
BY SecondConstants, Second!CacheService, Zenon
DEF
  Full!Before, Second!Tiered!Before, Full!Prefixed, Second!Tiered!Prefixed, Full!Listed, Second!Tiered!Listed,
  Full!InvalidatePrefix, Second!Tiered!InvalidatePrefix, Full!NextKey, Second!Tiered!NextKey,
  Full!None, Second!Tiered!None, Full!Idle, Second!Tiered!Idle, Full!Init, Second!Tiered!Init, Full!Live,
  Second!Tiered!Live, Full!Get, Second!Tiered!Get, Full!Held, Second!Tiered!Held, Full!Without,
  Second!Tiered!Without, Full!Pruned, Second!Tiered!Pruned, Full!Unseen, Second!Tiered!Unseen, Full!SetBackend,
  Second!Tiered!SetBackend, Full!SetFallback, Second!Tiered!SetFallback, Full!DeleteBackend,
  Second!Tiered!DeleteBackend, Full!DeleteFallback, Second!Tiered!DeleteFallback, Full!Write, Second!Tiered!Write,
  Full!Delete, Second!Tiered!Delete, Full!Busy, Second!Tiered!Busy, Full!Look, Second!Tiered!Look, Full!Acquire,
  Second!Tiered!Acquire, Full!Release, Second!Tiered!Release, Full!Fail, Second!Tiered!Fail, Full!Recover,
  Second!Tiered!Recover, Full!Tick, Second!Tiered!Tick, Full!Next, Second!Tiered!Next, Full!Cardinality,
  Second!Tiered!Cardinality, Full!IsFiniteSet, Second!Tiered!IsFiniteSet, Full!StaleOnlyIfUnseen,
  Second!Tiered!StaleOnlyIfUnseen, Full!SizeIsBounded, Second!Tiered!SizeIsBounded, tierVars, Second!Tiered!vars

(* What is inductive in a behaviour of one of these parts.                   *)
SecondInvariant ==
  /\ part = "aborted"     => Second!DatedInvariant
  /\ part = "posted"      => Second!HookInvariant /\ Second!DeliveryInvariant
  /\ part = "mixed"       => Second!FanoutInvariant
  /\ part = "chatting"    => Second!AssistantInvariant
  /\ part = "full"        => Second!CacheInvariant

(* Each of them starts as its service does, and a step is one of its service.*)
LEMMA SecondPartsHold == MCSpec => []SecondInvariant
<1>1. MCInit => SecondInvariant
  BY AbortedHolds, PostedHolds, MixedHolds, ChattingHolds, FullHolds, Zenon
  DEF MCInit, SecondInvariant
<1>2. SecondInvariant /\ [MCNext]_allVars => SecondInvariant'
  <2>1. [MCNext]_allVars =>
          /\ part' = "aborted" => part = "aborted" /\ [Aborted!Next]_derivedVars
          /\ part' = "posted" => part = "posted" /\ [Posted!Next]_hookVars
          /\ part' = "mixed" => part = "mixed" /\ [Mixed!Next]_fanoutVars
          /\ part' = "chatting" => part = "chatting" /\ [Chatting!Next]_assistantVars
          /\ part' = "full" => part = "full" /\ [Full!Next]_tierVars
    BY Zenon DEF MCNext, allVars
  <2>2. SecondInvariant /\ [MCNext]_allVars =>
          /\ part' = "aborted" => Second!DatedInvariant'
          /\ part' = "posted" => (Second!HookInvariant /\ Second!DeliveryInvariant)'
          /\ part' = "mixed" => Second!FanoutInvariant'
    BY <2>1, AbortedHolds, PostedHolds, MixedHolds, Zenon DEF SecondInvariant
  <2>3. SecondInvariant /\ [MCNext]_allVars =>
          /\ part' = "chatting" => Second!AssistantInvariant'
          /\ part' = "full" => Second!CacheInvariant'
    BY <2>1, ChattingHolds, FullHolds, Zenon DEF SecondInvariant
  <2> QED
    BY <2>2, <2>3 DEF SecondInvariant
<1> QED
  BY <1>1, <1>2, PTL DEF MCSpec

(* What was made from old input is reported stale.                           *)
THEOREM StaleIsAlwaysReported == MCSpec => []StaleIsReported
<1>1. FirstInvariant /\ SecondInvariant => StaleIsReported
  BY DerivedHolds, AbortedHolds DEF FirstInvariant, SecondInvariant, StaleIsReported
<1> QED
  BY <1>1, FirstPartsHold, SecondPartsHold, PTL

(* No emitted audit event is forgotten, and the trail shows webhook          *)
(* configurations as they are.                                               *)
THEOREM TrailStaysComplete == MCSpec => []TrailIsComplete
<1>1. FirstInvariant /\ SecondInvariant => TrailIsComplete
  BY AuditHolds, ManagedHolds, PostedHolds DEF FirstInvariant, SecondInvariant, TrailIsComplete
<1> QED
  BY <1>1, FirstPartsHold, SecondPartsHold, PTL

(* Whatever an AI provider returns, the caller gets an answer it can use, and*)
(* one about the candidates as they are.                                     *)
THEOREM AnswersStayUsable == MCSpec => []AnswersAreUsable
<1>1. FirstInvariant /\ SecondInvariant => AnswersAreUsable
  BY PipelineHolds, BootingHolds, ChattingHolds DEF FirstInvariant, SecondInvariant, AnswersAreUsable
<1> QED
  BY <1>1, FirstPartsHold, SecondPartsHold, PTL

-----------------------------------------------------------------------------
(* And those of a third.                                                     *)
Third == INSTANCE Services_proofs WITH
  Users <- {}, Names <- {}, MemberCalls <- {}, MaxBranches <- 0,
  StoreRequests <- {}, Items <- {}, Recruiters <- {}, StoreCalls <- {},
  AIRequests <- {}, MaxDates <- 0, MaxAIFaults <- 0,
  Forms <- {}, FormJobs <- {}, MaxErrors <- 0,
  RecordCalls <- {}, Papers <- {}, Remarks <- {}, SetStatuses <- {}, PaperStages <- {},
  MaxVisits <- 0,
  AuditEvents <- {}, SubjectOf <- <<>>, ProcessOf <- <<>>, MaxAuditFaults <- 0,
  Hooks <- {}, Admins <- {}, Urls <- {}, Kinds <- {}, Types <- {}, HooksCreated <- {},
  MaxCalls <- 0, MaxEvents <- 0, MaxAttempts <- 0, MaxHookFaults <- 0,
  Mutations <- {"m1", "m2", "m3"}, EventOf <- [m \in {"m1", "m2", "m3"} |-> "application.status_changed"],
  EntityOf <- [m \in {"m1", "m2", "m3"} |-> "e1"], ContentOf <- [m1 |-> "c1", m2 |-> "c2", m3 |-> "c1"],
  Staff <- {"int"}, RoleOf <- [int |-> "interviewer"],
  Interviewer <- "int", Candidate <- "cand", Listeners <- {"h1"},
  MaxTries <- 2, MaxSeconds <- 1, MaxFailures <- 0, MaxLost <- 0, MaxEdits <- 0,
  PipelineAttempts <- 1, ProviderScores <- {}, ItemNumbers <- {},
  Procs <- {}, Questions <- {}, HomeOf <- <<>>, Defaults <- <<>>, Template <- "compare_candidates",
  Cands <- 0, TTL <- 0, MaxMinutes <- 0, MaxRevisions <- 0, MaxStarts <- 0, MaxAsks <- 0,
  Readers <- {}, ReportKeys <- {}, ReportTTL <- 0, ReportMax <- 0, MaxReportTime <- 0, MaxReportWrites <- 0,
  Machines <- {1, 2, 3}, CacheKeys <- {"lock"}, CacheLocks <- {"lock"}, CacheTTL <- 2, CopySize <- 1,
  MaxCacheTime <- 3, MaxCacheWrites <- 3, MaxOutages <- 0,
  PostCalls <- {}, MaxText <- 0, MaxMatches <- 0, MaxEditFaults <- 0, Replies <- {},
  Addresses <- {}, Limit <- 0, Window <- 0, MaxLimitTime <- 0,
  auditTable <- table, auditLog <- log, auditIndex <- index, auditPc <- pc, auditFailed <- failed, hookRows <- row,
  apiKey <- key

(* What is supposed of the constants, likewise.                              *)
LEMMA ThirdConstants == Third!FanoutConstants /\ Third!TieredConstants
<1>1. Third!FanoutConstants
  BY DEF Third!FanoutConstants
<1>2. Third!TieredConstants
  <2>1. Third!IsFiniteSet({"lock"})
    BY Third!FS_Singleton, Zenon
  <2>2. {1, 2, 3} \subseteq Nat \ {0} /\ 1 \in Nat /\ 2 \in Nat
    OBVIOUS
  <2>3. {"lock"} \subseteq {"lock"} /\ \A j, k \in {"lock"} : j = k
    OBVIOUS
  <2> QED
    BY <2>1, <2>2, <2>3, Zenon DEF Third!TieredConstants
<1> QED
  BY <1>1, <1>2

(* Moves is its Fanned.                                                      *)
LEMMA MovesHolds ==
  /\ Moves!Init => Third!FanoutInvariant
  /\ Third!FanoutInvariant /\ [Moves!Next]_fanoutVars => Third!FanoutInvariant'
  /\ Third!FanoutInvariant => Moves!FanoutIsComplete
BY ThirdConstants, Third!FanoutService, Zenon
DEF
  Moves!Init, Third!Fanned!Init, Moves!Recipients, Third!Fanned!Recipients, Moves!Begin, Third!Fanned!Begin,
  Moves!TellsCandidate, Third!Fanned!TellsCandidate, Moves!AppEvents, Third!Fanned!AppEvents, Moves!Interviews,
  Third!Fanned!Interviews, Moves!Goes, Third!Fanned!Goes, Moves!DbSame, Third!Fanned!DbSame, Moves!LoadStaff,
  Third!Fanned!LoadStaff, Moves!Audience, Third!Fanned!Audience, Moves!StaffRoles, Third!Fanned!StaffRoles,
  Moves!NextStaff, Third!Fanned!NextStaff, Moves!CreateNote, Third!Fanned!CreateNote, Moves!EnqueueEmail,
  Third!Fanned!EnqueueEmail, Moves!AfterRecipient, Third!Fanned!AfterRecipient, Moves!EmailEligible,
  Third!Fanned!EmailEligible, Moves!EmailKey, Third!Fanned!EmailKey, Moves!Add, Third!Fanned!Add, Moves!NewJob,
  Third!Fanned!NewJob, Moves!LoadHooks, Third!Fanned!LoadHooks, Moves!Subscribed, Third!Fanned!Subscribed,
  Moves!EventId, Third!Fanned!EventId, Moves!WebhookEligible, Third!Fanned!WebhookEligible, Moves!EnqueuePost,
  Third!Fanned!EnqueuePost, Moves!Produce, Third!Fanned!Produce, Moves!Lose, Third!Fanned!Lose, Moves!Cardinality,
  Third!Fanned!Cardinality, Moves!IsFiniteSet, Third!Fanned!IsFiniteSet, Moves!RunEmail, Third!Fanned!RunEmail,
  Moves!Runnable, Third!Fanned!Runnable, Moves!Ended, Third!Fanned!Ended, Moves!RunPost, Third!Fanned!RunPost,
  Moves!Handle, Third!Fanned!Handle, Moves!MailOutcomes, Third!Fanned!MailOutcomes, Moves!PostOutcomes,
  Third!Fanned!PostOutcomes, Moves!SetMember, Third!Fanned!SetMember, Moves!Edit, Third!Fanned!Edit,
  Moves!UpdatePreference, Third!Fanned!UpdatePreference, Moves!SetHook, Third!Fanned!SetHook, Moves!Mark,
  Third!Fanned!Mark, Moves!MarkAll, Third!Fanned!MarkAll, Moves!Manage, Third!Fanned!Manage, Moves!Tick,
  Third!Fanned!Tick, fanoutVars, Third!Fanned!vars, Moves!Next, Third!Fanned!Next, Moves!FanoutIsComplete,
  Third!Fanned!FanoutIsComplete

(* Lock is its Tiered.                                                       *)
LEMMA LockHolds ==
  /\ Lock!Init => Third!CacheInvariant
  /\ Third!CacheInvariant /\ [Lock!Next]_tierVars => Third!CacheInvariant'
  /\ Third!CacheInvariant => Lock!OneHolder
BY ThirdConstants, Third!CacheService, Zenon
DEF
  Lock!Before, Third!Tiered!Before, Lock!Prefixed, Third!Tiered!Prefixed, Lock!Listed, Third!Tiered!Listed,
  Lock!InvalidatePrefix, Third!Tiered!InvalidatePrefix, Lock!NextKey, Third!Tiered!NextKey,
  Lock!None, Third!Tiered!None, Lock!Idle, Third!Tiered!Idle, Lock!Init, Third!Tiered!Init, Lock!Live,
  Third!Tiered!Live, Lock!Get, Third!Tiered!Get, Lock!Held, Third!Tiered!Held, Lock!Without, Third!Tiered!Without,
  Lock!Pruned, Third!Tiered!Pruned, Lock!Unseen, Third!Tiered!Unseen, Lock!SetBackend, Third!Tiered!SetBackend,
  Lock!SetFallback, Third!Tiered!SetFallback, Lock!DeleteBackend, Third!Tiered!DeleteBackend, Lock!DeleteFallback,
  Third!Tiered!DeleteFallback, Lock!Write, Third!Tiered!Write, Lock!Delete, Third!Tiered!Delete, Lock!Busy,
  Third!Tiered!Busy, Lock!Look, Third!Tiered!Look, Lock!Acquire, Third!Tiered!Acquire, Lock!Release,
  Third!Tiered!Release, Lock!Fail, Third!Tiered!Fail, Lock!Recover, Third!Tiered!Recover, Lock!Tick,
  Third!Tiered!Tick, Lock!Next, Third!Tiered!Next, Lock!Cardinality, Third!Tiered!Cardinality, Lock!IsFiniteSet,
  Third!Tiered!IsFiniteSet, Lock!OneHolder, Third!Tiered!OneHolder, tierVars, Third!Tiered!vars

(* What is inductive in a behaviour of one of these parts.                   *)
ThirdInvariant ==
  /\ part = "moves" => Third!FanoutInvariant
  /\ part = "lock"  => Third!CacheInvariant

(* Each of them starts as its service does, and a step is one of its service.*)
LEMMA ThirdPartsHold == MCSpec => []ThirdInvariant
<1>1. MCInit => ThirdInvariant
  BY MovesHolds, LockHolds, Zenon
  DEF MCInit, ThirdInvariant
<1>2. ThirdInvariant /\ [MCNext]_allVars => ThirdInvariant'
  <2>1. [MCNext]_allVars =>
          /\ part' = "moves" => part = "moves" /\ [Moves!Next]_fanoutVars
          /\ part' = "lock" => part = "lock" /\ [Lock!Next]_tierVars
    BY Zenon DEF MCNext, allVars
  <2>2. ThirdInvariant /\ [MCNext]_allVars =>
          /\ part' = "moves" => Third!FanoutInvariant'
          /\ part' = "lock" => Third!CacheInvariant'
    BY <2>1, MovesHolds, LockHolds, Zenon DEF ThirdInvariant
  <2> QED
    BY <2>2 DEF ThirdInvariant
<1> QED
  BY <1>1, <1>2, PTL DEF MCSpec

(* Whoever should hear of a change does, by every channel, and so does a     *)
(* webhook that is subscribed.                                               *)
THEOREM FanoutStaysComplete == MCSpec => []FanoutIsComplete
<1>1. FirstInvariant /\ SecondInvariant /\ ThirdInvariant => FanoutIsComplete
  BY AcceptsHolds, MixedHolds, MovesHolds, PostedHolds DEF FirstInvariant, SecondInvariant, ThirdInvariant, FanoutIsComplete
<1> QED
  BY <1>1, FirstPartsHold, SecondPartsHold, ThirdPartsHold, PTL

(* A cached report is out of date only by a load under way, a value in Redis *)
(* and the processes only by a change its reader could not see; a lock built *)
(* on it has one holder. A job's intelligence is of an older description     *)
(* only if calls overlapped or died.                                         *)
THEOREM StaleOnlyByOverlaps == MCSpec => []StaleOnlyByOverlap
<1>1. FirstInvariant /\ SecondInvariant /\ ThirdInvariant => StaleOnlyByOverlap
  BY CachedHolds, CopiesHold, FullHolds, LockHolds, PostsHold DEF FirstInvariant, SecondInvariant, ThirdInvariant, StaleOnlyByOverlap
<1> QED
  BY <1>1, FirstPartsHold, SecondPartsHold, ThirdPartsHold, PTL
=============================================================================
