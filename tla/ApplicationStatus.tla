------------------------- MODULE ApplicationStatus -------------------------
(* core/application_status.py: the stages of an application and the moves  *)
(* between them that validate_status_transition lets through.              *)

ApplicationStatuses ==
  {"applied", "screening", "shortlisted", "interview", "interview_completed",
   "decision_ready", "offer_pending", "offered", "hired", "rejected"}

TerminalApplicationStatuses == {"hired", "rejected"}

(* From every open stage but the first an application may be hired or        *)
(* rejected; the middle stages only move forward, except back to interview.  *)
AllowedStatusTransitions ==
  LET later == [screening |-> {"shortlisted", "interview", "interview_completed",
                               "decision_ready", "offer_pending", "offered"},
                shortlisted |-> {"interview", "interview_completed", "decision_ready",
                                 "offer_pending", "offered"},
                interview |-> {"interview_completed", "decision_ready", "offer_pending",
                               "offered"},
                interview_completed |-> {"decision_ready", "offer_pending", "offered",
                                         "interview"},
                decision_ready |-> {"offer_pending", "offered", "interview"},
                offer_pending |-> {"offered", "decision_ready", "interview"},
                offered |-> {"interview", "offer_pending"}]
  IN  ({"applied"} \X {"screening", "rejected"})
        \cup (UNION {{s} \X (later[s] \cup TerminalApplicationStatuses) : s \in DOMAIN later})
        \cup {<<"hired", "rejected">>}
        \cup ({"rejected"} \X {"screening", "interview"})
=============================================================================
