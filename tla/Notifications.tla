---------------------------- MODULE Notifications ----------------------------
(***************************************************************************)
(* The fan-out of a committed change (an application's status, an          *)
(* interview, an offer) into in-app notifications, e-mail jobs and webhook *)
(* jobs, and the two job handlers that send them.                          *)
(*                                                                         *)
(* Every row is a commit of its own, in the request that made the change.  *)
(* A database error breaks the request's session: whatever the producer    *)
(* still had to write is lost, and so is everything if the process dies.   *)
(***************************************************************************)
EXTENDS Integers, FiniteSets

CONSTANTS
  Mutations,    \* committed changes that call the producer
  EventOf,      \* EventOf[m]: the NotificationEventType
  EntityOf,     \* EntityOf[m]: the application, interview or offer
  ContentOf,    \* ContentOf[m]: status and previous status it carries
  Staff,        \* company members
  RoleOf,       \* RoleOf[s]: the member's role
  Interviewer,  \* the member assigned to the interview
  Candidate,    \* the candidate of the application
  Hooks,        \* webhook configurations of the company
  MaxAttempts,  \* max_attempts of a job
  MaxClock,     \* bound: seconds that pass
  MaxFaults,    \* bound: failing deliveries and crashes of the worker
  MaxLost,      \* bound: requests that lose their session or die
  MaxEdits      \* bound: changes of members, preferences and webhooks

Recipients == Staff \cup {Candidate}
AppEvents   == {"application.status_changed"}
Interviews  == {"interview.scheduled", "interview.completed", "interview.cancelled",
                "interview.no_show"}
Offers      == {"offer.created", "offer.submitted", "offer.approved", "offer.rejected",
                "offer.accepted", "offer.declined", "offer.withdrawn"}

VARIABLES
  active,   \* company_members.is_active
  emailOn,  \* recipients whose preferences allow e-mail for these categories
  hook,     \* webhook -> "on", "off" or "deleted"
  prod,     \* producer of each mutation: [pc, todo, to]
  notes,    \* notifications rows, as <<mutation, recipient>>
  read,     \* those marked read
  emails,   \* e-mail jobs: key -> [note, status, tries]
  posts,    \* webhook jobs: key -> [of, status, tries]
  mailed,   \* history: accepted e-mails per note
  clock, faults, edits

vars == <<active, emailOn, hook, prod, notes, read, emails, posts, mailed,
          clock, faults, edits>>

NewJob(of) == [of |-> of, status |-> "pending", tries |-> 0]
Add(f, k, v) == [x \in DOMAIN f \cup {k} |-> IF x \in DOMAIN f THEN f[x] ELSE v]

Init ==
  /\ active = [s \in Staff |-> TRUE]
  /\ emailOn = Recipients
  /\ hook = [h \in Hooks |-> "on"]
  /\ prod = [m \in Mutations |-> [pc |-> "new", todo |-> {}, to |-> Candidate]]
  /\ notes = {} /\ read = {}
  /\ emails = <<>> /\ posts = <<>>
  /\ mailed = [n \in Mutations \X Recipients |-> 0]
  /\ clock = 0 /\ faults = 0 /\ edits = 0

-----------------------------------------------------------------------------
(* Who hears of what.                                                        *)

TellsCandidate(e) == e \in AppEvents \cup Interviews \cup {"offer.approved", "offer.withdrawn"}

StaffRoles(e) ==
  IF e = "offer.submitted" THEN {"company_admin", "hiring_manager"}
  ELSE {"company_admin", "recruiter", "hiring_manager"}

(* Mutant: an interview is announced like any other event. *)
Audience_ByRole(e) == {s \in Staff : active[s] /\ RoleOf[s] \in StaffRoles(e)}
(* list_active_by_company_and_roles; an interview concerns its interviewer. *)
Audience(e) ==
  {s \in Staff : active[s] /\ IF e \in Interviews THEN s = Interviewer ELSE RoleOf[s] \in StaffRoles(e)}

(* EMAIL_ELIGIBLE_EVENT_RECIPIENTS *)
EmailEligible(e, r) ==
  IF r = Candidate THEN e \in {"interview.scheduled", "offer.approved"}
  ELSE e \in {"offer.accepted", "offer.declined"}

(* WEBHOOK_ELIGIBLE_EVENTS, among the events whose producer dispatches. *)
WebhookEligible(e) ==
  e \in AppEvents \cup {"interview.scheduled", "offer.created", "offer.accepted", "offer.declined"}

-----------------------------------------------------------------------------
(* NotificationEventProducer                                                 *)

Goes(m, pc, todo, to) == prod' = [prod EXCEPT ![m] = [pc |-> pc, todo |-> todo, to |-> to]]
DbSame == UNCHANGED <<active, emailOn, hook, read, mailed, clock, faults, edits>>

(* The candidate comes first, where the event is for the candidate. *)
Begin(m) ==
  /\ prod[m].pc = "new"
  /\ Goes(m, IF TellsCandidate(EventOf[m]) THEN "note" ELSE "staff", {}, Candidate)
  /\ DbSame /\ UNCHANGED <<notes, emails, posts>>

(* The members are read when their turn comes. *)
LoadStaff(m) ==
  /\ prod[m].pc = "staff"
  /\ Goes(m, "next", Audience(EventOf[m]), Candidate)
  /\ DbSame /\ UNCHANGED <<notes, emails, posts>>

NextStaff(m) ==
  /\ prod[m].pc = "next"
  /\ IF prod[m].todo = {} THEN Goes(m, "hooks", {}, Candidate)
     ELSE \E s \in prod[m].todo : Goes(m, "note", prod[m].todo \ {s}, s)
  /\ DbSame /\ UNCHANGED <<notes, emails, posts>>

AfterRecipient(m) == IF prod[m].to = Candidate THEN "staff" ELSE "next"

(* _safe_create: the row is committed, then its e-mail is queued. *)
CreateNote(m) ==
  /\ prod[m].pc = "note"
  /\ notes' = notes \cup {<<m, prod[m].to>>}
  /\ Goes(m, "email", prod[m].todo, prod[m].to)
  /\ DbSame /\ UNCHANGED <<emails, posts>>

(* Mutant: the key is the notification's own. *)
EmailKey_PerNote(m, r) == <<EventOf[m], EntityOf[m], r, m>>
(* _correlation_id *)
EmailKey(m, r) == <<EventOf[m], EntityOf[m], r>>

(* enqueue_for_notification: eligibility, preference, then the durable job. *)
EnqueueEmail(m) ==
  /\ prod[m].pc = "email"
  /\ LET r == prod[m].to IN
     /\ emails' = IF EmailEligible(EventOf[m], r) /\ r \in emailOn
                    THEN Add(emails, EmailKey(m, r), NewJob(<<m, r>>)) ELSE emails
     /\ Goes(m, AfterRecipient(m), prod[m].todo, r)
  /\ DbSame /\ UNCHANGED <<notes, posts>>

(* list_active_for_event *)
Subscribed(e) == {h \in Hooks : hook[h] = "on" /\ WebhookEligible(e)}

(* _build_event_id: the event, its entity and content, and the second. *)
EventId(m) == <<EventOf[m], EntityOf[m], ContentOf[m], clock>>

(* WebhookEventDispatcher.dispatch: id and subscribers are read once ... *)
LoadHooks(m) ==
  /\ prod[m].pc = "hooks"
  /\ prod' = [prod EXCEPT ![m] =
       [pc |-> "post", todo |-> {<<h, EventId(m)>> : h \in Subscribed(EventOf[m])}, to |-> Candidate]]
  /\ DbSame /\ UNCHANGED <<notes, emails, posts>>

(* ... and one job per subscriber is submitted under its key. *)
EnqueuePost(m) ==
  /\ prod[m].pc = "post"
  /\ IF prod[m].todo = {}
       THEN Goes(m, "done", {}, Candidate) /\ UNCHANGED posts
       ELSE \E k \in prod[m].todo :
              /\ posts' = Add(posts, k, NewJob(m))
              /\ Goes(m, "post", prod[m].todo \ {k}, Candidate)
  /\ DbSame /\ UNCHANGED <<notes, emails>>

(* The session breaks or the process dies: nothing more is written. *)
Lose(m) ==
  /\ prod[m].pc \notin {"new", "done", "lost"}
  /\ Cardinality({x \in Mutations : prod[x].pc = "lost"}) < MaxLost
  /\ Goes(m, "lost", {}, Candidate)
  /\ UNCHANGED <<active, emailOn, hook, notes, read, emails, posts, mailed, clock, faults, edits>>

-----------------------------------------------------------------------------
(* The handlers, run by the durable queue.                                   *)

Runnable(j) == j.status \in {"pending", "retryable"}
Ended(j, outcome) ==
  CASE outcome \in {"ok", "skipped"} -> [j EXCEPT !.status = "succeeded"]
    [] outcome = "retryable" ->
         [j EXCEPT !.tries = @ + 1,
                   !.status = IF j.tries + 1 >= MaxAttempts THEN "failed" ELSE "retryable"]
    [] outcome = "lost" -> j
    [] OTHER -> [j EXCEPT !.status = "failed"]

(* An e-mail is accepted, skipped for want of a provider, refused for good   *)
(* because its notification or address is gone, fails, or is accepted by a   *)
(* worker that dies before its commit.                                       *)
MailOutcomes == {"ok", "skipped", "retryable", "permanent", "lost"}

(* EmailDeliveryJobHandler: preferences are not asked again. *)
RunEmail(k, outcome) ==
  /\ k \in DOMAIN emails /\ Runnable(emails[k])
  /\ outcome \in {"ok", "skipped"} \/ faults < MaxFaults
  /\ faults' = IF outcome \in {"ok", "skipped"} THEN faults ELSE faults + 1
  /\ emails' = [emails EXCEPT ![k] = Ended(@, outcome)]
  /\ mailed' = IF outcome \in {"ok", "lost"} THEN [mailed EXCEPT ![emails[k].of] = @ + 1] ELSE mailed
  /\ UNCHANGED <<active, emailOn, hook, prod, notes, read, posts, clock, edits>>

(* WebhookDeliveryJobHandler: a webhook disabled since is skipped, a deleted *)
(* one is a permanent failure; a 4xx answer of an active one is permanent,   *)
(* a timeout or 5xx is retryable.                                            *)
PostOutcomes == {"ok", "retryable", "permanent", "lost"}

RunPost(k, outcome) ==
  /\ k \in DOMAIN posts /\ Runnable(posts[k])
  /\ outcome = "ok" \/ (hook[k[1]] = "on" /\ faults < MaxFaults)
  /\ faults' = IF outcome = "ok" THEN faults ELSE faults + 1
  /\ posts' = [posts EXCEPT ![k] = Ended(@, IF hook[k[1]] = "deleted" THEN "permanent" ELSE outcome)]
  /\ UNCHANGED <<active, emailOn, hook, prod, notes, read, emails, mailed, clock, edits>>

-----------------------------------------------------------------------------
(* Meanwhile: members, preferences and webhooks change, mail is read.        *)

Edit ==
  /\ edits < MaxEdits
  /\ edits' = edits + 1
  /\ UNCHANGED <<prod, notes, emails, posts, mailed, clock, faults>>

SetMember(s) == Edit /\ active' = [active EXCEPT ![s] = ~@] /\ UNCHANGED <<emailOn, hook, read>>

(* A member needs an active membership to change preferences. *)
UpdatePreference(r) ==
  /\ Edit
  /\ r \in Staff => active[r]
  /\ emailOn' = IF r \in emailOn THEN emailOn \ {r} ELSE emailOn \cup {r}
  /\ UNCHANGED <<active, hook, read>>

SetHook(h, state) ==
  /\ Edit
  /\ hook[h] # "deleted" /\ state # hook[h]
  /\ hook' = [hook EXCEPT ![h] = state]
  /\ UNCHANGED <<active, emailOn, read>>

(* mark_for_user and mark_for_candidate *)
Mark(n) ==
  /\ Edit
  /\ n \in notes
  /\ read' = IF n \in read THEN read \ {n} ELSE read \cup {n}
  /\ UNCHANGED <<active, emailOn, hook>>

(* mark_all_read_for_recipient *)
MarkAll(r) ==
  /\ Edit
  /\ read' = read \cup {n \in notes : n[2] = r}
  /\ UNCHANGED <<active, emailOn, hook>>

Tick ==
  /\ clock < MaxClock
  /\ clock' = clock + 1
  /\ UNCHANGED <<active, emailOn, hook, prod, notes, read, emails, posts, mailed, faults, edits>>

-----------------------------------------------------------------------------
Produce(m) ==
  \/ Begin(m) \/ LoadStaff(m) \/ NextStaff(m) \/ CreateNote(m) \/ EnqueueEmail(m)
  \/ LoadHooks(m) \/ EnqueuePost(m)

Handle ==
  \/ \E k \in DOMAIN emails, o \in MailOutcomes : RunEmail(k, o)
  \/ \E k \in DOMAIN posts, o \in PostOutcomes : RunPost(k, o)

Manage ==
  \/ \E s \in Staff : SetMember(s)
  \/ \E r \in Recipients : UpdatePreference(r) \/ MarkAll(r)
  \/ \E h \in Hooks, s \in {"on", "off", "deleted"} : SetHook(h, s)
  \/ \E n \in notes : Mark(n)

Next ==
  \/ \E m \in Mutations : Produce(m) \/ Lose(m)
  \/ Handle \/ Manage \/ Tick

-----------------------------------------------------------------------------
TypeOK ==
  /\ active \in [Staff -> BOOLEAN] /\ emailOn \subseteq Recipients
  /\ hook \in [Hooks -> {"on", "off", "deleted"}]
  /\ notes \subseteq Mutations \X Recipients /\ read \subseteq notes
  /\ \A k \in DOMAIN emails : emails[k].tries \in 0..MaxAttempts
  /\ \A k \in DOMAIN posts : posts[k].tries \in 0..MaxAttempts /\ k[1] \in Hooks

(* The in-app row is the source of truth: no mail is queued or sent for a    *)
(* change that has none, nor to anybody the event is not for.                *)
MailFollowsNote ==
  /\ \A k \in DOMAIN emails : emails[k].of \in notes
  /\ \A n \in notes : mailed[n] > 0 => EmailEligible(EventOf[n[1]], n[2])
  /\ \A n \in (Mutations \X Recipients) \ notes : mailed[n] = 0

(* A producer that was not lost told exactly those it should, with no change *)
(* of members, preferences or webhooks: the candidate for what concerns the  *)
(* candidate, the interviewer, and the staff whose role is told of it. Each  *)
(* of them the event is mailed to has a job of their own, and each webhook a *)
(* job with the content of the change.                                       *)
FanoutIsComplete ==
  edits = 0 => \A m \in Mutations : LET e == EventOf[m] IN
    /\ prod[m].pc \in {"hooks", "post", "done"} =>
         \A r \in Recipients :
           /\ <<m, r>> \in notes <=>
                IF r = Candidate THEN TellsCandidate(e)
                ELSE IF e \in Interviews THEN r = Interviewer
                ELSE RoleOf[r] \in StaffRoles(e)
           /\ (<<m, r>> \in notes /\ EmailEligible(e, r)) =>
                \E n \in {emails[k].of : k \in DOMAIN emails} :
                  n[2] = r /\ EventOf[n[1]] = e /\ EntityOf[n[1]] = EntityOf[m]
    /\ (prod[m].pc = "done" /\ WebhookEligible(e)) =>
         \A h \in Hooks : \E k \in DOMAIN posts : LET x == posts[k].of IN
           k[1] = h /\ EventOf[x] = e /\ EntityOf[x] = EntityOf[m] /\ ContentOf[x] = ContentOf[m]

(* One mail per event, entity and recipient, however often the change is     *)
(* reported, unless a worker died between sending and committing.            *)
OneMailPerEvent ==
  \A r \in Recipients, e \in {EventOf[m] : m \in Mutations}, x \in {EntityOf[m] : m \in Mutations} :
    LET ns == {n \in Mutations \X {r} : EventOf[n[1]] = e /\ EntityOf[n[1]] = x /\ mailed[n] > 0} IN
    Cardinality(ns) =< 1 /\ \A n \in ns : mailed[n] =< 1 + faults

(* In the end what was noted for somebody who takes e-mail is mailed or      *)
(* given up, if the request lived to queue it.                               *)
NotesAreMailed ==
  \A n \in notes : EmailEligible(EventOf[n[1]], n[2]) =>
    \/ prod[n[1]].pc = "lost"
    \/ \E k \in DOMAIN emails : k = EmailKey(n[1], n[2]) /\ emails[k].status \in {"succeeded", "failed"}
=============================================================================
