--------------------------- MODULE OfferLifecycle ---------------------------
(***************************************************************************)
(* The offers of one application: OfferService, called by recruiters,      *)
(* hiring managers and the candidate at the same time.                     *)
(*                                                                         *)
(* A request loads rows, decides on what it loaded and writes the columns  *)
(* it changes; nothing locks the rows in between and no column counts      *)
(* versions, so another request may commit between the load and the write. *)
(* Two indexes of the table offers limit the damage: a revision number is  *)
(* used once per application, and one revision is active.                  *)
(* A request is idle, then loading, then writing; a request that is        *)
(* refused changes nothing and is not modelled as a step.                  *)
(***************************************************************************)
EXTENDS Integers, ApplicationStatus, OfferStatus

CONSTANTS
  Clients,        \* requests that can be in flight at the same time
  MaxRevision,    \* bound: offers created for the application
  ManualStatuses  \* application statuses that staff set by hand

ASSUME OfferConstants ==
  MaxRevision \in Nat /\ ManualStatuses \subseteq ApplicationStatuses

Revisions == 1..MaxRevision

VARIABLES
  app,       \* applications.status
  eligible,  \* the effective hiring recommendation is "Strong Hire" or "Hire"
  status,    \* offers.status of each revision, "absent" while there is no row
  active,    \* offers.is_active
  approved,  \* offers.approved_by_id is set
  content,   \* the editable columns
  req        \* the request each client is executing

vars == <<app, eligible, status, active, approved, content, req>>

-----------------------------------------------------------------------------
(* What an operation on an existing offer writes. *)

Goal == [submit |-> "pending_approval", approve |-> "approved", reject |-> "rejected",
         withdraw |-> "withdrawn", accept |-> "accepted", decline |-> "declined"]

StaffOps     == {"submit", "approve", "reject", "withdraw"}
CandidateOps == {"accept", "decline"}
Failing      == {"reject", "withdraw", "decline"}

(* _sync_application_status takes the application to this status. *)
SyncGoal(op) == IF op = "accept" THEN "hired" ELSE "offered"

(* Whether the application, found in status a, lets the operation through. *)
Passes(op, a) ==
  op \notin Failing =>
    /\ a \notin TerminalApplicationStatuses
    /\ a = SyncGoal(op) \/ <<a, SyncGoal(op)>> \in AllowedStatusTransitions

(* Mutants: the application gets the offer's status, or is not released. *)
AppWrite_OfferStatus(op, a) ==
  CASE op \in Failing /\ a = "offered"        -> Goal[op]
    [] op \notin Failing /\ a # SyncGoal(op)  -> SyncGoal(op)
    [] OTHER                                  -> "keep"

AppWrite_NoRelease(op, a) ==
  IF op \notin Failing /\ a # SyncGoal(op) THEN SyncGoal(op) ELSE "keep"

(* The status the operation writes to the application; "keep" if none.       *)
(* A failed offer releases the application only from the offer stage.        *)
AppWrite(op, a) ==
  CASE op \in Failing /\ a = "offered"        -> "interview"
    [] op \notin Failing /\ a # SyncGoal(op)  -> SyncGoal(op)
    [] OTHER                                  -> "keep"

NoRequest == [op |-> "none", at |-> "idle", rev |-> 0, old |-> 0, app |-> "keep"]

Init ==
  /\ app = "applied"
  /\ eligible = FALSE
  /\ status   = [r \in Revisions |-> "absent"]
  /\ active   = [r \in Revisions |-> FALSE]
  /\ approved = [r \in Revisions |-> FALSE]
  /\ content  = [r \in Revisions |-> FALSE]
  /\ req      = [c \in Clients |-> NoRequest]

Rows == <<app, eligible, status, active, approved, content>>

Starts(c, q) == req[c] = NoRequest /\ req' = [req EXCEPT ![c] = q] /\ UNCHANGED Rows

(* Mutant: the transition table is not consulted. *)
CanMove_AnyStatus(op, r) == active[r] /\ status[r] \notin TerminalOfferStatuses

(* _require_active_offer and validate_offer_status_transition *)
CanMove(op, r) ==
  /\ active[r]
  /\ status[r] \notin TerminalOfferStatuses
  /\ <<status[r], Goal[op]>> \in AllowedOfferStatusTransitions

-----------------------------------------------------------------------------
(* Staff: the offer and its application are loaded in one query. *)
StaffLoads(c, op, r) ==
  /\ CanMove(op, r) /\ Passes(op, app)
  /\ op = "submit" => eligible
  /\ Starts(c, [op |-> op, at |-> "writing", rev |-> r, old |-> 0, app |-> AppWrite(op, app)])

(* The candidate: the offer is loaded first, then the application. *)
CandidateLoads(c, op, r) ==
  /\ CanMove(op, r)
  /\ Starts(c, [op |-> op, at |-> "loading", rev |-> r, old |-> 0, app |-> "keep"])

CandidateLoadsApplication(c) ==
  /\ req[c].op \in CandidateOps /\ req[c].at = "loading"
  /\ req' = [req EXCEPT ![c] =
       IF Passes(req[c].op, app)
         THEN [@ EXCEPT !.at = "writing", !.app = AppWrite(req[c].op, app)]
         ELSE NoRequest]
  /\ UNCHANGED Rows

(* The transaction: the offer's new status, its place as the active revision *)
(* and the application's status are written from what was loaded.            *)
WriteTransition(c) ==
  /\ req[c].op \in StaffOps \cup CandidateOps /\ req[c].at = "writing"
  /\ status' = [status EXCEPT ![req[c].rev] = Goal[req[c].op]]
  /\ active' = [active EXCEPT ![req[c].rev] = @ /\ req[c].op \notin Failing]
  /\ approved' = [approved EXCEPT ![req[c].rev] = @ \/ req[c].op = "approve"]
  /\ app' = IF req[c].app = "keep" THEN app ELSE req[c].app
  /\ req' = [req EXCEPT ![c] = NoRequest]
  /\ UNCHANGED <<eligible, content>>

-----------------------------------------------------------------------------
(* create_offer_for_application: the application and the decision gate, then *)
(* the active revision, then the next number, then the insert.               *)
CreateLoads(c) ==
  /\ app \notin TerminalApplicationStatuses
  /\ eligible
  /\ Starts(c, [op |-> "create", at |-> "loading", rev |-> 0, old |-> 0, app |-> "keep"])

\* Mutant: an offer in flight does not block.
CreateFindsActive_Always(c) ==
  /\ req[c].op = "create" /\ req[c].at = "loading"
  /\ \/ /\ \A r \in Revisions : ~active[r]
        /\ req' = [req EXCEPT ![c] = [@ EXCEPT !.at = "counting"]]
     \/ \E r \in Revisions :
          active[r] /\ req' = [req EXCEPT ![c] = [@ EXCEPT !.at = "counting", !.old = r]]
  /\ UNCHANGED Rows

CreateFindsActive(c) ==
  /\ req[c].op = "create" /\ req[c].at = "loading"
  /\ \/ /\ \A r \in Revisions : ~active[r]
        /\ req' = [req EXCEPT ![c] = [@ EXCEPT !.at = "counting"]]
     \/ \E r \in Revisions :
          /\ active[r]
          /\ req' = [req EXCEPT ![c] =
               IF status[r] \in {"pending_approval", "approved"}
                 THEN NoRequest
                 ELSE [@ EXCEPT !.at = "counting", !.old = r]]
  /\ UNCHANGED Rows

(* Mutant: the number is free, but not the next one. *)
CreateCounts_Skips(c) ==
  /\ req[c].op = "create" /\ req[c].at = "counting"
  /\ \E n \in Revisions :
       status[n] = "absent" /\ req' = [req EXCEPT ![c] = [@ EXCEPT !.at = "writing", !.rev = n]]
  /\ UNCHANGED Rows

(* next_revision_for_application *)
CreateCounts(c) ==
  /\ req[c].op = "create" /\ req[c].at = "counting"
  /\ \E n \in Revisions :
       /\ status[n] = "absent"
       /\ \A r \in 1..(n - 1) : status[r] # "absent"
       /\ req' = [req EXCEPT ![c] = [@ EXCEPT !.at = "writing", !.rev = n]]
  /\ UNCHANGED Rows

(* Mutant: without the index on the active revision. *)
CreateWrites_NoActiveIndex(c) ==
  /\ req[c].op = "create" /\ req[c].at = "writing"
  /\ LET n == req[c].rev IN
     IF status[n] = "absent"
       THEN /\ status' = [status EXCEPT ![n] = "draft"]
            /\ active' = [r \in Revisions |-> r = n \/ (active[r] /\ r # req[c].old)]
       ELSE UNCHANGED <<status, active>>
  /\ req' = [req EXCEPT ![c] = NoRequest]
  /\ UNCHANGED <<app, eligible, approved, content>>

(* The old revision is superseded and the new one inserted; an index that is *)
(* violated takes both back.                                                 *)
CreateWrites(c) ==
  /\ req[c].op = "create" /\ req[c].at = "writing"
  /\ LET n == req[c].rev IN
     IF status[n] = "absent" /\ \A r \in Revisions : active[r] => r = req[c].old
       THEN /\ status' = [status EXCEPT ![n] = "draft"]
            /\ active' = [r \in Revisions |-> r = n \/ (active[r] /\ r # req[c].old)]
       ELSE UNCHANGED <<status, active>>
  /\ req' = [req EXCEPT ![c] = NoRequest]
  /\ UNCHANGED <<app, eligible, approved, content>>

-----------------------------------------------------------------------------
(* update_offer *)
EditLoads(c, r) ==
  /\ active[r] /\ status[r] \in {"draft", "pending_approval"}
  /\ Starts(c, [op |-> "edit", at |-> "writing", rev |-> r, old |-> 0, app |-> "keep"])

EditWrites(c) ==
  /\ req[c].op = "edit"
  /\ content' = [content EXCEPT ![req[c].rev] = ~@]
  /\ req' = [req EXCEPT ![c] = NoRequest]
  /\ UNCHANGED <<app, eligible, status, active, approved>>

(* update_application_status, the recruiter's own move of the application *)
PatchLoads(c, s) ==
  /\ <<app, s>> \in AllowedStatusTransitions
  /\ Starts(c, [op |-> "patch", at |-> "writing", rev |-> 0, old |-> 0, app |-> s])

PatchWrites(c) ==
  /\ req[c].op = "patch"
  /\ app' = req[c].app
  /\ req' = [req EXCEPT ![c] = NoRequest]
  /\ UNCHANGED <<eligible, status, active, approved, content>>

(* The effective recommendation changes: evaluation, or a recruiter's override. *)
Decide(good) ==
  /\ eligible' = good
  /\ UNCHANGED <<app, status, active, approved, content, req>>

-----------------------------------------------------------------------------
Serve(c) ==
  \/ \E r \in Revisions :
       \/ \E op \in StaffOps : StaffLoads(c, op, r)
       \/ \E op \in CandidateOps : CandidateLoads(c, op, r)
       \/ EditLoads(c, r)
  \/ \E s \in ManualStatuses : PatchLoads(c, s)
  \/ CandidateLoadsApplication(c) \/ WriteTransition(c)
  \/ CreateLoads(c) \/ CreateFindsActive(c) \/ CreateCounts(c) \/ CreateWrites(c)
  \/ EditWrites(c) \/ PatchWrites(c)

Next ==
  \/ \E c \in Clients : Serve(c)
  \/ \E good \in BOOLEAN : Decide(good)

Spec == Init /\ [][Next]_vars

-----------------------------------------------------------------------------
Ops == {"none", "create", "edit", "patch"} \cup StaffOps \cup CandidateOps

Requests == [op : Ops, at : {"idle", "loading", "counting", "writing"},
             rev : 0..MaxRevision, old : 0..MaxRevision,
             app : ApplicationStatuses \cup {"keep"}]

(* Every variable has its type. *)
TypeOK ==
  /\ app \in ApplicationStatuses
  /\ eligible \in BOOLEAN
  /\ status \in [Revisions -> OfferStatuses \cup {"absent"}]
  /\ active \in [Revisions -> BOOLEAN]
  /\ approved \in [Revisions -> BOOLEAN]
  /\ content \in [Revisions -> BOOLEAN]
  /\ req \in [Clients -> Requests]
  /\ \A c \in Clients : req[c].op = "patch" => req[c].app \in ApplicationStatuses

Exists(r) == status[r] # "absent"

(* The revisions are numbered without a gap and only the newest may be       *)
(* active, whatever creates, withdrawals and answers race                    *)
(* (create_offer_for_application and the indexes of models/offer.py).        *)
NewestIsCurrent ==
  \E n \in 0..MaxRevision : \A r \in Revisions :
    /\ Exists(r) <=> r =< n
    /\ active[r] => r = n

(* An offer that was rejected, withdrawn or declined gives its place up with *)
(* the same commit, so that it never blocks the index for the next revision  *)
(* (_transition_failed_offer), whichever stale request wrote last.           *)
FailedOffersAreInactive ==
  \A r \in Revisions : status[r] \in {"rejected", "withdrawn", "declined"} => ~active[r]

(* Nobody accepts, or declines, an offer no approver ever approved, whatever *)
(* raced with the approval.                                                  *)
AnsweredWasApproved ==
  \A r \in Revisions : status[r] \in {"approved", "accepted", "declined"} => approved[r]

(* The inductive invariant: what a request in flight still relies on.        *)
RequestsAreGrounded ==
  \A c \in Clients :
    /\ req[c].op \in StaffOps \cup CandidateOps \cup {"edit"} =>
         req[c].rev \in Revisions /\ Exists(req[c].rev)
    /\ req[c].op \in CandidateOps => approved[req[c].rev]
    /\ req[c].op = "create" /\ req[c].at = "writing" =>
         /\ req[c].rev \in Revisions
         /\ req[c].rev = 1 \/ Exists(req[c].rev - 1)

OfferInvariant ==
  NewestIsCurrent /\ FailedOffersAreInactive /\ AnsweredWasApproved /\ RequestsAreGrounded

(* One request at a time, and staff only moving applications by hand before  *)
(* the offer stage: the active offer and the application agree.              *)
OfferMatchesApplication ==
  /\ \A r \in Revisions : active[r] =>
       /\ status[r] \in {"pending_approval", "approved"} => app = "offered"
       /\ status[r] = "accepted" => app = "hired"
  /\ app = "offered" =>
       \E r \in Revisions : active[r] /\ status[r] \in {"pending_approval", "approved"}
  /\ app = "hired" => \E r \in Revisions : active[r] /\ status[r] = "accepted"

(* core/offer_status.py gives a terminal status no successor. *)
TerminalOfferIsFinal ==
  [][\A r \in Revisions : status[r] \in TerminalOfferStatuses => status'[r] = status[r]]_vars

(* An in-flight offer "must be withdrawn before a new revision can be        *)
(* created" (services/offer_service.py): it is not superseded.               *)
InFlightNotSuperseded ==
  [][\A r \in Revisions :
       active[r] /\ status[r] \in {"pending_approval", "approved"} /\ status'[r] = status[r]
         => active'[r]]_vars

(* "Only draft or pending_approval offers can be edited" (update_offer).     *)
EditsOnlyBeforeApproval ==
  [][\A r \in Revisions :
       content'[r] # content[r] => status[r] \in {"draft", "pending_approval"}]_vars
=============================================================================
