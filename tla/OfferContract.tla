--------------------------- MODULE OfferContract ---------------------------
(***************************************************************************)
(* What the offer code promises of the revisions of one application's      *)
(* offer: an offer moves only along the transitions of                     *)
(* core/offer_status.py, its content changes only before it is approved    *)
(* (update_offer), and an offer that is waiting for approval or for the    *)
(* candidate is not replaced by a new revision                             *)
(* (BLOCKING_ACTIVE_OFFER_STATUSES).                                       *)
(***************************************************************************)
EXTENDS OfferStatus

CONSTANT Revisions

VARIABLES
  status,   \* status[r]: of revision r, "absent" before it is created
  active,   \* active[r]: r is the current revision
  content   \* content[r]: title, compensation and terms

Blocking == {"pending_approval", "approved"}
Failed   == {"rejected", "declined", "withdrawn", "expired"}

Init ==
  /\ status  = [r \in Revisions |-> "absent"]
  /\ active  = [r \in Revisions |-> FALSE]
  /\ content = [r \in Revisions |-> FALSE]

(* What may happen to revision r in one step. *)
Created(r)  == status[r] = "absent" /\ status'[r] = "draft"
Moved(r)    == <<status[r], status'[r]>> \in AllowedOfferStatusTransitions
StatusOK(r) == status'[r] = status[r] \/ Created(r) \/ Moved(r)

EditOK(r) == content'[r] # content[r] => status[r] \in {"draft", "pending_approval"}

ActiveOK(r) ==
  /\ ~active[r] /\ active'[r] => Created(r)
  /\ active[r] /\ ~active'[r] => status'[r] \in Failed \/ status[r] \notin Blocking

Next == \A r \in Revisions : StatusOK(r) /\ EditOK(r) /\ ActiveOK(r)

Spec == Init /\ [][Next]_<<status, active, content>>
=============================================================================
