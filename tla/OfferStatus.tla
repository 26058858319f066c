---------------------------- MODULE OfferStatus ----------------------------
(* core/offer_status.py: the statuses of an offer and the moves between     *)
(* them that validate_offer_status_transition lets through.                 *)

ActiveOfferStatuses   == {"draft", "pending_approval", "approved"}
TerminalOfferStatuses == {"rejected", "accepted", "declined", "expired", "withdrawn"}
OfferStatuses         == ActiveOfferStatuses \cup TerminalOfferStatuses

AllowedOfferStatusTransitions ==
  ({"draft"} \X {"pending_approval", "withdrawn"})
    \cup ({"pending_approval"} \X {"approved", "rejected", "withdrawn"})
    \cup ({"approved"} \X {"accepted", "declined", "expired", "withdrawn"})
=============================================================================
