-------------------------- MODULE MCOfferLifecycle --------------------------
(***************************************************************************)
(* OfferLifecycle for TLC: a behaviour is of the module itself ("race": two *)
(* requests at a time) or of an instance ("single": one request at a time, *)
(* and a recruiter who may set every status by hand).                      *)
(***************************************************************************)
EXTENDS OfferLifecycle, TLC

CONSTANTS c1, c2

VARIABLES
  scenario,
  byHand     \* a recruiter set a status of the offer stage or beyond it

(* Requests are interchangeable. *)
Symmetric == Permutations(Clients)

BeforeOffer == {"screening"}

Single == INSTANCE OfferLifecycle WITH ManualStatuses <- ApplicationStatuses

MCInit == Init /\ scenario \in {"race", "single"} /\ byHand = FALSE

(* The race stops short of the last revision. *)
RaceNext == scenario = "race" /\ Next /\ status'[MaxRevision] = "absent" /\ UNCHANGED byHand

SingleNext ==
  /\ scenario = "single"
  /\ \/ \E c \in Clients :
          /\ \A d \in Clients \ {c} : req[d] = NoRequest
          /\ Single!Serve(c)
          /\ byHand' = (byHand \/ (PatchWrites(c) /\ app' \notin BeforeOffer))
     \/ \E good \in BOOLEAN : Decide(good) /\ UNCHANGED byHand

MCSpec ==
  /\ MCInit
  /\ [][(RaceNext \/ SingleNext) /\ UNCHANGED scenario]_<<vars, scenario, byHand>>

-----------------------------------------------------------------------------
(* One request at a time, and staff moving applications by hand only before  *)
(* the offer stage: the active offer and the application agree, whatever is  *)
(* created, sent, answered and withdrawn (_sync_application_status and its   *)
(* callers).                                                                 *)
OfferMatchesApplicationUnlessMovedByHand ==
  scenario = "single" => byHand \/ OfferMatchesApplication

(* The contract, of behaviours with one request at a time. *)
OneAtATime(f, none) == [r \in Revisions |-> IF scenario = "single" THEN f[r] ELSE none]

SingleContract == INSTANCE OfferContract WITH
  status  <- OneAtATime(status, "absent"),
  active  <- OneAtATime(active, FALSE),
  content <- OneAtATime(content, FALSE)

(* One request at a time keeps every promise of OfferContract. *)
ImplementsContract == SingleContract!Spec
=============================================================================
