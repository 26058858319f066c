----------------------------- MODULE OfferViews -----------------------------
(***************************************************************************)
(* What is shown of the offers of several applications: the queries of     *)
(* repositories/offer.py, the answers offer_service makes of them for      *)
(* staff and for candidates, and the queue of pending offers in a          *)
(* recruiter's workspace (services/recruiter_workspace.py). Every offer    *)
(* here belongs to an application.                                         *)
(***************************************************************************)
EXTENDS Integers, Sequences, FiniteSets, SequencesExt, OfferStatus

CONSTANTS
  Apps, CompanyOf, JobOf, CandidateOf,   \* applications and whose they are
  MaxOffers,    \* bound
  Steps         \* the statuses offers are moved to

VARIABLES
  offers,    \* in the order of created_at: [app, revision, active, status]
  recent     \* their places in offers, by updated_at, latest first
vars == <<offers, recent>>

Companies  == {CompanyOf[a] : a \in Apps}
Candidates == {CandidateOf[a] : a \in Apps}

Init == offers = <<>> /\ recent = <<>>

-----------------------------------------------------------------------------
(* The queries. *)
Ids == DOMAIN offers
Newest(S)   == SetToSortSeq(S, LAMBDA o, p : o > p)                                   \* by created_at
Touched(S)  == SelectSeq(recent, LAMBDA o : o \in S)                                  \* by updated_at
Revised(S)  == SetToSortSeq(S, LAMBDA o, p : offers[o].revision > offers[p].revision)
First(s)    == IF s = <<>> THEN 0 ELSE s[1]

Kept(S, activeOnly) == {o \in S : activeOnly => offers[o].active}
OfCompany(company)  == {o \in Ids : CompanyOf[offers[o].app] = company}

ListByApplication(company, a, activeOnly) == Revised(Kept({o \in OfCompany(company) : offers[o].app = a}, activeOnly))
GetActive(company, a) == First(ListByApplication(company, a, TRUE))
GetLatest(company, a) == First(ListByApplication(company, a, FALSE))

NextRevision(a) == LET all == Revised({o \in Ids : offers[o].app = a})
                   IN  IF all = <<>> THEN 1 ELSE offers[all[1]].revision + 1

OfJob(company, job, activeOnly)     == Kept({o \in OfCompany(company) : JobOf[offers[o].app] = job}, activeOnly)
ListByJob(company, job, activeOnly) == Newest(OfJob(company, job, activeOnly))
CountByJob(company, job, activeOnly) == Cardinality(OfJob(company, job, activeOnly))
PageOfJob(company, job, activeOnly, offset, limit) ==
  LET s == Touched(OfJob(company, job, activeOnly))
  IN  SubSeq(s, offset + 1, IF offset + limit < Len(s) THEN offset + limit ELSE Len(s))

ActiveLifecycle(company, statuses) ==
  Touched({o \in Kept(OfCompany(company), TRUE) : statuses = {} \/ offers[o].status \in statuses})
ListByStatus(company, st) == Newest({o \in OfCompany(company) : offers[o].status = st})

OwnedBy(cand) == {o \in Ids : CandidateOf[offers[o].app] = cand}
ListOwned(cand, activeOnly) == Newest(Kept(OwnedBy(cand), activeOnly))
ListByCandidate(company, cand, activeOnly) == Newest(Kept(OfCompany(company) \cap OwnedBy(cand), activeOnly))

-----------------------------------------------------------------------------
(* The answers. *)

(* get_application_offer_history *)
History(company, a) ==
  LET revisions == ListByApplication(company, a, FALSE)
      current   == First(SelectSeq(revisions, LAMBDA o : offers[o].active))
  IN  [current |-> IF current = 0 THEN GetActive(company, a) ELSE current,
       revisions |-> revisions, total |-> Len(revisions)]

(* list_offers_for_job: all pages of it, of the given size.                  *)
PagesOfJob(company, job, activeOnly, size) ==
  LET total == CountByJob(company, job, activeOnly)
      pages == (total + size - 1) \div size
  IN  [n \in 1..pages |-> PageOfJob(company, job, activeOnly, (n - 1) * size, size)]

(* _pending_offers_for_company *)
PendingOffers(company) == ActiveLifecycle(company, ActiveOfferStatuses)

-----------------------------------------------------------------------------
ToFront(o) == <<o>> \o SelectSeq(recent, LAMBDA p : p # o)

(* create_offer_for_application: the active draft, if any, is superseded.    *)
Create(a) ==
  LET active == GetActive(CompanyOf[a], a)
      new    == Len(offers) + 1
      before == IF active = 0 THEN offers ELSE [offers EXCEPT ![active].active = FALSE]
  IN  /\ new =< MaxOffers
      /\ active # 0 => offers[active].status = "draft"
      /\ offers' = Append(before, [app |-> a, revision |-> NextRevision(a), active |-> TRUE, status |-> "draft"])
      /\ recent' = <<new>> \o (IF active = 0 THEN recent ELSE ToFront(active))

(* submit, approve, reject, withdraw, accept, decline; a failed offer gives  *)
(* its place up.                                                             *)
Step(o, st) ==
  /\ offers[o].active /\ <<offers[o].status, st>> \in AllowedOfferStatusTransitions
  /\ offers' = [offers EXCEPT ![o].status = st, ![o].active = st \in ActiveOfferStatuses \cup {"accepted"}]
  /\ recent' = ToFront(o)

Edit(o) ==   \* update_offer: its content
  /\ offers[o].active /\ offers[o].status \in {"draft", "pending_approval"} /\ recent' = ToFront(o)
  /\ UNCHANGED offers

Next ==
  \/ \E a \in Apps : Create(a)
  \/ \E o \in Ids, st \in Steps : Step(o, st)
  \/ \E o \in Ids : Edit(o)

-----------------------------------------------------------------------------
(* The views of one offer agree. Of an application the revisions are         *)
(* numbered without a gap, at most one is current, and that one is what      *)
(* every query for it returns; no company sees another's. The pages of a job *)
(* are its list, none twice; a pending offer is on one job's list and in the *)
(* queue, an accepted one on the list only; what the companies show of a     *)
(* candidate is together what the portal shows.                              *)
OfferViewsAgree ==
  /\ \A a \in Apps :
       LET h == History(CompanyOf[a], a)
       IN  /\ [i \in DOMAIN h.revisions |-> offers[h.revisions[i]].revision] = [i \in 1..h.total |-> h.total - i + 1]
           /\ h.current = GetActive(CompanyOf[a], a) /\ NextRevision(a) = h.total + 1
           /\ h.current # 0 => h.current = GetLatest(CompanyOf[a], a)
           /\ Cardinality({o \in Ids : offers[o].app = a /\ offers[o].active}) =< 1
           /\ \A c \in Companies \ {CompanyOf[a]} : History(c, a).total = 0
  /\ \A c \in Companies :
       LET jobs == {JobOf[a] : a \in {b \in Apps : CompanyOf[b] = c}}
       IN  /\ \A j \in jobs, size \in {1, 2}, act \in BOOLEAN :
                LET s == FlattenSeq(PagesOfJob(c, j, act, size))
                IN  IsInjective(s) /\ ToSet(s) = ToSet(ListByJob(c, j, act))
           /\ UNION {ToSet(ListByJob(c, j, TRUE)) : j \in jobs}
                = ToSet(PendingOffers(c)) \cup {o \in ToSet(ListByStatus(c, "accepted")) : offers[o].active}
           /\ ToSet(PendingOffers(c)) \subseteq UNION {ToSet(ListByStatus(c, st)) : st \in ActiveOfferStatuses}
  /\ \A p \in Candidates, act \in BOOLEAN :
       ToSet(ListOwned(p, act)) = UNION {ToSet(ListByCandidate(c, p, act)) : c \in Companies}
=============================================================================
