----------------------- MODULE OfferLifecycle_proofs -----------------------
(***************************************************************************)
(* Theorems about OfferLifecycle for every number of requests in flight,   *)
(* every number of revisions and every set of statuses set by hand; and,   *)
(* at the end, about the behaviours of MCOfferLifecycle in which requests  *)
(* come one at a time.                                                     *)
(***************************************************************************)
EXTENDS MCOfferLifecycle, TLAPS

(* The steps of OfferLifecycle and of the instance in which a recruiter may  *)
(* set every status by hand; the lemmas are about both.                      *)
AnyNext == Next \/ \E c \in Clients, s \in ApplicationStatuses : PatchLoads(c, s)

(* Without that recruiter a step is one of these steps.                      *)
LEMMA NextIsAny == [Next]_vars => [AnyNext]_vars
BY DEF AnyNext

(* What an operation writes to the application is one of its statuses. *)
LEMMA AppWriteType ==
  ASSUME NEW op, NEW a
  PROVE  AppWrite(op, a) \in ApplicationStatuses \cup {"keep"}
BY DEF AppWrite, SyncGoal, ApplicationStatuses

(* A request that starts well typed keeps the types. *)
LEMMA StartType ==
  ASSUME TypeOK, NEW c \in Clients, NEW q \in Requests, Starts(c, q),
         q.op = "patch" => q.app \in ApplicationStatuses
  PROVE  TypeOK'
BY DEF TypeOK, Starts, Rows

(* A request that goes on to a later query stays well typed. *)
LEMMA ProgressType ==
  ASSUME NEW q \in Requests, NEW r \in Revisions
  PROVE  /\ [q EXCEPT !.at = "counting", !.old = r] \in Requests
         /\ [q EXCEPT !.at = "counting", !.old = r].op = q.op
         /\ [q EXCEPT !.at = "writing", !.rev = r] \in Requests
         /\ [q EXCEPT !.at = "writing", !.rev = r].op = q.op
<1>1. r \in 0..MaxRevision
  BY OfferConstants DEF Revisions
<1> DEFINE a == [q EXCEPT !.at = "counting"]
           b == [q EXCEPT !.at = "writing"]
<1>2. a \in Requests /\ a.op = q.op /\ b \in Requests /\ b.op = q.op
  BY DEF Requests
<1>3. /\ [q EXCEPT !.at = "counting", !.old = r] = [a EXCEPT !.old = r]
      /\ [q EXCEPT !.at = "writing", !.rev = r] = [b EXCEPT !.rev = r]
  OBVIOUS
<1> HIDE DEF a, b
<1>4. /\ [a EXCEPT !.old = r] \in Requests /\ [a EXCEPT !.old = r].op = a.op
      /\ [b EXCEPT !.rev = r] \in Requests /\ [b EXCEPT !.rev = r].op = b.op
  BY <1>1, <1>2 DEF Requests
<1> QED
  BY <1>2, <1>3, <1>4

(* Replacing a request by a well typed one, not a move by hand. *)
LEMMA ReplaceType ==
  ASSUME TypeOK, NEW c \in Clients, NEW q \in Requests, q.op # "patch",
         req' = [req EXCEPT ![c] = q], UNCHANGED Rows
  PROVE  TypeOK'
BY DEF TypeOK, Rows

(* The idle request is well typed. *)
LEMMA IdleType == NoRequest \in Requests /\ NoRequest.op # "patch"
BY OfferConstants DEF NoRequest, Ops, Requests

(* Every action keeps the types. *)
LEMMA TypePreserved == TypeOK /\ [AnyNext]_vars => TypeOK'
<1> SUFFICES ASSUME TypeOK, [AnyNext]_vars PROVE TypeOK'
  OBVIOUS
<1> USE OfferConstants DEF TypeOK, Rows, Revisions
<1>0. NoRequest \in Requests /\ NoRequest.op # "patch"
  BY IdleType
<1>1. ASSUME NEW c \in Clients, NEW r \in Revisions, NEW op \in StaffOps,
             StaffLoads(c, op, r)
      PROVE  TypeOK'
  <2> DEFINE q == [op |-> op, at |-> "writing", rev |-> r, old |-> 0, app |-> AppWrite(op, app)]
  <2>1. q \in Requests /\ (q.op = "patch" => q.app \in ApplicationStatuses)
    BY <1>1, AppWriteType DEF Requests, Ops, StaffOps, CandidateOps
  <2>2. Starts(c, q)
    BY <1>1 DEF StaffLoads
  <2> HIDE DEF q
  <2> QED
    BY <2>1, <2>2, StartType
<1>2. ASSUME NEW c \in Clients, NEW r \in Revisions, NEW op \in CandidateOps,
             CandidateLoads(c, op, r)
      PROVE  TypeOK'
  <2> DEFINE q == [op |-> op, at |-> "loading", rev |-> r, old |-> 0, app |-> "keep"]
  <2>1. q \in Requests /\ (q.op = "patch" => q.app \in ApplicationStatuses)
    BY <1>2, AppWriteType DEF Requests, Ops, StaffOps, CandidateOps
  <2>2. Starts(c, q)
    BY <1>2 DEF CandidateLoads
  <2> HIDE DEF q
  <2> QED
    BY <2>1, <2>2, StartType
<1>3. ASSUME NEW c \in Clients, NEW r \in Revisions,
             EditLoads(c, r)
      PROVE  TypeOK'
  <2> DEFINE q == [op |-> "edit", at |-> "writing", rev |-> r, old |-> 0, app |-> "keep"]
  <2>1. q \in Requests /\ (q.op = "patch" => q.app \in ApplicationStatuses)
    BY <1>3, AppWriteType DEF Requests, Ops, StaffOps, CandidateOps
  <2>2. Starts(c, q)
    BY <1>3 DEF EditLoads
  <2> HIDE DEF q
  <2> QED
    BY <2>1, <2>2, StartType
<1>4. ASSUME NEW c \in Clients, NEW s \in ApplicationStatuses,
             PatchLoads(c, s)
      PROVE  TypeOK'
  <2> DEFINE q == [op |-> "patch", at |-> "writing", rev |-> 0, old |-> 0, app |-> s]
  <2>1. q \in Requests /\ (q.op = "patch" => q.app \in ApplicationStatuses)
    BY <1>4, AppWriteType DEF Requests, Ops, StaffOps, CandidateOps
  <2>2. Starts(c, q)
    BY <1>4 DEF PatchLoads
  <2> HIDE DEF q
  <2> QED
    BY <2>1, <2>2, StartType
<1>5. ASSUME NEW c \in Clients,
             CandidateLoadsApplication(c)
      PROVE  TypeOK'
  <2> DEFINE q == [req[c] EXCEPT !.at = "writing", !.app = AppWrite(req[c].op, app)]
  <2>1. q \in Requests /\ q.op # "patch"
    BY <1>5, AppWriteType DEF CandidateLoadsApplication, Requests, CandidateOps
  <2>2. req' = [req EXCEPT ![c] = IF Passes(req[c].op, app) THEN q ELSE NoRequest]
    BY <1>5 DEF CandidateLoadsApplication
  <2> HIDE DEF q
  <2>3. UNCHANGED Rows
    BY <1>5 DEF CandidateLoadsApplication
  <2> QED
    BY <1>0, <2>1, <2>2, <2>3, ReplaceType
<1>6. ASSUME NEW c \in Clients,
             WriteTransition(c)
      PROVE  TypeOK'
  <2>1. Goal[req[c].op] \in OfferStatuses
    BY <1>6 DEF WriteTransition, Goal, StaffOps, CandidateOps, OfferStatuses, ActiveOfferStatuses,
      TerminalOfferStatuses
  <2>2. app' \in ApplicationStatuses
    BY <1>6 DEF WriteTransition, Requests
  <2> QED
    BY <1>6, <1>0, <2>1, <2>2 DEF WriteTransition
<1>7. ASSUME NEW c \in Clients,
             CreateLoads(c)
      PROVE  TypeOK'
  <2> DEFINE q == [op |-> "create", at |-> "loading", rev |-> 0, old |-> 0, app |-> "keep"]
  <2>1. q \in Requests /\ (q.op = "patch" => q.app \in ApplicationStatuses)
    BY <1>7, AppWriteType DEF Requests, Ops, StaffOps, CandidateOps
  <2>2. Starts(c, q)
    BY <1>7 DEF CreateLoads
  <2> HIDE DEF q
  <2> QED
    BY <2>1, <2>2, StartType
<1>8. ASSUME NEW c \in Clients,
             CreateFindsActive(c)
      PROVE  TypeOK'
  <2>1. req[c] \in Requests /\ req[c].op = "create" /\ UNCHANGED Rows
    BY <1>8 DEF CreateFindsActive
  <2>2. CASE req' = [req EXCEPT ![c] = [@ EXCEPT !.at = "counting"]]
    <3> DEFINE q == [req[c] EXCEPT !.at = "counting"]
    <3>1. q \in Requests /\ q.op # "patch"
      BY <2>1 DEF Requests
    <3>2. req' = [req EXCEPT ![c] = q]
      BY <2>2
    <3> HIDE DEF q
    <3> QED
      BY <2>1, <3>1, <3>2, ReplaceType
  <2>3. CASE req' = [req EXCEPT ![c] = NoRequest]
    BY <2>1, <2>3, <1>0, ReplaceType
  <2>4. ASSUME NEW r \in Revisions,
               req' = [req EXCEPT ![c] = [@ EXCEPT !.at = "counting", !.old = r]]
        PROVE  TypeOK'
    <3> DEFINE q == [req[c] EXCEPT !.at = "counting", !.old = r]
    <3>1. q \in Requests /\ q.op # "patch"
      BY <2>1, ProgressType
    <3>2. req' = [req EXCEPT ![c] = q]
      BY <2>4
    <3> HIDE DEF q
    <3> QED
      BY <2>1, <3>1, <3>2, ReplaceType
  <2> QED
    BY <1>8, <2>2, <2>3, <2>4 DEF CreateFindsActive
<1>9. ASSUME NEW c \in Clients,
             CreateCounts(c)
      PROVE  TypeOK'
  <2>1. req[c] \in Requests /\ req[c].op = "create" /\ UNCHANGED Rows
    BY <1>9 DEF CreateCounts
  <2>2. PICK r \in Revisions :
          req' = [req EXCEPT ![c] = [@ EXCEPT !.at = "writing", !.rev = r]]
    BY <1>9 DEF CreateCounts
  <2> DEFINE q == [req[c] EXCEPT !.at = "writing", !.rev = r]
  <2>3. q \in Requests /\ q.op # "patch"
    BY <2>1, ProgressType
  <2>4. req' = [req EXCEPT ![c] = q]
    BY <2>2
  <2> HIDE DEF q
  <2> QED
    BY <2>1, <2>3, <2>4, ReplaceType
<1>10. ASSUME NEW c \in Clients,
             CreateWrites(c)
      PROVE  TypeOK'
  <2>1. status' \in [Revisions -> OfferStatuses \cup {"absent"}]
    BY <1>10 DEF CreateWrites, OfferStatuses, ActiveOfferStatuses
  <2> QED
    BY <1>10, <1>0, <2>1 DEF CreateWrites
<1>11. ASSUME NEW c \in Clients,
             EditWrites(c)
      PROVE  TypeOK'
  BY <1>11, <1>0 DEF EditWrites
<1>12. ASSUME NEW c \in Clients,
             PatchWrites(c)
      PROVE  TypeOK'
  BY <1>12, <1>0 DEF PatchWrites
<1>13. ASSUME NEW good \in BOOLEAN,
             Decide(good)
      PROVE  TypeOK'
  BY <1>13, <1>0 DEF Decide
<1>14. CASE UNCHANGED vars
  BY <1>14 DEF vars
<1> QED
  BY <1>1, <1>2, <1>3, <1>4, <1>5, <1>6, <1>7, <1>8, <1>9,
     <1>10, <1>11, <1>12, <1>13, <1>14
  DEF AnyNext, Next, Serve

(* The empty rows are well typed. *)
LEMMA InitTyped == Init => TypeOK
BY IdleType DEF Init, TypeOK, ApplicationStatuses

(* Every reachable state is well typed. *)
THEOREM TypeCorrect == Spec => []TypeOK
<1> QED
  BY InitTyped, TypePreserved, NextIsAny, PTL DEF Spec

-----------------------------------------------------------------------------
(* Only a transition's transaction and the insert of a revision change what *)
(* the invariant says of the rows.                                          *)
LEMMA OnlyTwoWriters ==
  ASSUME [AnyNext]_vars
  PROVE  \/ UNCHANGED <<status, active, approved>>
         \/ \E c \in Clients : WriteTransition(c)
         \/ \E c \in Clients : CreateWrites(c)
BY DEF AnyNext, Next, Serve, vars, StaffLoads, CandidateLoads, CandidateLoadsApplication, CreateLoads,
  CreateFindsActive, CreateCounts, EditLoads, EditWrites, PatchLoads, PatchWrites, Decide,
  Starts, Rows

(* What a transition writes to the rows, and what the invariant gives it. *)
LEMMA TransitionWrites ==
  ASSUME TypeOK, OfferInvariant, NEW c \in Clients, WriteTransition(c)
  PROVE  /\ req[c].op \in StaffOps \cup CandidateOps
         /\ req[c].rev \in Revisions /\ Exists(req[c].rev)
         /\ req[c].op \in CandidateOps => approved[req[c].rev]
         /\ status' = [status EXCEPT ![req[c].rev] = Goal[req[c].op]]
         /\ active' = [active EXCEPT ![req[c].rev] = @ /\ req[c].op \notin Failing]
         /\ approved' = [approved EXCEPT ![req[c].rev] = @ \/ req[c].op = "approve"]
BY DEF WriteTransition, OfferInvariant, RequestsAreGrounded

(* What each operation makes of the offer. *)
LEMMA GoalCases ==
  ASSUME NEW op \in StaffOps \cup CandidateOps
  PROVE  /\ Goal[op] # "absent"
         /\ Goal[op] \in {"rejected", "withdrawn", "declined"} => op \in Failing
         /\ Goal[op] \in {"approved", "accepted", "declined"} =>
              op = "approve" \/ op \in CandidateOps
BY DEF Goal, StaffOps, CandidateOps, Failing

(* An insert either fails on an index or adds exactly the next revision. *)
LEMMA InsertIsNext ==
  ASSUME TypeOK, OfferInvariant, NEW c \in Clients, CreateWrites(c),
         NEW n \in 0..MaxRevision,
         \A r \in Revisions : (Exists(r) <=> r =< n) /\ (active[r] => r = n)
  PROVE  \/ UNCHANGED <<status, active, approved>>
         \/ /\ n + 1 \in Revisions
            /\ status' = [status EXCEPT ![n + 1] = "draft"]
            /\ \A r \in Revisions : active'[r] => r = n + 1
            /\ active'[n + 1] /\ approved' = approved
<1> DEFINE k == req[c].rev
<1>1. k \in Revisions /\ (k = 1 \/ Exists(k - 1)) /\ approved' = approved
  BY DEF CreateWrites, OfferInvariant, RequestsAreGrounded
<1>2. CASE status[k] = "absent" /\ \A r \in Revisions : active[r] => r = req[c].old
  <2>1. k > n
    BY <1>1, <1>2, OfferConstants DEF Exists, Revisions
  <2>2. k =< n + 1
    <3>1. CASE k = 1
      BY <3>1
    <3>2. CASE k # 1
      <4>1. k - 1 \in Revisions /\ Exists(k - 1)
        BY <1>1, <3>2, OfferConstants DEF Revisions
      <4> QED
        BY <4>1, <1>1, OfferConstants DEF Revisions
    <3> QED
      BY <3>1, <3>2
  <2>3. k = n + 1
    BY <2>1, <2>2, <1>1, OfferConstants DEF Revisions
  <2>4. /\ status' = [status EXCEPT ![k] = "draft"]
        /\ active' = [r \in Revisions |-> r = k \/ (active[r] /\ r # req[c].old)]
    BY <1>2 DEF CreateWrites
  <2>5. \A r \in Revisions : active'[r] <=> r = k
    BY <2>4, <1>2
  <2> QED
    BY <1>1, <2>3, <2>4, <2>5
<1>3. CASE ~(status[k] = "absent" /\ \A r \in Revisions : active[r] => r = req[c].old)
  BY <1>1, <1>3 DEF CreateWrites
<1> QED
  BY <1>2, <1>3

(* A revision, once inserted, is never deleted, and an approval stays. *)
LEMMA RowsOnlyGrow ==
  ASSUME TypeOK, OfferInvariant, [AnyNext]_vars, NEW r \in Revisions
  PROVE  (Exists(r) => Exists(r)') /\ (approved[r] => approved'[r])
<1>1. CASE UNCHANGED <<status, active, approved>>
  BY <1>1 DEF Exists
<1>2. ASSUME NEW c \in Clients, WriteTransition(c)
      PROVE  (Exists(r) => Exists(r)') /\ (approved[r] => approved'[r])
  BY <1>2, TransitionWrites, GoalCases DEF Exists, TypeOK
<1>3. ASSUME NEW c \in Clients, CreateWrites(c)
      PROVE  (Exists(r) => Exists(r)') /\ (approved[r] => approved'[r])
  <2>1. approved' = approved
        /\ (status' = status \/ status' = [status EXCEPT ![req[c].rev] = "draft"])
    BY <1>3 DEF CreateWrites
  <2> QED
    BY <2>1 DEF Exists, TypeOK
<1> QED
  BY <1>1, <1>2, <1>3, OnlyTwoWriters

(* The revisions stay numbered without a gap, only the newest active. *)
LEMMA NewestPreserved ==
  ASSUME TypeOK, OfferInvariant, [AnyNext]_vars
  PROVE  NewestIsCurrent'
<1>1. PICK n \in 0..MaxRevision :
        \A r \in Revisions : (Exists(r) <=> r =< n) /\ (active[r] => r = n)
  BY DEF OfferInvariant, NewestIsCurrent
<1>2. CASE UNCHANGED <<status, active, approved>>
  BY <1>1, <1>2 DEF NewestIsCurrent, Exists
<1>3. ASSUME NEW c \in Clients, WriteTransition(c)
      PROVE  NewestIsCurrent'
  <2>1. \A r \in Revisions : (Exists(r)' <=> Exists(r)) /\ (active'[r] => active[r])
    BY <1>3, TransitionWrites, GoalCases DEF Exists, TypeOK
  <2> QED
    BY <1>1, <2>1 DEF NewestIsCurrent
<1>4. ASSUME NEW c \in Clients, CreateWrites(c)
      PROVE  NewestIsCurrent'
  <2>1. CASE UNCHANGED <<status, active, approved>>
    BY <1>1, <2>1 DEF NewestIsCurrent, Exists
  <2>2. CASE /\ n + 1 \in Revisions
             /\ status' = [status EXCEPT ![n + 1] = "draft"]
             /\ \A r \in Revisions : active'[r] => r = n + 1
    <3>1. \A r \in Revisions : Exists(r)' <=> Exists(r) \/ r = n + 1
      BY <2>2 DEF Exists, TypeOK
    <3>2. n + 1 \in 0..MaxRevision /\ \A r \in Revisions : r =< n + 1 <=> r =< n \/ r = n + 1
      BY <2>2, OfferConstants DEF Revisions
    <3> QED
      BY <1>1, <2>2, <3>1, <3>2 DEF NewestIsCurrent
  <2> QED
    BY <1>1, <1>4, <2>1, <2>2, InsertIsNext
<1> QED
  BY <1>2, <1>3, <1>4, OnlyTwoWriters

(* A failed offer stays out of the way of the next revision. *)
LEMMA FailedPreserved ==
  ASSUME TypeOK, OfferInvariant, [AnyNext]_vars
  PROVE  FailedOffersAreInactive'
<1>1. FailedOffersAreInactive
  BY DEF OfferInvariant
<1>2. CASE UNCHANGED <<status, active, approved>>
  BY <1>1, <1>2 DEF FailedOffersAreInactive
<1>3. ASSUME NEW c \in Clients, WriteTransition(c)
      PROVE  FailedOffersAreInactive'
  BY <1>1, <1>3, TransitionWrites, GoalCases DEF FailedOffersAreInactive, TypeOK
<1>4. ASSUME NEW c \in Clients, CreateWrites(c)
      PROVE  FailedOffersAreInactive'
  BY <1>1, <1>4 DEF CreateWrites, FailedOffersAreInactive, TypeOK
<1> QED
  BY <1>2, <1>3, <1>4, OnlyTwoWriters

(* The candidate answers only what was approved. *)
LEMMA ApprovalPreserved ==
  ASSUME TypeOK, OfferInvariant, [AnyNext]_vars
  PROVE  AnsweredWasApproved'
<1>1. AnsweredWasApproved
  BY DEF OfferInvariant
<1>2. CASE UNCHANGED <<status, active, approved>>
  BY <1>1, <1>2 DEF AnsweredWasApproved
<1>3. ASSUME NEW c \in Clients, WriteTransition(c)
      PROVE  AnsweredWasApproved'
  BY <1>1, <1>3, TransitionWrites, GoalCases DEF AnsweredWasApproved, TypeOK
<1>4. ASSUME NEW c \in Clients, CreateWrites(c)
      PROVE  AnsweredWasApproved'
  BY <1>1, <1>4 DEF CreateWrites, AnsweredWasApproved, TypeOK
<1> QED
  BY <1>2, <1>3, <1>4, OnlyTwoWriters

-----------------------------------------------------------------------------
(* What the invariant asks of the request of one client. *)
Grounded(c) ==
  /\ req[c].op \in StaffOps \cup CandidateOps \cup {"edit"} =>
       req[c].rev \in Revisions /\ Exists(req[c].rev)
  /\ req[c].op \in CandidateOps => approved[req[c].rev]
  /\ req[c].op = "create" /\ req[c].at = "writing" =>
       req[c].rev \in Revisions /\ (req[c].rev = 1 \/ Exists(req[c].rev - 1))

(* A request that is untouched, or over, needs nothing more than before. *)
LEMMA UntouchedRequest ==
  ASSUME TypeOK, OfferInvariant, [AnyNext]_vars, NEW d \in Clients,
         req'[d] = req[d] \/ req'[d] = NoRequest
  PROVE  Grounded(d)'
<1>1. CASE req'[d] = NoRequest
  BY <1>1 DEF Grounded, NoRequest, StaffOps, CandidateOps
<1>2. CASE req'[d] = req[d]
  <2>1. Grounded(d)
    BY DEF Grounded, OfferInvariant, RequestsAreGrounded
  <2>2. req[d].rev \in Revisions /\ req[d].rev # 1 => req[d].rev - 1 \in Revisions
    BY OfferConstants DEF Revisions
  <2>3. req[d].op \in CandidateOps => req[d].rev \in Revisions
    BY <2>1 DEF Grounded
  <2> QED
    BY <1>2, <2>1, <2>2, <2>3, RowsOnlyGrow DEF Grounded, Exists
<1> QED
  BY <1>1, <1>2

(* A step in which one request changes grounds all, if it grounds that one. *)
LEMMA OneRequestChanges ==
  ASSUME TypeOK, OfferInvariant, [AnyNext]_vars, NEW c \in Clients, NEW q,
         req' = [req EXCEPT ![c] = q], Grounded(c)'
  PROVE  RequestsAreGrounded'
<1>1. \A d \in Clients : Grounded(d)'
  BY UntouchedRequest DEF TypeOK
<1> QED
  BY <1>1 DEF Grounded, RequestsAreGrounded

(* Every action leaves the requests in flight with what they rely on. *)
LEMMA GroundPreserved ==
  ASSUME TypeOK, OfferInvariant, [AnyNext]_vars
  PROVE  RequestsAreGrounded'
<1>a. RequestsAreGrounded /\ AnsweredWasApproved
  BY DEF OfferInvariant
<1>1. ASSUME NEW c \in Clients, NEW r \in Revisions, NEW op \in StaffOps,
             StaffLoads(c, op, r)
      PROVE  RequestsAreGrounded'
  <2> DEFINE q == [op |-> op, at |-> "writing", rev |-> r, old |-> 0, app |-> AppWrite(op, app)]
  <2>1. req' = [req EXCEPT ![c] = q] /\ UNCHANGED Rows
    BY <1>1 DEF StaffLoads, Starts
  <2>2. Exists(r)'
    BY <1>1, <2>1 DEF StaffLoads, CanMove, Exists, AllowedOfferStatusTransitions, Rows
  <2>3. q.op = op /\ q.rev = r /\ op \notin CandidateOps /\ op # "create"
    BY DEF StaffOps, CandidateOps
  <2> HIDE DEF q
  <2>4. Grounded(c)'
    BY <2>1, <2>2, <2>3 DEF Grounded, TypeOK
  <2> QED
    BY <2>1, <2>4, OneRequestChanges
<1>2. ASSUME NEW c \in Clients, NEW r \in Revisions, NEW op \in CandidateOps,
             CandidateLoads(c, op, r)
      PROVE  RequestsAreGrounded'
  <2> DEFINE q == [op |-> op, at |-> "loading", rev |-> r, old |-> 0, app |-> "keep"]
  <2>1. req' = [req EXCEPT ![c] = q] /\ UNCHANGED Rows
    BY <1>2 DEF CandidateLoads, Starts
  <2>2. status[r] = "approved"
    BY <1>2 DEF CandidateLoads, CanMove, Goal, CandidateOps, AllowedOfferStatusTransitions
  <2>3. Exists(r)' /\ approved'[r]
    BY <1>a, <2>1, <2>2 DEF Exists, AnsweredWasApproved, Rows
  <2>4. q.op = op /\ q.rev = r /\ op # "create"
    BY DEF CandidateOps
  <2> HIDE DEF q
  <2>5. Grounded(c)'
    BY <2>1, <2>3, <2>4 DEF Grounded, TypeOK
  <2> QED
    BY <2>1, <2>5, OneRequestChanges
<1>3. ASSUME NEW c \in Clients, NEW r \in Revisions, EditLoads(c, r)
      PROVE  RequestsAreGrounded'
  <2> DEFINE q == [op |-> "edit", at |-> "writing", rev |-> r, old |-> 0, app |-> "keep"]
  <2>1. req' = [req EXCEPT ![c] = q] /\ UNCHANGED Rows
    BY <1>3 DEF EditLoads, Starts
  <2>2. Exists(r)'
    BY <1>3, <2>1 DEF EditLoads, Exists, Rows
  <2>3. q.op = "edit" /\ q.rev = r
    OBVIOUS
  <2> HIDE DEF q
  <2>4. Grounded(c)'
    BY <2>1, <2>2, <2>3 DEF Grounded, TypeOK, CandidateOps
  <2> QED
    BY <2>1, <2>4, OneRequestChanges
<1>4. ASSUME NEW c \in Clients, NEW s \in ApplicationStatuses, PatchLoads(c, s)
      PROVE  RequestsAreGrounded'
  <2> DEFINE q == [op |-> "patch", at |-> "writing", rev |-> 0, old |-> 0, app |-> s]
  <2>1. req' = [req EXCEPT ![c] = q] /\ q.op = "patch"
    BY <1>4 DEF PatchLoads, Starts
  <2> HIDE DEF q
  <2>2. Grounded(c)'
    BY <2>1 DEF Grounded, TypeOK, StaffOps, CandidateOps
  <2> QED
    BY <2>1, <2>2, OneRequestChanges
<1>5. ASSUME NEW c \in Clients, CandidateLoadsApplication(c)
      PROVE  RequestsAreGrounded'
  <2> DEFINE q == [req[c] EXCEPT !.at = "writing", !.app = AppWrite(req[c].op, app)]
  <2>1. req[c].op \in CandidateOps /\ UNCHANGED Rows
        /\ req' = [req EXCEPT ![c] = IF Passes(req[c].op, app) THEN q ELSE NoRequest]
    BY <1>5 DEF CandidateLoadsApplication
  <2>2. q.op = req[c].op /\ q.rev = req[c].rev
    BY DEF TypeOK, Requests
  <2> HIDE DEF q
  <2>3. CASE Passes(req[c].op, app)
    <3>1. req[c].rev \in Revisions /\ Exists(req[c].rev) /\ approved[req[c].rev]
      BY <1>a, <2>1 DEF RequestsAreGrounded
    <3>2. Grounded(c)'
      BY <2>1, <2>2, <2>3, <3>1 DEF Grounded, TypeOK, Exists, Rows, CandidateOps
    <3> QED
      BY <2>1, <2>3, <3>2, OneRequestChanges
  <2>4. CASE ~Passes(req[c].op, app)
    <3>1. req' = [req EXCEPT ![c] = NoRequest]
      BY <2>1, <2>4
    <3>2. Grounded(c)'
      BY <3>1, UntouchedRequest DEF TypeOK
    <3> QED
      BY <3>1, <3>2, OneRequestChanges
  <2> QED
    BY <2>3, <2>4
<1>6. ASSUME NEW c \in Clients, CreateLoads(c)
      PROVE  RequestsAreGrounded'
  <2> DEFINE q == [op |-> "create", at |-> "loading", rev |-> 0, old |-> 0, app |-> "keep"]
  <2>1. req' = [req EXCEPT ![c] = q] /\ q.op = "create" /\ q.at = "loading"
    BY <1>6 DEF CreateLoads, Starts
  <2> HIDE DEF q
  <2>2. Grounded(c)'
    BY <2>1 DEF Grounded, TypeOK, StaffOps, CandidateOps
  <2> QED
    BY <2>1, <2>2, OneRequestChanges
<1>7. ASSUME NEW c \in Clients, CreateFindsActive(c)
      PROVE  RequestsAreGrounded'
  <2>1. ASSUME NEW q, req' = [req EXCEPT ![c] = q],
               q = NoRequest \/ (q.op = "create" /\ q.at = "counting")
        PROVE  RequestsAreGrounded'
    <3>1. Grounded(c)'
      BY <2>1 DEF Grounded, TypeOK, NoRequest, StaffOps, CandidateOps
    <3> QED
      BY <2>1, <3>1, OneRequestChanges
  <2>2. req[c].op = "create" /\ req[c] \in Requests
    BY <1>7 DEF CreateFindsActive, TypeOK
  <2>3. CASE req' = [req EXCEPT ![c] = [@ EXCEPT !.at = "counting"]]
    <3> DEFINE q == [req[c] EXCEPT !.at = "counting"]
    <3>1. q.op = "create" /\ q.at = "counting" /\ req' = [req EXCEPT ![c] = q]
      BY <2>2, <2>3 DEF Requests
    <3> HIDE DEF q
    <3> QED
      BY <2>1, <3>1
  <2>4. CASE req' = [req EXCEPT ![c] = NoRequest]
    BY <2>1, <2>4
  <2>5. ASSUME NEW r \in Revisions,
               req' = [req EXCEPT ![c] = [@ EXCEPT !.at = "counting", !.old = r]]
        PROVE  RequestsAreGrounded'
    <3> DEFINE q == [req[c] EXCEPT !.at = "counting", !.old = r]
    <3>1. q.op = "create" /\ q.at = "counting" /\ req' = [req EXCEPT ![c] = q]
      BY <2>2, <2>5 DEF Requests
    <3> HIDE DEF q
    <3> QED
      BY <2>1, <3>1
  <2> QED
    BY <1>7, <2>3, <2>4, <2>5 DEF CreateFindsActive
<1>8. ASSUME NEW c \in Clients, CreateCounts(c)
      PROVE  RequestsAreGrounded'
  <2>1. req[c] \in Requests /\ req[c].op = "create" /\ UNCHANGED Rows
    BY <1>8 DEF CreateCounts, TypeOK
  <2>2. PICK n \in Revisions :
          /\ \A r \in 1..(n - 1) : Exists(r)
          /\ req' = [req EXCEPT ![c] = [@ EXCEPT !.at = "writing", !.rev = n]]
    BY <1>8 DEF CreateCounts, Exists
  <2> DEFINE q == [req[c] EXCEPT !.at = "writing", !.rev = n]
  <2>3. q.op = "create" /\ q.rev = n /\ req' = [req EXCEPT ![c] = q]
    BY <2>1, <2>2 DEF Requests
  <2>4. n = 1 \/ Exists(n - 1)'
    BY <2>1, <2>2, OfferConstants DEF Revisions, Exists, Rows
  <2> HIDE DEF q
  <2>5. Grounded(c)'
    BY <2>3, <2>4 DEF Grounded, TypeOK, Exists, StaffOps, CandidateOps
  <2> QED
    BY <2>3, <2>5, OneRequestChanges
<1>9. ASSUME NEW c \in Clients,
             WriteTransition(c) \/ CreateWrites(c) \/ EditWrites(c) \/ PatchWrites(c)
      PROVE  RequestsAreGrounded'
  <2>1. req' = [req EXCEPT ![c] = NoRequest]
    BY <1>9 DEF WriteTransition, CreateWrites, EditWrites, PatchWrites
  <2>2. Grounded(c)'
    BY <2>1, UntouchedRequest DEF TypeOK
  <2> QED
    BY <2>1, <2>2, OneRequestChanges
<1>10. CASE req' = req
  <2>1. \A d \in Clients : Grounded(d)'
    BY <1>10, UntouchedRequest
  <2> QED
    BY <2>1 DEF Grounded, RequestsAreGrounded
<1> QED
  BY <1>1, <1>2, <1>3, <1>4, <1>5, <1>6, <1>7, <1>8, <1>9, <1>10,
     OfferConstants
  DEF AnyNext, Next, Serve, Decide, vars

-----------------------------------------------------------------------------
(* The invariant holds initially, where there is no offer and no request.    *)
LEMMA InitInvariant == Init => OfferInvariant
<1> SUFFICES ASSUME Init PROVE OfferInvariant
  OBVIOUS
<1>1. 0 \in 0..MaxRevision /\ \A r \in Revisions : ~(r =< 0)
  BY OfferConstants DEF Revisions
<1>2. NewestIsCurrent
  BY <1>1 DEF Init, NewestIsCurrent, Exists
<1>3. FailedOffersAreInactive /\ AnsweredWasApproved
  BY DEF Init, FailedOffersAreInactive, AnsweredWasApproved
<1>4. RequestsAreGrounded
  BY DEF Init, RequestsAreGrounded, NoRequest, StaffOps, CandidateOps
<1> QED
  BY <1>2, <1>3, <1>4 DEF OfferInvariant

(* The inductive invariant of the offers holds in every reachable state.    *)
THEOREM OfferInvariantHolds == Spec => []OfferInvariant
<1>1. TypeOK /\ OfferInvariant /\ [AnyNext]_vars => OfferInvariant'
  BY NewestPreserved, FailedPreserved, ApprovalPreserved, GroundPreserved DEF OfferInvariant
<1> QED
  BY <1>1, InitInvariant, TypeCorrect, NextIsAny, PTL DEF Spec

(* create_offer_for_application: however many requests create, withdraw and  *)
(* answer at the same time, revisions are numbered without a gap and none    *)
(* but the newest is active.                                                 *)
THEOREM NewestRevision == Spec => []NewestIsCurrent
<1>1. OfferInvariant => NewestIsCurrent
  BY DEF OfferInvariant
<1> QED
  BY <1>1, OfferInvariantHolds, PTL

(* _transition_failed_offer: an offer that was rejected, withdrawn or         *)
(* declined is never active, whichever stale request wrote last.             *)
THEOREM FailedOffersStayOut == Spec => []FailedOffersAreInactive
<1>1. OfferInvariant => FailedOffersAreInactive
  BY DEF OfferInvariant
<1> QED
  BY <1>1, OfferInvariantHolds, PTL

(* approve_offer and the candidate's answers: none is answered that was not   *)
(* approved, in any interleaving.                                            *)
THEOREM AnswersFollowApproval == Spec => []AnsweredWasApproved
<1>1. OfferInvariant => AnsweredWasApproved
  BY DEF OfferInvariant
<1> QED
  BY <1>1, OfferInvariantHolds, PTL

-----------------------------------------------------------------------------
(* Requests that come one at a time: what a request loaded is still true     *)
(* when it writes.                                                           *)
Current(c) ==
  /\ req[c].op \in StaffOps \cup CandidateOps =>
       /\ active[req[c].rev]
       /\ <<status[req[c].rev], Goal[req[c].op]>> \in AllowedOfferStatusTransitions
       /\ req[c].at = "writing" =>
            Passes(req[c].op, app) /\ req[c].app = AppWrite(req[c].op, app)
  /\ req[c].op = "edit" =>
       active[req[c].rev] /\ status[req[c].rev] \in {"draft", "pending_approval"}
  /\ req[c].op = "patch" => <<app, req[c].app>> \in AllowedStatusTransitions
  /\ req[c].op = "create" => app \notin TerminalApplicationStatuses
  /\ req[c].op = "create" /\ req[c].at # "loading" =>
       \A r \in Revisions :
         active[r] => r = req[c].old /\ status[r] \notin {"pending_approval", "approved"}

(* With one request in flight at a time, it has loaded what the rows hold,   *)
(* and the application is where its offer is unless somebody moved it.       *)
Alone ==
  /\ \A c, d \in Clients : req[c] # NoRequest /\ req[d] # NoRequest => c = d
  /\ \A c \in Clients : Current(c)
  /\ byHand \/ OfferMatchesApplication

(* The instance of one request at a time takes the steps of AnyNext: its     *)
(* definitions are those of OfferLifecycle but for the statuses set by hand. *)
LEMMA SingleServes ==
  ASSUME NEW c \in Clients, Single!Serve(c)
  PROVE  Serve(c) \/ \E s \in ApplicationStatuses : PatchLoads(c, s)
<1> USE DEF Single!Revisions, Revisions, Single!Rows, Rows, Single!Starts, Starts,
      Single!NoRequest, NoRequest, Single!Goal, Goal, Single!StaffOps, StaffOps,
      Single!CandidateOps, CandidateOps, Single!Failing, Failing
<1>0. /\ Single!AllowedStatusTransitions = AllowedStatusTransitions
      /\ Single!TerminalApplicationStatuses = TerminalApplicationStatuses
      /\ Single!AllowedOfferStatusTransitions = AllowedOfferStatusTransitions
      /\ Single!TerminalOfferStatuses = TerminalOfferStatuses
  BY Zenon DEF Single!AllowedStatusTransitions, AllowedStatusTransitions,
    Single!TerminalApplicationStatuses, TerminalApplicationStatuses,
    Single!AllowedOfferStatusTransitions, AllowedOfferStatusTransitions,
    Single!TerminalOfferStatuses, TerminalOfferStatuses
<1>1. /\ \A op, a : Single!Passes(op, a) <=> Passes(op, a)
      /\ \A op, a : Single!AppWrite(op, a) = AppWrite(op, a)
      /\ \A op, r : Single!CanMove(op, r) <=> CanMove(op, r)
  BY <1>0, Zenon DEF Single!Passes, Passes, Single!SyncGoal, SyncGoal, Single!AppWrite, AppWrite,
    Single!CanMove, CanMove
<1>2. ASSUME NEW r \in Revisions, NEW op \in StaffOps, Single!StaffLoads(c, op, r)
      PROVE  StaffLoads(c, op, r)
  BY <1>1, <1>2 DEF Single!StaffLoads, StaffLoads
<1>3. ASSUME NEW r \in Revisions, NEW op \in CandidateOps, Single!CandidateLoads(c, op, r)
      PROVE  CandidateLoads(c, op, r)
  BY <1>1, <1>3 DEF Single!CandidateLoads, CandidateLoads
<1>4. Single!CandidateLoadsApplication(c) => CandidateLoadsApplication(c)
  BY <1>1, Zenon DEF Single!CandidateLoadsApplication, CandidateLoadsApplication
<1>5. Single!WriteTransition(c) => WriteTransition(c)
  BY DEF Single!WriteTransition, WriteTransition
<1>6. Single!CreateLoads(c) => CreateLoads(c)
  BY <1>0 DEF Single!CreateLoads, CreateLoads
<1>7. Single!CreateFindsActive(c) => CreateFindsActive(c)
  BY DEF Single!CreateFindsActive, CreateFindsActive
<1>8. Single!CreateCounts(c) => CreateCounts(c)
  BY DEF Single!CreateCounts, CreateCounts
<1>9. Single!CreateWrites(c) => CreateWrites(c)
  BY DEF Single!CreateWrites, CreateWrites
<1>10. \A r \in Revisions : Single!EditLoads(c, r) => EditLoads(c, r)
  BY DEF Single!EditLoads, EditLoads
<1>11. \A s \in ApplicationStatuses : Single!PatchLoads(c, s) => PatchLoads(c, s)
  BY <1>0 DEF Single!PatchLoads, PatchLoads
<1>12. (Single!EditWrites(c) => EditWrites(c)) /\ (Single!PatchWrites(c) => PatchWrites(c))
  BY DEF Single!EditWrites, EditWrites, Single!PatchWrites, PatchWrites
<1> QED
  BY <1>2, <1>3, <1>4, <1>5, <1>6, <1>7, <1>8, <1>9, <1>10, <1>11, <1>12
  DEF Single!Serve, Serve

(* A request that starts knows the rows as they are.                         *)
LEMMA StartIsCurrent ==
  ASSUME TypeOK, NEW c \in Clients,
         (\E r \in Revisions :
            \/ \E op \in StaffOps : StaffLoads(c, op, r)
            \/ \E op \in CandidateOps : CandidateLoads(c, op, r)
            \/ EditLoads(c, r))
         \/ CreateLoads(c) \/ \E s \in ApplicationStatuses : PatchLoads(c, s)
  PROVE  Current(c)' /\ UNCHANGED Rows
<1> USE DEF TypeOK, Starts, Rows, Current
<1>1. ASSUME NEW r \in Revisions, NEW op \in StaffOps, StaffLoads(c, op, r)
      PROVE  Current(c)' /\ UNCHANGED Rows
  <2> DEFINE q == [op |-> op, at |-> "writing", rev |-> r, old |-> 0, app |-> AppWrite(op, app)]
  <2>1. req'[c] = q /\ UNCHANGED Rows
    BY <1>1 DEF StaffLoads
  <2>2. /\ q.op = op /\ q.rev = r /\ q.app = AppWrite(op, app)
        /\ op \notin {"edit", "patch", "create"}
    BY DEF StaffOps
  <2>3. CanMove(op, r) /\ Passes(op, app)
    BY <1>1 DEF StaffLoads
  <2>4. AppWrite(op, app') = AppWrite(op, app) /\ (Passes(op, app') <=> Passes(op, app))
    BY <2>1
  <2> HIDE DEF q
  <2> QED
    BY <2>1, <2>2, <2>3, <2>4 DEF CanMove
<1>2. ASSUME NEW r \in Revisions, NEW op \in CandidateOps, CandidateLoads(c, op, r)
      PROVE  Current(c)' /\ UNCHANGED Rows
  BY <1>2 DEF CandidateLoads, CanMove, CandidateOps
<1>3. ASSUME NEW r \in Revisions, EditLoads(c, r)
      PROVE  Current(c)' /\ UNCHANGED Rows
  BY <1>3 DEF EditLoads, StaffOps, CandidateOps
<1>4. ASSUME CreateLoads(c)
      PROVE  Current(c)' /\ UNCHANGED Rows
  BY <1>4 DEF CreateLoads, StaffOps, CandidateOps
<1>5. ASSUME NEW s \in ApplicationStatuses, PatchLoads(c, s)
      PROVE  Current(c)' /\ UNCHANGED Rows
  BY <1>5 DEF PatchLoads, StaffOps, CandidateOps
<1> QED
  BY <1>1, <1>2, <1>3, <1>4, <1>5

(* So does a request that goes on, if nobody else wrote meanwhile.           *)
LEMMA ProgressIsCurrent ==
  ASSUME TypeOK, NEW c \in Clients, Current(c),
         CandidateLoadsApplication(c) \/ CreateFindsActive(c) \/ CreateCounts(c),
         NEW n \in 0..MaxRevision, \A r \in Revisions : active[r] => r = n
  PROVE  Current(c)' /\ UNCHANGED Rows
<1> USE DEF TypeOK, Rows, Current
<1>0. NoRequest.op \notin StaffOps \cup CandidateOps \cup {"edit", "patch", "create"}
  BY DEF NoRequest, StaffOps, CandidateOps
<1>1. CASE CandidateLoadsApplication(c)
  <2> DEFINE q == [req[c] EXCEPT !.at = "writing", !.app = AppWrite(req[c].op, app)]
  <2>1. req[c].op \in CandidateOps /\ UNCHANGED Rows
        /\ req'[c] = IF Passes(req[c].op, app) THEN q ELSE NoRequest
    BY <1>1 DEF CandidateLoadsApplication
  <2>2. /\ q.op = req[c].op /\ q.rev = req[c].rev /\ q.app = AppWrite(req[c].op, app)
        /\ q.op \notin {"edit", "patch", "create"}
    BY <2>1 DEF Requests, CandidateOps
  <2> HIDE DEF q
  <2>3. AppWrite(q.op, app') = AppWrite(q.op, app) /\ (Passes(q.op, app') <=> Passes(q.op, app))
    BY <2>1
  <2>4. CASE Passes(req[c].op, app)
    BY <2>1, <2>2, <2>3, <2>4
  <2>5. CASE ~Passes(req[c].op, app)
    BY <2>1, <2>5, <1>0
  <2> QED
    BY <2>4, <2>5
<1>2. CASE CreateFindsActive(c)
  <2>1. req[c].op = "create" /\ req[c] \in Requests /\ UNCHANGED Rows
    BY <1>2 DEF CreateFindsActive
  <2>2. CASE /\ \A r \in Revisions : ~active[r]
             /\ req' = [req EXCEPT ![c] = [@ EXCEPT !.at = "counting"]]
    <3> DEFINE q == [req[c] EXCEPT !.at = "counting"]
    <3>1. req'[c] = q /\ q.op = "create"
      BY <2>1, <2>2 DEF Requests
    <3> HIDE DEF q
    <3> QED
      BY <2>1, <2>2, <3>1 DEF StaffOps, CandidateOps
  <2>3. CASE req' = [req EXCEPT ![c] = NoRequest]
    BY <2>1, <2>3, <1>0
  <2>4. ASSUME NEW r \in Revisions, active[r], status[r] \notin {"pending_approval", "approved"},
               req' = [req EXCEPT ![c] = [@ EXCEPT !.at = "counting", !.old = r]]
        PROVE  Current(c)'
    <3> DEFINE q == [req[c] EXCEPT !.at = "counting", !.old = r]
    <3>1. req'[c] = q /\ q.op = "create" /\ q.old = r
      BY <2>1, <2>4 DEF Requests
    <3> HIDE DEF q
    <3> QED
      BY <2>1, <2>4, <3>1 DEF StaffOps, CandidateOps
  <2> QED
    BY <1>2, <2>1, <2>2, <2>3, <2>4 DEF CreateFindsActive
<1>3. CASE CreateCounts(c)
  <2>1. req[c].op = "create" /\ req[c].at = "counting" /\ req[c] \in Requests /\ UNCHANGED Rows
    BY <1>3 DEF CreateCounts
  <2>2. PICK k \in Revisions : req' = [req EXCEPT ![c] = [@ EXCEPT !.at = "writing", !.rev = k]]
    BY <1>3 DEF CreateCounts
  <2> DEFINE q == [req[c] EXCEPT !.at = "writing", !.rev = k]
  <2>3. req'[c] = q /\ q.op = "create" /\ q.old = req[c].old
    BY <2>1, <2>2 DEF Requests
  <2> HIDE DEF q
  <2> QED
    BY <2>1, <2>3 DEF StaffOps, CandidateOps
<1> QED
  BY <1>1, <1>2, <1>3

(* Nobody moves an application back to screening from the offer stage.       *)
LEMMA ScreeningComesEarly ==
  ASSUME NEW a, <<a, "screening">> \in AllowedStatusTransitions
  PROVE  a \notin {"offered", "hired"}
<1> DEFINE later == [screening |-> {"shortlisted", "interview", "interview_completed",
                                    "decision_ready", "offer_pending", "offered"},
                     shortlisted |-> {"interview", "interview_completed", "decision_ready",
                                      "offer_pending", "offered"},
                     interview |-> {"interview_completed", "decision_ready", "offer_pending",
                                    "offered"},
                     interview_completed |-> {"decision_ready", "offer_pending", "offered",
                                              "interview"},
                     decision_ready |-> {"offer_pending", "offered", "interview"},
                     offer_pending |-> {"offered", "decision_ready", "interview"},
                     offered |-> {"interview", "offer_pending"}]
           rows == UNION {{s} \X (later[s] \cup TerminalApplicationStatuses) : s \in DOMAIN later}
<1>1. AllowedStatusTransitions =
        ({"applied"} \X {"screening", "rejected"}) \cup rows
          \cup {<<"hired", "rejected">>} \cup ({"rejected"} \X {"screening", "interview"})
  BY DEF AllowedStatusTransitions
<1>2. <<a, "screening">> \notin rows
  <2>1. ASSUME NEW s \in DOMAIN later
        PROVE  "screening" \notin later[s] \cup TerminalApplicationStatuses
    <3>1. s \in {"screening", "shortlisted", "interview", "interview_completed", "decision_ready",
                 "offer_pending", "offered"}
      OBVIOUS
    <3> QED
      BY <3>1 DEF TerminalApplicationStatuses
  <2> HIDE DEF later
  <2> QED
    BY <2>1
<1> HIDE DEF rows
<1> QED
  BY <1>1, <1>2

(* What a transition makes of the offer and of the application, when the     *)
(* request still knows them.                                                 *)
LEMMA TransitionMoves ==
  ASSUME TypeOK, OfferInvariant, NEW c \in Clients, Current(c), WriteTransition(c)
  PROVE  \E r \in Revisions, to \in {"pending_approval", "approved", "rejected", "withdrawn",
                                     "accepted", "declined"} :
           /\ active[r] /\ <<status[r], to>> \in AllowedOfferStatusTransitions
           /\ status' = [status EXCEPT ![r] = to]
           /\ active' = [active EXCEPT ![r] = to \notin {"rejected", "withdrawn", "declined"}]
           /\ to \in {"pending_approval", "approved"} => app' = "offered"
           /\ to = "accepted" => app' = "hired"
           /\ to \in {"rejected", "withdrawn", "declined"} =>
                app' = IF app = "offered" THEN "interview" ELSE app
<1> DEFINE r  == req[c].rev
           op == req[c].op
           to == Goal[op]
<1>1. op \in StaffOps \cup CandidateOps /\ r \in Revisions
  BY TransitionWrites
<1>2. /\ active[r] /\ <<status[r], to>> \in AllowedOfferStatusTransitions
      /\ Passes(op, app) /\ req[c].app = AppWrite(op, app)
  BY <1>1 DEF Current, WriteTransition
<1>3. /\ to \in {"pending_approval", "approved", "rejected", "withdrawn", "accepted", "declined"}
      /\ op \in Failing <=> to \in {"rejected", "withdrawn", "declined"}
      /\ op = "accept" <=> to = "accepted"
  BY <1>1 DEF Goal, StaffOps, CandidateOps, Failing
<1>4. status' = [status EXCEPT ![r] = to]
  BY TransitionWrites
<1>5. active' = [active EXCEPT ![r] = to \notin {"rejected", "withdrawn", "declined"}]
  BY <1>1, <1>2, <1>3, TransitionWrites DEF TypeOK
<1>6. app' = IF AppWrite(op, app) = "keep" THEN app ELSE AppWrite(op, app)
  BY <1>2 DEF WriteTransition
<1>7. op \in Failing => app' = IF app = "offered" THEN "interview" ELSE app
  BY <1>6 DEF AppWrite
<1>8. op \notin Failing => app' = SyncGoal(op)
  BY <1>6 DEF AppWrite, SyncGoal
<1> HIDE DEF r, op, to
<1> QED
  BY <1>1, <1>2, <1>3, <1>4, <1>5, <1>7, <1>8 DEF SyncGoal

(* The application follows the active offer, unless somebody moves it.       *)
LEMMA MatchPreserved ==
  ASSUME TypeOK, OfferInvariant, NEW c \in Clients, Current(c), byHand \/ OfferMatchesApplication,
         WriteTransition(c) \/ CreateWrites(c) \/ EditWrites(c) \/ PatchWrites(c),
         byHand' = (byHand \/ (PatchWrites(c) /\ app' \notin BeforeOffer))
  PROVE  byHand' \/ OfferMatchesApplication'
<1> SUFFICES ASSUME ~byHand' PROVE OfferMatchesApplication'
  OBVIOUS
<1>1. OfferMatchesApplication /\ (PatchWrites(c) => app' = "screening")
  BY DEF BeforeOffer
<1>2. PICK n \in 0..MaxRevision : \A r \in Revisions : active[r] => r = n
  BY DEF OfferInvariant, NewestIsCurrent
<1>3. CASE WriteTransition(c)
  <2>1. PICK r \in Revisions, to \in {"pending_approval", "approved", "rejected", "withdrawn",
                                      "accepted", "declined"} :
           /\ active[r] /\ <<status[r], to>> \in AllowedOfferStatusTransitions
           /\ status' = [status EXCEPT ![r] = to]
           /\ active' = [active EXCEPT ![r] = to \notin {"rejected", "withdrawn", "declined"}]
           /\ to \in {"pending_approval", "approved"} => app' = "offered"
           /\ to = "accepted" => app' = "hired"
           /\ to \in {"rejected", "withdrawn", "declined"} =>
                app' = IF app = "offered" THEN "interview" ELSE app
    BY <1>3, TransitionMoves
  <2>2. status'[r] = to /\ active'[r] = (to \notin {"rejected", "withdrawn", "declined"})
    BY <2>1 DEF TypeOK
  <2>3. \A k \in Revisions : k # r => ~active'[k]
    BY <1>2, <2>1 DEF TypeOK
  <2>4. status[r] # "accepted"
    BY <2>1 DEF AllowedOfferStatusTransitions
  <2>5. app # "hired"
    BY <1>1, <1>2, <2>1, <2>4 DEF OfferMatchesApplication
  <2> QED
    BY <2>1, <2>2, <2>3, <2>5 DEF OfferMatchesApplication
<1>4. CASE CreateWrites(c)
  <2> DEFINE k == req[c].rev
  <2>1. app' = app /\ k \in Revisions
    BY <1>4 DEF CreateWrites, OfferInvariant, RequestsAreGrounded
  <2>2. CASE UNCHANGED <<status, active>>
    BY <1>1, <2>1, <2>2 DEF OfferMatchesApplication
  <2>3. CASE /\ status[k] = "absent" /\ \A r \in Revisions : active[r] => r = req[c].old
             /\ status' = [status EXCEPT ![k] = "draft"]
             /\ active' = [r \in Revisions |-> r = k \/ (active[r] /\ r # req[c].old)]
    <3>1. \A r \in Revisions : active'[r] => r = k
      BY <2>3
    <3>2. status'[k] = "draft"
      BY <2>1, <2>3 DEF TypeOK
    <3>3. app \notin {"offered", "hired"}
      BY <1>1, <1>4 DEF OfferMatchesApplication, Current, CreateWrites, TerminalApplicationStatuses
    <3> QED
      BY <2>1, <3>1, <3>2, <3>3 DEF OfferMatchesApplication
  <2> QED
    BY <1>4, <2>2, <2>3 DEF CreateWrites
<1>5. CASE EditWrites(c)
  BY <1>1, <1>5 DEF EditWrites, OfferMatchesApplication
<1>6. CASE PatchWrites(c)
  <2>1. app' = "screening" /\ app \notin {"offered", "hired"} /\ UNCHANGED <<status, active>>
    BY <1>1, <1>6, ScreeningComesEarly DEF PatchWrites, Current
  <2> QED
    BY <1>1, <2>1 DEF OfferMatchesApplication
<1> QED
  BY <1>3, <1>4, <1>5, <1>6

(* A step of the one request keeps what it knows, and all of Alone.          *)
LEMMA AloneServes ==
  ASSUME TypeOK, OfferInvariant, Alone, NEW c \in Clients,
         \A d \in Clients \ {c} : req[d] = NoRequest,
         Serve(c) \/ \E s \in ApplicationStatuses : PatchLoads(c, s),
         byHand' = (byHand \/ (PatchWrites(c) /\ app' \notin BeforeOffer))
  PROVE  Alone'
<1>1. Current(c) /\ (byHand \/ OfferMatchesApplication)
  BY DEF Alone
<1>2. PICK n \in 0..MaxRevision : \A r \in Revisions : active[r] => r = n
  BY DEF OfferInvariant, NewestIsCurrent
<1>3. \A d \in Clients \ {c} : req'[d] = NoRequest
  BY OfferConstants DEF Serve, StaffLoads, CandidateLoads, EditLoads, PatchLoads, CreateLoads, Starts,
    CandidateLoadsApplication, CreateFindsActive, CreateCounts, WriteTransition, CreateWrites,
    EditWrites, PatchWrites, TypeOK
<1>4. Current(c)' /\ (byHand' \/ OfferMatchesApplication')
  <2>1. CASE \/ \E r \in Revisions : \/ \E op \in StaffOps : StaffLoads(c, op, r)
                                     \/ \E op \in CandidateOps : CandidateLoads(c, op, r)
                                     \/ EditLoads(c, r)
             \/ CreateLoads(c) \/ \E s \in ApplicationStatuses : PatchLoads(c, s)
             \/ CandidateLoadsApplication(c) \/ CreateFindsActive(c) \/ CreateCounts(c)
    <3>1. Current(c)' /\ UNCHANGED Rows
      BY <1>1, <1>2, <2>1, StartIsCurrent, ProgressIsCurrent
    <3> QED
      BY <1>1, <3>1 DEF Rows, OfferMatchesApplication
  <2>2. CASE WriteTransition(c) \/ CreateWrites(c) \/ EditWrites(c) \/ PatchWrites(c)
    <3>1. req'[c] = NoRequest
      BY <2>2 DEF WriteTransition, CreateWrites, EditWrites, PatchWrites, TypeOK
    <3>2. Current(c)'
      BY <3>1 DEF Current, NoRequest, StaffOps, CandidateOps
    <3> QED
      BY <1>1, <2>2, <3>2, MatchPreserved
  <2> QED
    BY <2>1, <2>2, OfferConstants DEF Serve
<1>5. \A d \in Clients : Current(d)'
  BY <1>3, <1>4 DEF Current, NoRequest, StaffOps, CandidateOps
<1> QED
  BY <1>3, <1>4, <1>5 DEF Alone

(* The inductive invariant of both scenarios of MCOfferLifecycle.            *)
ScenarioInvariant ==
  TypeOK /\ OfferInvariant /\ (scenario = "single" => Alone)

(* A step of MCSpec, and what it may change.                                 *)
MCNext == (RaceNext \/ SingleNext) /\ UNCHANGED scenario

mcVars == <<vars, scenario, byHand>>

(* A step of the one request at a time is a step of the offers.              *)
LEMMA SingleIsAny ==
  ASSUME SingleNext
  PROVE  \/ \E c \in Clients : /\ \A d \in Clients \ {c} : req[d] = NoRequest
                               /\ Serve(c) \/ \E s \in ApplicationStatuses : PatchLoads(c, s)
                               /\ byHand' = (byHand \/ (PatchWrites(c) /\ app' \notin BeforeOffer))
         \/ \E good \in BOOLEAN : Decide(good) /\ UNCHANGED byHand
BY SingleServes DEF SingleNext

(* A step of either scenario keeps it ...                                    *)
LEMMA ScenarioPreserved == ScenarioInvariant /\ [MCNext]_mcVars => ScenarioInvariant'
<1> SUFFICES ASSUME ScenarioInvariant, [MCNext]_mcVars PROVE ScenarioInvariant'
  OBVIOUS
<1>1. [AnyNext]_vars
  BY SingleIsAny DEF MCNext, mcVars, RaceNext, AnyNext, Next
<1>2. TypeOK' /\ OfferInvariant'
  BY <1>1, TypePreserved, NewestPreserved, FailedPreserved, ApprovalPreserved, GroundPreserved
  DEF ScenarioInvariant, OfferInvariant
<1>3. ASSUME scenario' = "single" PROVE Alone'
  <2>1. TypeOK /\ OfferInvariant /\ Alone
    BY <1>3 DEF ScenarioInvariant, MCNext, mcVars
  <2>2. CASE UNCHANGED <<req, status, active, app, byHand>>
    BY <2>1, <2>2 DEF Alone, Current, OfferMatchesApplication
  <2>3. CASE ~UNCHANGED <<req, status, active, app, byHand>>
    <3>1. SingleNext
      BY <1>3, <2>3 DEF MCNext, mcVars, vars, RaceNext
    <3>2. PICK c \in Clients :
            /\ \A d \in Clients \ {c} : req[d] = NoRequest
            /\ Serve(c) \/ \E s \in ApplicationStatuses : PatchLoads(c, s)
            /\ byHand' = (byHand \/ (PatchWrites(c) /\ app' \notin BeforeOffer))
      BY <2>3, <3>1, SingleIsAny DEF Decide
    <3> QED
      BY <2>1, <3>2, AloneServes
  <2> QED
    BY <2>2, <2>3
<1> QED
  BY <1>2, <1>3 DEF ScenarioInvariant

(* ... so that it holds of all their behaviours.                             *)
LEMMA ScenarioInvariantHolds == MCSpec => []ScenarioInvariant
<1>1. MCInit => ScenarioInvariant
  <2> SUFFICES ASSUME MCInit PROVE ScenarioInvariant
    OBVIOUS
  <2>1. TypeOK /\ OfferInvariant
    BY InitTyped, InitInvariant DEF MCInit
  <2>2. Alone
    BY DEF MCInit, Init, Alone, Current, OfferMatchesApplication, NoRequest, StaffOps, CandidateOps
  <2> QED
    BY <2>1, <2>2 DEF ScenarioInvariant
<1> QED
  BY <1>1, ScenarioPreserved, PTL DEF MCSpec, MCNext, mcVars

(* _sync_application_status and its callers: as long as requests come one at *)
(* a time and staff do not set a status of the offer stage by hand, the      *)
(* active offer and the application agree, for any number of revisions.      *)
THEOREM OfferAndApplicationAgree == MCSpec => []OfferMatchesApplicationUnlessMovedByHand
<1>1. ScenarioInvariant => OfferMatchesApplicationUnlessMovedByHand
  BY DEF ScenarioInvariant, Alone, OfferMatchesApplicationUnlessMovedByHand
<1> QED
  BY <1>1, ScenarioInvariantHolds, PTL

-----------------------------------------------------------------------------
(* What one request's step does to the revisions is what the contract says.  *)
LEMMA ContractStep ==
  ASSUME TypeOK, OfferInvariant, NEW c \in Clients, Current(c),
         Serve(c) \/ \E s \in ApplicationStatuses : PatchLoads(c, s), NEW r \in Revisions
  PROVE  /\ \/ status'[r] = status[r]
            \/ status[r] = "absent" /\ status'[r] = "draft"
            \/ <<status[r], status'[r]>> \in AllowedOfferStatusTransitions
         /\ content'[r] # content[r] => status[r] \in {"draft", "pending_approval"}
         /\ ~active[r] /\ active'[r] => status[r] = "absent" /\ status'[r] = "draft"
         /\ active[r] /\ ~active'[r] =>
              \/ status'[r] \in {"rejected", "declined", "withdrawn"}
              \/ status[r] \notin {"pending_approval", "approved"}
<1>1. CASE WriteTransition(c)
  BY <1>1, TransitionMoves DEF WriteTransition, TypeOK
<1>2. CASE CreateWrites(c)
  <2> DEFINE k == req[c].rev
  <2>1. /\ req[c].op = "create" /\ req[c].at = "writing" /\ content' = content
        /\ k \in Revisions
    BY <1>2 DEF CreateWrites, OfferInvariant, RequestsAreGrounded
  <2>2. \A i \in Revisions : active[i] => i = req[c].old /\ status[i] \notin {"pending_approval", "approved"}
    BY <2>1 DEF Current
  <2>3. CASE UNCHANGED <<status, active>>
    BY <2>1, <2>3
  <2>4. CASE /\ status[k] = "absent" /\ status' = [status EXCEPT ![k] = "draft"]
             /\ active' = [i \in Revisions |-> i = k \/ (active[i] /\ i # req[c].old)]
    BY <2>1, <2>2, <2>4 DEF TypeOK
  <2> QED
    BY <1>2, <2>3, <2>4 DEF CreateWrites
<1>3. CASE EditWrites(c)
  BY <1>3 DEF EditWrites, Current, TypeOK
<1>4. CASE UNCHANGED <<status, active, content>>
  BY <1>4
<1> QED
  BY <1>1, <1>2, <1>3, <1>4, OfferConstants
  DEF Serve, StaffLoads, CandidateLoads, EditLoads, PatchLoads, CreateLoads, Starts, Rows,
    CandidateLoadsApplication, CreateFindsActive, CreateCounts, PatchWrites

(* Requests that come one at a time keep every promise of OfferContract: an  *)
(* offer moves along the table of core/offer_status.py, its content changes  *)
(* only before the approval, and no revision in flight is replaced.          *)
THEOREM OneRequestKeepsContract == MCSpec => ImplementsContract
<1> DEFINE seen == <<OneAtATime(status, "absent"), OneAtATime(active, FALSE),
                     OneAtATime(content, FALSE)>>
<1>1. MCInit => SingleContract!Init
  BY DEF MCInit, Init, SingleContract!Init, OneAtATime
<1>2. ScenarioInvariant /\ [MCNext]_mcVars => [SingleContract!Next]_seen
  <2> SUFFICES ASSUME ScenarioInvariant, [MCNext]_mcVars, ~UNCHANGED seen
               PROVE  SingleContract!Next
    OBVIOUS
  <2>1. scenario = "single" /\ scenario' = "single" /\ ~UNCHANGED <<status, active, content>>
    BY DEF MCNext, mcVars, vars, OneAtATime
  <2>2. SingleNext
    BY <2>1 DEF MCNext, mcVars, vars, RaceNext
  <2>3. PICK c \in Clients : Serve(c) \/ \E s \in ApplicationStatuses : PatchLoads(c, s)
    BY <2>1, <2>2, SingleIsAny DEF Decide
  <2>4. TypeOK /\ OfferInvariant /\ Current(c)
    BY <2>1 DEF ScenarioInvariant, Alone
  <2>5. ASSUME NEW r \in Revisions
        PROVE  /\ OneAtATime(status, "absent")[r] = status[r]
               /\ OneAtATime(active, FALSE)[r] = active[r]
               /\ OneAtATime(content, FALSE)[r] = content[r]
               /\ OneAtATime(status, "absent")'[r] = status'[r]
               /\ OneAtATime(active, FALSE)'[r] = active'[r]
               /\ OneAtATime(content, FALSE)'[r] = content'[r]
    BY <2>1 DEF OneAtATime
  <2>6. ASSUME NEW r \in Revisions
        PROVE  SingleContract!StatusOK(r) /\ SingleContract!EditOK(r) /\ SingleContract!ActiveOK(r)
    <3>1. SingleContract!AllowedOfferStatusTransitions = AllowedOfferStatusTransitions
      BY DEF SingleContract!AllowedOfferStatusTransitions, AllowedOfferStatusTransitions
    <3> QED
      BY <2>3, <2>4, <2>5, <3>1, ContractStep
      DEF SingleContract!StatusOK, SingleContract!Created, SingleContract!Moved,
        SingleContract!EditOK, SingleContract!ActiveOK, SingleContract!Blocking,
        SingleContract!Failed
  <2> QED
    BY <2>6 DEF SingleContract!Next
<1> QED
  BY <1>1, <1>2, ScenarioInvariantHolds, PTL
  DEF MCSpec, MCNext, mcVars, ImplementsContract, SingleContract!Spec
=============================================================================
