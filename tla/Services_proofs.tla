--------------------------- MODULE Services_proofs ---------------------------
(***************************************************************************)
(* Theorems about the services MCServices runs side by side, each for all  *)
(* values of its constants. A service is an instance whose constants have  *)
(* names of their own here; what is assumed of them is a hypothesis of its *)
(* theorems. MCServices_proofs carries them over to what TLC runs.         *)
(***************************************************************************)
EXTENDS Integers, FiniteSets, Sequences, FiniteSetTheorems, SequenceTheorems, TLAPS

CONSTANTS
  Users, Names, MemberCalls, MaxBranches,
  StoreRequests, Items, Recruiters, StoreCalls,
  AIRequests, MaxDates, MaxAIFaults,
  Forms, FormJobs, MaxErrors,
  RecordCalls, Papers, Remarks, SetStatuses, PaperStages, MaxVisits,
  AuditEvents, SubjectOf, ProcessOf, MaxAuditFaults,
  Hooks, Admins, Urls, Kinds, Types, HooksCreated, MaxCalls, MaxEvents, MaxAttempts, MaxHookFaults,
  Mutations, EventOf, EntityOf, ContentOf, Staff, RoleOf, Interviewer, Candidate,
  Listeners, MaxTries, MaxSeconds, MaxFailures, MaxLost, MaxEdits,
  PipelineAttempts, ProviderScores, ItemNumbers,
  Readers, ReportKeys, ReportTTL, ReportMax, MaxReportTime, MaxReportWrites,
  Machines, CacheKeys, CacheLocks, CacheTTL, CopySize, MaxCacheTime, MaxCacheWrites, MaxOutages,
  PostCalls, Replies, MaxText, MaxMatches, MaxEditFaults,
  Addresses, Limit, Window, MaxLimitTime,
  Procs, Questions, HomeOf, Defaults, Template, Cands, TTL, MaxMinutes, MaxRevisions, MaxStarts, MaxAsks

VARIABLES
  company, role, members, slugs, branches, call,
  disk, req, truth, doubt,
  edited, analysis, talk, dec, aiReq, aiClock, aiFaults,
  open, files, cand, apps, queued, holder, form, errors,
  person, papers, remarks, visits, entries, started, mixedUp, owed, passedBy,
  auditTable, auditLog, auditIndex, auditPc, auditRead, auditFailed, lostLog, together,
  hookRows, admin, trail, posting, sending, got, off, begun, events, misses,
  active, emailOn, hook, prod, notes, read, emails, posts, mailed, clock, faults, edits,
  kind, apiKey, phase, calls, reply, answer,
  data, told, cache, reader, now,
  redis, local, up, second, todo, written, unseen, held, raced, writes, outages,
  post, made, editor, matches, died, loose,
  bucket, time, passed, refused,
  store, boot, known, kept, version, ask, minute, starts, asks

-----------------------------------------------------------------------------
(* Companies and their members.                                              *)
Tenants == INSTANCE Membership WITH Calls <- MemberCalls

(* No user is called like the absence of a company.                          *)
TenantsConstants == "none" \notin Users

(* A request under way: a founder founds a company of their own, and who had *)
(* no company at the commit had none at the check.                           *)
MemberCallTyped(k) ==
  \/ k = Tenants!Idle
  \/ /\ k \in [pc : {"checked"}, kind : {"found", "invite", "branch"}, by : Users, user : Users,
               role : {"company_admin", "member", "-"}, slug : {k.slug}, none : BOOLEAN]
     /\ k.kind = "found" => k.by = k.user /\ k.role = "company_admin"
     /\ k.kind = "invite" => k.role # "-"
     /\ company[k.user] = "none" => k.none

(* The types.                                                                *)
MemberTypes ==
  /\ company \in [Users -> Users \cup {"none"}]
  /\ role \in [Users -> {"recruiter", "company_admin"}]
  /\ members \subseteq [user : Users, company : Users, role : {"company_admin", "member"}]
  /\ DOMAIN slugs \subseteq Users
  /\ \A q \in MemberCalls : MemberCallTyped(call[q])
  /\ DOMAIN call = MemberCalls

(* The inductive invariant: rows, memberships and companies agree.           *)
TenantsInvariant ==
  /\ MemberTypes
  /\ \A m, n \in members : m.user = n.user => m = n
  /\ \A m \in members : company[m.user] = m.company
  /\ \A u \in Users : company[u] # "none" => Tenants!Joined(u)
  /\ \A u \in DOMAIN slugs : company[u] = u /\ Tenants!Admin(u, u)
  /\ \A u, v \in DOMAIN slugs : slugs[u] = slugs[v] => u = v

(* The checks of a request only change its own record.                       *)
LEMMA MemberChecks ==
  ASSUME TenantsConstants, TenantsInvariant, NEW q \in MemberCalls, NEW k, MemberCallTyped(k),
         call' = [call EXCEPT ![q] = k], Tenants!RowsKept
  PROVE  TenantsInvariant'
<1>1. \A p \in MemberCalls : MemberCallTyped(call[p])'
  <2>1. \A p \in MemberCalls : call'[p] = call[p] \/ call'[p] = k
    BY DEF TenantsInvariant, MemberTypes
  <2>2. company' = company
    BY DEF Tenants!RowsKept
  <2> QED
    BY <2>1, <2>2 DEF TenantsInvariant, MemberTypes, MemberCallTyped, Tenants!Idle
<1>2. DOMAIN call' = MemberCalls
  BY DEF TenantsInvariant, MemberTypes
<1> QED
  BY <1>1, <1>2 DEF TenantsInvariant, MemberTypes, Tenants!RowsKept, Tenants!Joined, Tenants!Admin

(* What the constraints let through keeps the rows in agreement.             *)
LEMMA MemberCommits ==
  ASSUME TenantsConstants, TenantsInvariant, NEW q \in MemberCalls, Tenants!Commit(q)
  PROVE  TenantsInvariant'
<1> DEFINE k == call[q]
<1>0. /\ TenantsInvariant /\ MemberTypes
      /\ k \in [pc : {"checked"}, kind : {"found", "invite", "branch"}, by : Users, user : Users,
                role : {"company_admin", "member", "-"}, slug : {k.slug}, none : BOOLEAN]
      /\ k.kind = "found" => k.by = k.user /\ k.role = "company_admin"
      /\ k.kind = "invite" => k.role # "-"
      /\ company[k.user] = "none" => k.none
      /\ MemberCallTyped(Tenants!Idle)
      /\ call' = [call EXCEPT ![q] = Tenants!Idle]
  BY DEF Tenants!Commit, TenantsInvariant, MemberTypes, MemberCallTyped
<1>1. CASE Tenants!Violates(k)
  <2>1. Tenants!RowsKept
    BY <1>1 DEF Tenants!Commit
  <2> QED
    BY <1>0, <2>1, MemberChecks
<1>2. CASE ~Tenants!Violates(k) /\ k.kind = "branch"
  <2>1. UNCHANGED <<company, role, members, slugs>>
    BY <1>2 DEF Tenants!Commit
  <2>2. \A p \in MemberCalls : MemberCallTyped(call[p])'
    BY <1>0, <2>1 DEF MemberTypes, MemberCallTyped, Tenants!Idle
  <2> QED
    BY <1>0, <2>1, <2>2 DEF TenantsInvariant, MemberTypes, Tenants!Joined, Tenants!Admin
<1>3. CASE ~Tenants!Violates(k) /\ k.kind \in {"found", "invite"}
  <2> DEFINE new == [user |-> k.user, company |-> k.by, role |-> k.role]
  <2>1. ~Tenants!Joined(k.user)
    BY <1>3 DEF Tenants!Violates
  <2>2. company[k.user] = "none" /\ k.none
    BY <1>0, <2>1 DEF TenantsInvariant
  <2>3. /\ company' = [company EXCEPT ![k.user] = k.by]
        /\ role' = IF k.kind = "found" THEN [role EXCEPT ![k.user] = "company_admin"] ELSE role
        /\ members' = members \cup {new}
        /\ k.kind # "found" => slugs' = slugs
        /\ k.kind = "found" =>
             slugs' = [u \in DOMAIN slugs \cup {k.user} |-> IF u = k.user THEN k.slug ELSE slugs[u]]
    BY <1>3, <2>2 DEF Tenants!Commit
  <2>4. /\ new \in [user : Users, company : Users, role : {"company_admin", "member"}]
        /\ new.user = k.user /\ new.company = k.by
        /\ k.kind = "found" => new = [user |-> k.user, company |-> k.user, role |-> "company_admin"]
    BY <1>0, <1>3
  <2> HIDE DEF new
  <2>5. \A m \in members : m.user # k.user /\ m \in [user : Users, company : Users, role : {"company_admin", "member"}]
    BY <1>0, <2>1 DEF Tenants!Joined, MemberTypes
  <2>6. k.user \notin DOMAIN slugs
    BY <1>0, <2>2 DEF TenantsInvariant, TenantsConstants, MemberTypes
  <2>7. MemberTypes'
    <3>1. company' \in [Users -> Users \cup {"none"}] /\ role' \in [Users -> {"recruiter", "company_admin"}]
      BY <1>0, <2>3 DEF MemberTypes
    <3>2. members' \subseteq [user : Users, company : Users, role : {"company_admin", "member"}]
      BY <1>0, <2>3, <2>4 DEF MemberTypes
    <3>3. DOMAIN slugs' \subseteq Users
      BY <1>0, <1>3, <2>3 DEF MemberTypes
    <3>4. ASSUME NEW p \in MemberCalls PROVE MemberCallTyped(call[p])'
      <4>1. call'[p] = call[p] \/ call'[p] = Tenants!Idle
        BY <1>0 DEF MemberTypes
      <4>2. MemberCallTyped(call[p])
        BY <1>0 DEF MemberTypes
      <4>3. \A u \in Users : company'[u] = "none" => company[u] = "none"
        BY <1>0, <2>2, <2>3 DEF MemberTypes
      <4> QED
        BY <4>1, <4>2, <4>3 DEF MemberCallTyped
    <3> QED
      BY <1>0, <3>1, <3>2, <3>3, <3>4 DEF MemberTypes
  <2>8. \A m, n \in members' : m.user = n.user => m = n
    BY <1>0, <2>3, <2>4, <2>5 DEF TenantsInvariant
  <2>9. \A m \in members' : company'[m.user] = m.company
    BY <1>0, <2>3, <2>4, <2>5 DEF TenantsInvariant, MemberTypes
  <2>10. \A u \in Users : company'[u] # "none" => Tenants!Joined(u)'
    BY <1>0, <2>3, <2>4 DEF TenantsInvariant, MemberTypes, Tenants!Joined
  <2>11. \A u \in DOMAIN slugs' : company'[u] = u /\ Tenants!Admin(u, u)'
    <3>1. ASSUME NEW u \in DOMAIN slugs PROVE company'[u] = u /\ Tenants!Admin(u, u)'
      BY <1>0, <2>3, <2>6 DEF TenantsInvariant, MemberTypes, Tenants!Admin
    <3>2. ASSUME NEW u \in Users, k.kind = "found", u = k.user
          PROVE  company'[u] = u /\ Tenants!Admin(u, u)'
      BY <1>0, <2>3, <2>4, <3>2 DEF MemberTypes, Tenants!Admin
    <3>3. DOMAIN slugs' = IF k.kind = "found" THEN DOMAIN slugs \cup {k.user} ELSE DOMAIN slugs
      BY <1>3, <2>3
    <3> QED
      BY <1>0, <3>1, <3>2, <3>3
  <2>12. \A u, v \in DOMAIN slugs' : slugs'[u] = slugs'[v] => u = v
    <3>1. CASE k.kind # "found"
      BY <1>0, <1>3, <2>3, <3>1 DEF TenantsInvariant
    <3>2. CASE k.kind = "found"
      <4>1. \A u \in DOMAIN slugs : slugs[u] # k.slug
        BY <1>3, <3>2 DEF Tenants!Violates, Tenants!SlugsTaken
      <4> QED
        BY <1>0, <2>3, <3>2, <4>1 DEF TenantsInvariant
    <3> QED
      BY <3>1, <3>2
  <2> QED
    BY <2>7, <2>8, <2>9, <2>10, <2>11, <2>12 DEF TenantsInvariant
<1> QED
  BY <1>0, <1>1, <1>2, <1>3

(* The invariant holds at first ...                                          *)
LEMMA TenantsInit == TenantsConstants /\ Tenants!Init => TenantsInvariant
BY DEF TenantsConstants, Tenants!Init, TenantsInvariant, MemberTypes, MemberCallTyped, Tenants!Idle,
   Tenants!None, Tenants!Joined, Tenants!Admin

(* ... is kept by every step ...                                             *)
LEMMA TenantsPreserved ==
  TenantsConstants /\ TenantsInvariant /\ [Tenants!Next]_(Tenants!vars) => TenantsInvariant'
<1> SUFFICES ASSUME TenantsConstants, TenantsInvariant, [Tenants!Next]_(Tenants!vars)
             PROVE  TenantsInvariant'
  OBVIOUS
<1>1. ASSUME NEW q \in MemberCalls, NEW u \in Users, NEW n \in Names, Tenants!Found(q, u, n)
      PROVE  TenantsInvariant'
  <2> DEFINE k == [pc |-> "checked", kind |-> "found", by |-> u, user |-> u,
                   role |-> "company_admin", slug |-> Tenants!FreeSlug(n, Tenants!SlugsTaken), none |-> company[u] = Tenants!None]
  <2>1. MemberCallTyped(k)
    BY DEF MemberCallTyped, Tenants!None
  <2> QED
    BY <1>1, <2>1, MemberChecks DEF Tenants!Found, Tenants!Checked
<1>2. ASSUME NEW q \in MemberCalls, NEW u \in Users, NEW n \in Names, Tenants!Branch(q, u, n)
      PROVE  TenantsInvariant'
  <2> DEFINE s == Tenants!FreeSlug(n, {b[2] : b \in {x \in branches : x[1] = company[u]}})
             k == [pc |-> "checked", kind |-> "branch", by |-> company[u], user |-> u, role |-> "-",
                   slug |-> s, none |-> company[u] = Tenants!None]
  <2>1. company[u] \in Users
    BY <1>2 DEF Tenants!Branch, Tenants!None, TenantsInvariant, MemberTypes
  <2> HIDE DEF s
  <2>2. MemberCallTyped(k)
    BY <2>1 DEF MemberCallTyped, Tenants!None
  <2> QED
    BY <1>2, <2>2, MemberChecks DEF Tenants!Branch, Tenants!Checked, s
<1>3. ASSUME NEW q \in MemberCalls, NEW a \in Users, NEW u \in Users,
             NEW r \in {"company_admin", "member"}, Tenants!Invite(q, a, u, r)
      PROVE  TenantsInvariant'
  <2>1. PICK c \in DOMAIN slugs : Tenants!Checked(q, "invite", c, u, r, <<>>)
    BY <1>3 DEF Tenants!Invite
  <2> DEFINE k == [pc |-> "checked", kind |-> "invite", by |-> c, user |-> u, role |-> r,
                   slug |-> <<>>, none |-> company[u] = Tenants!None]
  <2>2. MemberCallTyped(k)
    BY DEF MemberCallTyped, Tenants!None, TenantsInvariant, MemberTypes
  <2> QED
    BY <1>3, <2>1, <2>2, MemberChecks DEF Tenants!Invite, Tenants!Checked
<1>4. ASSUME NEW q \in MemberCalls, Tenants!Fail(q) PROVE TenantsInvariant'
  BY <1>4, MemberChecks DEF Tenants!Fail, MemberCallTyped
<1>5. CASE UNCHANGED Tenants!vars
  BY <1>5 DEF Tenants!vars, TenantsInvariant, MemberTypes, MemberCallTyped, Tenants!Joined, Tenants!Admin
<1> QED
  BY <1>1, <1>2, <1>3, <1>4, <1>5, MemberCommits DEF Tenants!Next

(* ... and is what the tables promise.                                       *)
LEMMA TenantsInvariantAgrees == TenantsConstants /\ TenantsInvariant => Tenants!TenantsAgree
<1> SUFFICES ASSUME TenantsConstants, TenantsInvariant PROVE Tenants!TenantsAgree
  OBVIOUS
<1>1. ASSUME NEW u \in Users PROVE Cardinality({m \in members : m.user = u}) =< 1
  <2> DEFINE S == {m \in members : m.user = u}
  <2>1. CASE S = {}
    BY <2>1, FS_EmptySet
  <2>2. CASE S # {}
    <3>1. PICK m : S = {m}
      BY <2>2 DEF TenantsInvariant
    <3> QED
      BY <3>1, FS_Singleton
  <2> QED
    BY <2>1, <2>2
<1>2. {<<m.user, m.company>> : m \in members} = {<<u, company[u]>> : u \in {x \in Users : company[x] # Tenants!None}}
  <2>1. \A m \in members : m.user \in Users /\ m.company \in Users /\ company[m.user] = m.company
    BY DEF TenantsInvariant, MemberTypes
  <2>2. \A u \in Users : company[u] # "none" => \E m \in members : m.user = u /\ m.company = company[u]
    BY <2>1 DEF TenantsInvariant, Tenants!Joined
  <2> QED
    BY <2>1, <2>2 DEF Tenants!None, TenantsConstants
<1>3. \A S : Tenants!Cardinality(S) = Cardinality(S)
  BY DEF Cardinality, Tenants!Cardinality, IsFiniteSet, Tenants!IsFiniteSet
<1>4. /\ \A u \in DOMAIN slugs : company[u] = u /\ Tenants!Admin(u, u)
      /\ \A u, v \in DOMAIN slugs : slugs[u] = slugs[v] => u = v
  BY DEF TenantsInvariant
<1> QED
  BY <1>1, <1>2, <1>3, <1>4 DEF Tenants!TenantsAgree

(* However companies are founded and members added together, a user belongs  *)
(* to one company at most, users.company_id says which, every company has    *)
(* its founder as an admin and a slug of its own.                            *)
THEOREM TenantsStayApart ==
  ASSUME TenantsConstants
  PROVE  Tenants!Init /\ [][Tenants!Next]_(Tenants!vars) => []Tenants!TenantsAgree
<1>1. TenantsInvariant => Tenants!TenantsAgree
  BY TenantsInvariantAgrees
<1>2. Tenants!Init => TenantsInvariant
  BY TenantsInit
<1>3. TenantsInvariant /\ [Tenants!Next]_(Tenants!vars) => TenantsInvariant'
  BY TenantsPreserved
<1> QED
  BY <1>1, <1>2, <1>3, PTL

-----------------------------------------------------------------------------
(* The workspaces' files.                                                    *)
Store == INSTANCE WorkspaceStore WITH Requests <- StoreRequests, Calls <- StoreCalls

(* Requests are records.                                                     *)
StoreTypes ==
  /\ DOMAIN req = StoreRequests
  /\ \A r \in StoreRequests : DOMAIN req[r] = {"pc", "call", "item", "data", "answer", "overlapped"}

(* Changes that are under way together know it, and so does a writer whose   *)
(* file is no longer the empty one it made; nobody overlaps alone.           *)
OverlapsAreMarked ==
  /\ \A r \in StoreRequests : Store!Busy(r) => req[r].call \in Store!Mutations
  /\ \A q, r \in StoreRequests : q # r /\ Store!Busy(q) /\ Store!Busy(r) => req[q].overlapped
  /\ \A r \in StoreRequests : req[r].pc = "write" => req[r].overlapped \/ disk = Store!Truncated
  /\ \A r \in StoreRequests : req[r].overlapped => \E q \in StoreRequests : q # r /\ req[q].overlapped

(* The request has read the file and may write it.                           *)
Writing(r) == req[r].pc \in {"save", "open", "write"}

(* The file, and what a change is about to write, are right about every item *)
(* that is not in doubt; the change also about the item it is of.            *)
FileIsRight ==
  \/ disk = Store!Stored(disk.items) /\ \A i \in Items \ doubt : Store!Agree(disk.items, truth, i)
  \/ disk = Store!Torn
  \/ disk = Store!Truncated /\ \E r \in StoreRequests : req[r].pc = "write"

DataIsRight(r) ==
  \A i \in (Items \ doubt) \cup Store!Changed(r) :
    Store!Agree(req[r].data, Store!Altered(truth, req[r].call, req[r].item), i)

(* A torn file that nobody is about to write stays torn, and a removed one   *)
(* removed.                                                                  *)
TornForGood == disk = Store!Torn /\ \A r \in StoreRequests : ~Writing(r)

MissedForAReason(r) ==
  /\ req[r].answer = "not_found" \/ req[r].pc = "missing"
  /\ req[r].call \in {"add", "touch", "prefer"}
  => req[r].overlapped \/ Store!Removed \/ TornForGood

RemovedAlone(r) == req[r].call = "remove" /\ req[r].answer = "ok" /\ ~req[r].overlapped

(* The inductive invariant.                                                  *)
StoreInvariant ==
  /\ StoreTypes
  /\ OverlapsAreMarked
  /\ Store!OverlapsTear
  /\ ~Store!Removed =>
       /\ FileIsRight
       /\ \A r \in StoreRequests : req[r].pc # "unlinked" /\ (Writing(r) => DataIsRight(r))
  /\ \A r \in StoreRequests : MissedForAReason(r)
  /\ (\E r \in StoreRequests : RemovedAlone(r)) =>
       disk = Store!NoFile /\ \A r \in StoreRequests : ~Writing(r)

(* What two contents say of an item is said alike or not, and a change is    *)
(* one of its own item only.                                                 *)
LEMMA AgreeComposes ==
  ASSUME NEW c, NEW d, NEW e, NEW i, Store!Agree(c, d, i), Store!Agree(d, e, i)
  PROVE  Store!Agree(c, e, i)
BY DEF Store!Agree

LEMMA AgreeTurns == ASSUME NEW c, NEW d, NEW i, Store!Agree(c, d, i) PROVE Store!Agree(d, c, i)
BY DEF Store!Agree

LEMMA AlteredAgree ==
  ASSUME NEW c, NEW d, NEW k, NEW x, NEW i,
         Store!Agree(c, d, i) \/ (i = x /\ k \in {"add", "update", "delete", "prefer"})
  PROVE  Store!Agree(Store!Altered(c, k, x), Store!Altered(d, k, x), i)
<1>1. CASE k = "add"
  BY <1>1 DEF Store!Agree, Store!Altered, Store!With
<1>2. CASE k \in {"update", "prefer"}
  BY <1>2 DEF Store!Agree, Store!Altered, Store!With
<1>3. CASE k = "delete"
  BY <1>3 DEF Store!Agree, Store!Altered
<1>4. CASE k \notin {"add", "update", "prefer", "delete"}
  BY <1>4 DEF Store!Agree, Store!Altered
<1> QED
  BY <1>1, <1>2, <1>3, <1>4

LEMMA AlteredElsewhere ==
  ASSUME NEW c, NEW k, NEW x, NEW i, i # x \/ k = "touch"
  PROVE  Store!Agree(Store!Altered(c, k, x), c, i)
<1>1. CASE k = "add"
  BY <1>1 DEF Store!Agree, Store!Altered, Store!With
<1>2. CASE k \in {"update", "prefer"}
  BY <1>2 DEF Store!Agree, Store!Altered, Store!With
<1>3. CASE k = "delete"
  BY <1>3 DEF Store!Agree, Store!Altered
<1>4. CASE k \notin {"add", "update", "prefer", "delete"}
  BY <1>4 DEF Store!Agree, Store!Altered
<1> QED
  BY <1>1, <1>2, <1>3, <1>4

(* A change reads the file: it and those it meets are marked.                *)
LEMMA LoadKeeps ==
  ASSUME StoreInvariant, NEW r \in StoreRequests, Store!Load(r)
  PROVE  StoreInvariant'
<1>1. /\ req[r].pc = "new" /\ req[r].call \in Store!Mutations
      /\ UNCHANGED <<disk, truth, doubt>> /\ ~Store!Busy(r)
      /\ StoreTypes /\ OverlapsAreMarked
  BY DEF Store!Load, Store!Busy, StoreInvariant
<1>2. PICK pc, text :
        /\ Store!Reading(r, pc, text)
        /\ \/ /\ pc = "save" /\ Store!Readable /\ text = Store!Altered(disk.items, req[r].call, req[r].item)
           \/ /\ pc = "missing"
              /\ req[r].call \in {"add", "touch", "prefer"} => ~Store!Readable
  BY DEF Store!Load
<1>3. /\ StoreTypes'
      /\ \A q \in StoreRequests :
           /\ req'[q].call = req[q].call /\ req'[q].item = req[q].item /\ req'[q].answer = req[q].answer
           /\ q # r => req'[q].pc = req[q].pc /\ req'[q].data = req[q].data
           /\ req'[q].overlapped = Store!Overlapping(q, r)
      /\ req'[r].pc = pc /\ req'[r].data = text
  BY <1>1, <1>2 DEF StoreTypes, Store!Reading
<1>4. /\ \A q \in StoreRequests \ {r} : (Store!Busy(q)' <=> Store!Busy(q)) /\ (Writing(q)' <=> Writing(q))
      /\ Store!Busy(r)' /\ (Writing(r)' <=> pc = "save")
  BY <1>2, <1>3 DEF Store!Busy, Writing
<1>5. Store!Removed' <=> Store!Removed
  BY <1>1, <1>2, <1>3 DEF Store!Removed, Store!Mutations
<1>6. /\ \A q \in StoreRequests : req[q].overlapped => req'[q].overlapped
      /\ \A q \in StoreRequests : q # r /\ Store!Busy(q) => req'[q].overlapped /\ req'[r].overlapped
      /\ \A q \in StoreRequests : req'[q].overlapped =>
           req[q].overlapped \/ \E s \in StoreRequests : s # q /\ req'[s].overlapped
  BY <1>1, <1>3 DEF Store!Overlapping, Store!Overlaps
<1>7. OverlapsAreMarked'
  <2>1. \A q \in StoreRequests : req'[q].pc = "write" => req'[q].overlapped \/ disk' = Store!Truncated
    BY <1>1, <1>2, <1>3, <1>6 DEF OverlapsAreMarked
  <2>2. \A q \in StoreRequests : req'[q].overlapped => \E s \in StoreRequests : s # q /\ req'[s].overlapped
    BY <1>1, <1>6 DEF OverlapsAreMarked
  <2>3. \A p, q \in StoreRequests : p # q /\ Store!Busy(p)' /\ Store!Busy(q)' => req'[p].overlapped
    BY <1>1, <1>4, <1>6 DEF OverlapsAreMarked
  <2>4. \A q \in StoreRequests : Store!Busy(q)' => req'[q].call \in Store!Mutations
    BY <1>1, <1>3, <1>4 DEF OverlapsAreMarked
  <2> QED
    BY <2>1, <2>2, <2>3, <2>4 DEF OverlapsAreMarked
<1>8. Store!OverlapsTear'
  BY <1>1, <1>6 DEF StoreInvariant, Store!OverlapsTear
<1>9. ASSUME ~Store!Removed
      PROVE  /\ FileIsRight'
             /\ \A q \in StoreRequests : req'[q].pc # "unlinked" /\ (Writing(q)' => DataIsRight(q)')
  <2>1. FileIsRight /\ \A q \in StoreRequests : req[q].pc # "unlinked" /\ (Writing(q) => DataIsRight(q))
    BY <1>9 DEF StoreInvariant
  <2>2. FileIsRight'
    <3>1. (\E q \in StoreRequests : req[q].pc = "write") => \E q \in StoreRequests : req'[q].pc = "write"
      BY <1>1, <1>3
    <3> QED
      BY <1>1, <2>1, <3>1 DEF FileIsRight
  <2>3. ASSUME NEW q \in StoreRequests, q # r, Writing(q)' PROVE DataIsRight(q)'
    BY <1>1, <1>3, <1>4, <2>1, <2>3 DEF DataIsRight, Store!Changed
  <2>4. ASSUME Writing(r)' PROVE DataIsRight(r)'
    <3>1. pc = "save" /\ Store!Readable /\ text = Store!Altered(disk.items, req[r].call, req[r].item)
      BY <1>2, <1>4, <2>4
    <3>2. \A i \in Items \ doubt : Store!Agree(disk.items, truth, i)
      BY <2>1, <3>1 DEF FileIsRight, Store!Readable, Store!Torn, Store!Truncated
    <3>3. \A i \in Store!Changed(r) : i = req[r].item /\ req[r].call \in {"add", "update", "delete", "prefer"}
      BY <1>1 DEF Store!Changed, Store!Mutations
    <3>4. \A i \in (Items \ doubt) \cup Store!Changed(r) :
            Store!Agree(text, Store!Altered(truth, req[r].call, req[r].item), i)
      BY <3>1, <3>2, <3>3, AlteredAgree
    <3> QED
      BY <1>1, <1>3, <3>4 DEF DataIsRight, Store!Changed
  <2> QED
    BY <1>2, <1>3, <2>1, <2>2, <2>3, <2>4
<1>10. TornForGood => TornForGood'
  BY <1>1, <1>2, <1>4 DEF TornForGood, Store!Torn, Store!Readable
<1>11. \A q \in StoreRequests : MissedForAReason(q)'
  <2>1. ASSUME NEW q \in StoreRequests, q # r PROVE MissedForAReason(q)'
    BY <1>3, <1>5, <1>6, <1>10, <2>1 DEF MissedForAReason, StoreInvariant
  <2>2. ASSUME ~req'[r].overlapped, ~Store!Removed, pc = "missing", ~Store!Readable PROVE TornForGood'
    <3>1. \A q \in StoreRequests : ~Store!Busy(q)
      BY <1>1, <1>6, <2>2
    <3>2. disk = Store!Torn
      BY <2>2, <3>1 DEF StoreInvariant, FileIsRight, Store!Busy, Store!Readable, Store!Stored
    <3> QED
      BY <1>1, <1>4, <2>2, <3>1, <3>2 DEF TornForGood, Writing, Store!Busy
  <2>3. MissedForAReason(r)'
    <3>1. MissedForAReason(r)
      BY DEF StoreInvariant
    <3> QED
      BY <1>2, <1>3, <1>5, <1>6, <1>10, <2>2, <3>1 DEF MissedForAReason
  <2> QED
    BY <2>1, <2>3
<1>12. ASSUME NEW q \in StoreRequests, RemovedAlone(q)'
       PROVE  disk' = Store!NoFile /\ \A s \in StoreRequests : ~Writing(s)'
  <2>1. RemovedAlone(q)
    BY <1>3, <1>6, <1>12 DEF RemovedAlone
  <2> QED
    BY <1>1, <1>2, <1>4, <2>1 DEF StoreInvariant, Store!NoFile, Store!Readable
<1> QED
  BY <1>3, <1>5, <1>7, <1>8, <1>9, <1>11, <1>12 DEF StoreInvariant

(* A step of one change alone, to the place pc with the answer a.            *)
StepsTo(r, pc, a) ==
  /\ DOMAIN req' = StoreRequests /\ DOMAIN req'[r] = DOMAIN req[r]
  /\ \A s \in StoreRequests \ {r} : req'[s] = req[s]
  /\ req'[r].pc = pc /\ req'[r].answer = a
  /\ req'[r].call = req[r].call /\ req'[r].item = req[r].item
  /\ req'[r].data = req[r].data /\ req'[r].overlapped = req[r].overlapped

LEMMA StoreRecords ==
  ASSUME StoreTypes, NEW r \in StoreRequests
  PROVE  /\ \A pc : Store!Goes(r, pc) => StepsTo(r, pc, req[r].answer)
         /\ \A a : Store!Answers(r, a) => StepsTo(r, "done", a)
BY DEF StoreTypes, StepsTo, Store!Goes, Store!Answers

(* What all these steps keep, given what the step does to the file.          *)
LEMMA StepKeeps ==
  ASSUME StoreInvariant, NEW r \in StoreRequests, NEW pc, NEW a, StepsTo(r, pc, a),
         \/ Store!Busy(r) /\ pc \in {"done", "open", "write"}
         \/ req[r].pc = "new" /\ pc = "done" /\ req[r].call \in Store!Reads /\ UNCHANGED <<disk, truth, doubt>>,
         pc = "write" => disk' = Store!Truncated,
         Writing(r) \/ disk' = disk,
         a = req[r].answer \/ a = "ok" \/ req[r].call \notin {"add", "touch", "prefer"} \/ Store!Removed
           \/ req[r].pc = "missing",
         pc \in {"open", "write"} => Writing(r),
         disk' = Store!Torn => disk = Store!Torn \/ req[r].overlapped,
         ~Store!Removed => FileIsRight',
         ~Store!Removed => \A q \in StoreRequests : Writing(q)' => DataIsRight(q)'
  PROVE  StoreInvariant'
<1>1. StoreTypes /\ OverlapsAreMarked /\ StoreTypes'
  BY DEF StoreInvariant, StoreTypes, StepsTo
<1>2. /\ \A q \in StoreRequests : /\ req'[q].call = req[q].call /\ req'[q].overlapped = req[q].overlapped
                                  /\ q # r => (Store!Busy(q)' <=> Store!Busy(q)) /\ (Writing(q)' <=> Writing(q))
                                  /\ Store!Busy(q)' => Store!Busy(q)
                                  /\ Writing(q)' => Writing(q)
  BY DEF StepsTo, Store!Busy, Writing
<1>3. Store!Removed' <=> Store!Removed
  <2>1. req[r].call # "remove" /\ (req[r].pc = "done" => FALSE)
    BY <1>1 DEF OverlapsAreMarked, Store!Mutations, Store!Reads, Store!Busy
  <2> QED
    BY <1>2, <2>1 DEF Store!Removed, StepsTo
<1>4. OverlapsAreMarked'
  <2>1. \A q \in StoreRequests : q # r /\ req[q].pc = "write" => req[q].overlapped \/ disk' = disk
    BY <1>1 DEF OverlapsAreMarked, Store!Busy
  <2>2. \A q \in StoreRequests : req'[q].pc = "write" => req'[q].overlapped \/ disk' = Store!Truncated
    BY <1>1, <1>2, <2>1 DEF OverlapsAreMarked, StepsTo
  <2> QED
    BY <1>1, <1>2, <2>2 DEF OverlapsAreMarked
<1>5. Store!OverlapsTear'
  BY <1>1, <1>2 DEF StoreInvariant, Store!OverlapsTear, OverlapsAreMarked
<1>6. TornForGood => TornForGood'
  BY <1>2 DEF TornForGood
<1>7. \A q \in StoreRequests : MissedForAReason(q)'
  <2>1. ASSUME NEW q \in StoreRequests PROVE MissedForAReason(q)'
    <3>1. MissedForAReason(q)
      BY DEF StoreInvariant
    <3> QED
      BY <1>2, <1>3, <1>6, <3>1 DEF MissedForAReason, StepsTo
  <2> QED
    BY <2>1
<1>8. ASSUME NEW q \in StoreRequests, RemovedAlone(q)'
      PROVE  disk' = Store!NoFile /\ \A s \in StoreRequests : ~Writing(s)'
  <2>1. RemovedAlone(q)
    BY <1>1, <1>2, <1>8 DEF RemovedAlone, StepsTo, OverlapsAreMarked, Store!Mutations, Store!Reads, Store!Busy
  <2> QED
    BY <1>2, <2>1 DEF StoreInvariant
<1>9. ~Store!Removed => \A q \in StoreRequests : req'[q].pc # "unlinked"
  BY DEF StoreInvariant, StepsTo
<1> QED
  BY <1>1, <1>3, <1>4, <1>5, <1>7, <1>8, <1>9 DEF StoreInvariant

(* What the others are about to write is right of what it was right of.      *)
LEMMA DataStaysRight ==
  ASSUME NEW q \in StoreRequests, DataIsRight(q), UNCHANGED <<truth, doubt>>,
         req'[q].data = req[q].data, req'[q].call = req[q].call, req'[q].item = req[q].item
  PROVE  DataIsRight(q)'
BY DEF DataIsRight, Store!Changed

(* The steps of a change after its read: it gives up, opens the file, or     *)
(* writes it.                                                                *)
LEMMA WriterKeeps ==
  ASSUME StoreInvariant, NEW r \in StoreRequests, Store!Write(r)
  PROVE  StoreInvariant'
<1>1. /\ StoreTypes /\ OverlapsAreMarked /\ req[r].pc = "write"
      /\ StepsTo(r, "done", "ok") /\ Store!Busy(r) /\ Writing(r)
      /\ truth' = Store!Altered(truth, req[r].call, req[r].item)
      /\ doubt' = IF req[r].overlapped THEN doubt \cup Store!Changed(r) ELSE doubt \ Store!Changed(r)
  BY StoreRecords DEF Store!Write, StoreInvariant, Store!Busy, Writing
<1>2. /\ disk' = Store!Stored(req[r].data) \/ (disk' = Store!Torn /\ disk # Store!Truncated)
      /\ Store!Stored(req[r].data).items = req[r].data
      /\ Store!Stored(req[r].data) # Store!Torn
  BY DEF Store!Write, Store!Stored, Store!Torn
<1>3. disk' = Store!Torn => req[r].overlapped
  BY <1>1, <1>2 DEF OverlapsAreMarked
<1>4. ASSUME ~Store!Removed PROVE FileIsRight'
  <2>1. \A i \in (Items \ doubt) \cup Store!Changed(r) : Store!Agree(req[r].data, truth', i)
    BY <1>1, <1>4 DEF StoreInvariant, DataIsRight
  <2>2. CASE disk' = Store!Stored(req[r].data)
    BY <1>1, <1>2, <2>1, <2>2 DEF FileIsRight
  <2> QED
    BY <1>2, <2>2 DEF FileIsRight
<1>5. ASSUME ~Store!Removed, NEW q \in StoreRequests, Writing(q)' PROVE DataIsRight(q)'
  <2>1. q # r /\ Writing(q) /\ Store!Busy(q) /\ req'[q] = req[q]
    BY <1>1, <1>5 DEF StepsTo, Writing, Store!Busy
  <2>2. req[r].overlapped /\ doubt' = doubt \cup Store!Changed(r)
    BY <1>1, <2>1 DEF OverlapsAreMarked
  <2>3. DataIsRight(q) /\ req[q].call \in Store!Mutations
    BY <1>1, <1>5, <2>1 DEF StoreInvariant, OverlapsAreMarked
  <2>4. ASSUME NEW i \in (Items \ doubt') \cup Store!Changed(q)
        PROVE  Store!Agree(req[q].data, Store!Altered(truth', req[q].call, req[q].item), i)
    <3>1. Store!Agree(req[q].data, Store!Altered(truth, req[q].call, req[q].item), i)
      BY <2>2, <2>3, <2>4 DEF DataIsRight
    <3>2. \/ Store!Agree(truth, truth', i)
          \/ i = req[q].item /\ req[q].call \in {"add", "update", "delete", "prefer"}
      <4>1. CASE i \in Store!Changed(q)
        BY <2>3, <4>1 DEF Store!Changed, Store!Mutations
      <4>2. CASE i \notin Store!Changed(r)
        <5>1. i # req[r].item \/ req[r].call = "touch"
          BY <4>2 DEF Store!Changed
        <5>2. Store!Agree(Store!Altered(truth, req[r].call, req[r].item), truth, i)
          BY <5>1, AlteredElsewhere
        <5> QED
          BY <1>1, <5>2, AgreeTurns
      <4> QED
        BY <2>2, <2>4, <4>1, <4>2
    <3>3. Store!Agree(Store!Altered(truth, req[q].call, req[q].item), Store!Altered(truth', req[q].call, req[q].item), i)
      BY <3>2, AlteredAgree
    <3> QED
      BY <3>1, <3>3, AgreeComposes
  <2> QED
    BY <2>1, <2>4 DEF DataIsRight, Store!Changed
<1> QED
  BY <1>1, <1>3, <1>4, <1>5, StepKeeps

LEMMA ChangeSteps ==
  ASSUME StoreInvariant, NEW r \in StoreRequests,
         Store!Missing(r) \/ Store!Save(r) \/ Store!Open(r) \/ Store!WriteLost(r)
  PROVE  StoreInvariant'
<1>1. StoreTypes /\ OverlapsAreMarked /\ UNCHANGED <<truth, doubt>> /\ Store!Busy(r)
  BY DEF Store!Missing, Store!Save, Store!Open, Store!WriteLost, StoreInvariant, Store!Busy
<1>2. ~Store!Removed =>
        /\ FileIsRight /\ disk # Store!NoFile
        /\ \A q \in StoreRequests : req[q].pc # "unlinked" /\ (Writing(q) => DataIsRight(q))
  BY DEF StoreInvariant, FileIsRight, Store!Stored, Store!Torn, Store!Truncated, Store!NoFile
<1>3. CASE Store!Missing(r) \/ Store!WriteLost(r) \/ (Store!Save(r) /\ disk = Store!NoFile)
  <2>1. PICK a : /\ StepsTo(r, "done", a) /\ disk' = disk /\ req[r].pc \in {"missing", "unlinked", "save"}
                 /\ a = "ok" \/ Store!Removed \/ req[r].pc = "missing"
    BY <1>1, <1>2, <1>3, StoreRecords DEF Store!Missing, Store!WriteLost, Store!Save
  <2>2. ~Store!Removed => FileIsRight'
    BY <1>1, <1>2, <2>1 DEF FileIsRight, StepsTo
  <2>3. ASSUME ~Store!Removed, NEW q \in StoreRequests, Writing(q)' PROVE DataIsRight(q)'
    <3>1. q # r /\ req'[q] = req[q]
      BY <2>1, <2>3 DEF StepsTo, Writing
    <3> QED
      BY <1>1, <1>2, <2>3, <3>1, DataStaysRight DEF Writing
  <2> QED
    BY <1>1, <2>1, <2>2, <2>3, StepKeeps DEF Store!Torn
<1>4. CASE Store!Open(r) \/ (Store!Save(r) /\ disk # Store!NoFile)
  <2>1. PICK pc \in {"open", "write"} :
          /\ StepsTo(r, pc, req[r].answer) /\ Writing(r)
          /\ IF pc = "write" THEN disk' = Store!Truncated ELSE disk' = disk /\ req[r].pc = "save"
    BY <1>1, <1>4, StoreRecords DEF Store!Open, Store!Save, Writing
  <2>2. ~Store!Removed => FileIsRight'
    <3>1. CASE pc = "write"
      BY <2>1, <3>1 DEF FileIsRight, StepsTo
    <3>2. CASE pc = "open"
      BY <1>1, <1>2, <2>1, <3>2 DEF FileIsRight, StepsTo
    <3> QED
      BY <2>1, <3>1, <3>2
  <2>3. ASSUME ~Store!Removed, NEW q \in StoreRequests, Writing(q)' PROVE DataIsRight(q)'
    <3>1. Writing(q) /\ req'[q].data = req[q].data /\ req'[q].call = req[q].call /\ req'[q].item = req[q].item
      BY <2>1, <2>3 DEF StepsTo, Writing
    <3> QED
      BY <1>1, <1>2, <2>3, <3>1, DataStaysRight
  <2>4. disk' = Store!Torn => disk = Store!Torn
    BY <2>1 DEF Store!Torn, Store!Truncated
  <2> QED
    BY <1>1, <2>1, <2>2, <2>3, <2>4, StepKeeps
<1> QED
  BY <1>3, <1>4 DEF Store!Save

(* The reads change nothing.                                                 *)
LEMMA StoreReadsKeep ==
  ASSUME StoreInvariant, NEW r \in StoreRequests, Store!List(r) \/ Store!Get(r) \/ Store!Preferences(r)
  PROVE  StoreInvariant'
<1>1. PICK a : /\ StepsTo(r, "done", a) /\ req[r].pc = "new" /\ req[r].call \in Store!Reads
               /\ UNCHANGED <<disk, truth, doubt>>
  BY StoreRecords DEF StoreInvariant, Store!List, Store!Get, Store!Preferences, Store!Reads
<1>2. ~Store!Removed => FileIsRight'
  BY <1>1 DEF StoreInvariant, FileIsRight, StepsTo
<1>3. ASSUME ~Store!Removed, NEW q \in StoreRequests, Writing(q)' PROVE DataIsRight(q)'
  <2>1. q # r /\ req'[q] = req[q] /\ Writing(q)
    BY <1>1, <1>3 DEF StepsTo, Writing
  <2> QED
    BY <1>1, <1>3, <2>1, DataStaysRight DEF StoreInvariant
<1>4. req[r].call \notin {"add", "touch", "prefer"}
  BY <1>1 DEF Store!Reads
<1> QED
  BY <1>1, <1>2, <1>3, <1>4, StepKeeps

(* A removal takes the file away from those who write it.                    *)
LEMMA RemoveKeeps ==
  ASSUME StoreInvariant, NEW r \in StoreRequests, Store!Remove(r)
  PROVE  StoreInvariant'
<1>1. StoreTypes /\ OverlapsAreMarked /\ req[r].pc = "new" /\ req[r].call = "remove" /\ disk' = Store!NoFile
  BY DEF Store!Remove, StoreInvariant
<1>2. /\ StoreTypes'
      /\ \A q \in StoreRequests :
           /\ req'[q].call = req[q].call /\ req'[q].overlapped = Store!Overlapping(q, r)
           /\ q # r => req'[q].pc = IF req[q].pc = "write" THEN "unlinked" ELSE req[q].pc
      /\ req'[r].pc = "done"
  BY <1>1 DEF StoreTypes, Store!Remove
<1>3. Store!Removed'
  BY <1>1, <1>2 DEF Store!Removed
<1>4. /\ \A q \in StoreRequests : (Store!Busy(q)' <=> Store!Busy(q)) /\ (Writing(q)' => Writing(q))
      /\ ~Store!Busy(r)
  BY <1>1, <1>2 DEF Store!Busy, Writing
<1>5. /\ \A q \in StoreRequests : req[q].overlapped => req'[q].overlapped
      /\ \A q \in StoreRequests : Store!Busy(q) => req'[q].overlapped /\ req'[r].overlapped
      /\ \A q \in StoreRequests : req'[q].overlapped =>
           req[q].overlapped \/ \E s \in StoreRequests : s # q /\ req'[s].overlapped
  BY <1>1, <1>2, <1>4 DEF Store!Overlapping, Store!Overlaps
<1>6. OverlapsAreMarked'
  <2>1. \A q \in StoreRequests : req'[q].pc # "write"
    BY <1>1, <1>2
  <2>2. \A q \in StoreRequests : req'[q].overlapped => \E s \in StoreRequests : s # q /\ req'[s].overlapped
    BY <1>1, <1>5 DEF OverlapsAreMarked
  <2> QED
    BY <1>1, <1>2, <1>4, <1>5, <2>1, <2>2 DEF OverlapsAreMarked
<1>7. Store!OverlapsTear'
  BY <1>1 DEF Store!OverlapsTear, Store!NoFile, Store!Torn
<1>8. \A q \in StoreRequests : MissedForAReason(q)'
  BY <1>3 DEF MissedForAReason
<1>9. ASSUME NEW q \in StoreRequests, RemovedAlone(q)', NEW s \in StoreRequests PROVE ~Writing(s)'
  <2>1. CASE q = r
    BY <1>4, <1>5, <1>9, <2>1 DEF RemovedAlone, Writing, Store!Busy
  <2>2. CASE q # r
    <3>1. req'[q].answer = req[q].answer
      BY <1>1, <2>2 DEF Store!Remove, StoreTypes
    <3>2. RemovedAlone(q)
      BY <1>2, <1>5, <1>9, <3>1 DEF RemovedAlone
    <3> QED
      BY <1>4, <3>2 DEF StoreInvariant
  <2> QED
    BY <2>1, <2>2
<1> QED
  BY <1>1, <1>2, <1>3, <1>6, <1>7, <1>8, <1>9 DEF StoreInvariant

(* The invariant holds at first ...                                          *)
LEMMA StoreInit == Store!Init => StoreInvariant
<1> SUFFICES ASSUME Store!Init PROVE StoreInvariant
  OBVIOUS
<1>1. /\ disk = Store!Stored(<<>>) /\ truth = <<>>
      /\ DOMAIN req = StoreRequests
      /\ \A r \in StoreRequests :
           /\ DOMAIN req[r] = {"pc", "call", "item", "data", "answer", "overlapped"}
           /\ req[r].pc = "new" /\ req[r].answer = "-" /\ req[r].overlapped = FALSE
  BY DEF Store!Init
<1>2. FileIsRight
  BY <1>1 DEF FileIsRight, Store!Stored, Store!Agree
<1>3. disk # Store!Torn
  BY <1>1 DEF Store!Stored, Store!Torn
<1> QED
  BY <1>1, <1>2, <1>3 DEF StoreInvariant, StoreTypes, OverlapsAreMarked, Store!Busy, Writing, Store!OverlapsTear,
     MissedForAReason, RemovedAlone

(* ... and is kept by every step.                                            *)
LEMMA StorePreserved == StoreInvariant /\ [Store!Next]_(Store!vars) => StoreInvariant'
<1>1. ASSUME StoreInvariant, UNCHANGED Store!vars PROVE StoreInvariant'
  <2>1. UNCHANGED <<disk, req, truth, doubt>>
    BY <1>1 DEF Store!vars
  <2>2. StoreTypes' /\ OverlapsAreMarked' /\ Store!OverlapsTear' /\ (Store!Removed' <=> Store!Removed)
    BY <1>1, <2>1 DEF StoreInvariant, StoreTypes, OverlapsAreMarked, Store!Busy, Store!OverlapsTear, Store!Removed
  <2>3. /\ FileIsRight' <=> FileIsRight
        /\ \A r \in StoreRequests : (Writing(r)' <=> Writing(r)) /\ (RemovedAlone(r)' <=> RemovedAlone(r))
    BY <2>1 DEF FileIsRight, Writing, RemovedAlone
  <2>4. ASSUME NEW r \in StoreRequests, DataIsRight(r) PROVE DataIsRight(r)'
    BY <2>1, <2>4, DataStaysRight
  <2>5. \A r \in StoreRequests : MissedForAReason(r)'
    BY <1>1, <2>1, <2>2, <2>3 DEF StoreInvariant, MissedForAReason, TornForGood
  <2> QED
    BY <1>1, <2>1, <2>2, <2>3, <2>4, <2>5 DEF StoreInvariant
<1> QED
  BY <1>1, LoadKeeps, WriterKeeps, ChangeSteps, StoreReadsKeep, RemoveKeeps DEF Store!Next, Store!Step

(* What a reader of the file can rely on.                                    *)
LEMMA StoreInvariantHoldsItems ==
  StoreInvariant =>
    Store!NothingElseIsLost /\ Store!OverlapsTear /\ Store!OverlapsMissIt /\ Store!RemovedForGood
<1> SUFFICES ASSUME StoreInvariant
             PROVE  Store!NothingElseIsLost /\ Store!OverlapsTear /\ Store!OverlapsMissIt /\ Store!RemovedForGood
  OBVIOUS
<1>1. Store!NothingElseIsLost
  <2>1. Store!Quiet => \A r \in StoreRequests : req[r].pc # "write"
    BY DEF Store!Quiet, Store!Busy
  <2>2. \A c : Store!Stored(c).file = "json"
    BY DEF Store!Stored
  <2> QED
    BY <2>1, <2>2 DEF StoreInvariant, FileIsRight, Store!NothingElseIsLost, Store!Readable
<1>2. Store!OverlapsMissIt
  BY DEF StoreInvariant, MissedForAReason, TornForGood, Store!OverlapsMissIt
<1>3. Store!RemovedForGood
  BY DEF StoreInvariant, RemovedAlone, Store!RemovedForGood
<1> QED
  BY <1>1, <1>2, <1>3 DEF StoreInvariant

(* Any number of requests, each with a store of its own: once they are       *)
(* quiet, the file holds every item whose last change overlapped no other;   *)
(* only changes that overlap tear it or take it for missing, and a removal   *)
(* that met no change is for good.                                           *)
THEOREM WorkspacesKeepItems ==
  Store!Init /\ [][Store!Next]_(Store!vars) =>
    [](Store!NothingElseIsLost /\ Store!OverlapsTear /\ Store!OverlapsMissIt /\ Store!RemovedForGood)
BY StoreInit, StorePreserved, StoreInvariantHoldsItems, PTL

-----------------------------------------------------------------------------
(* Analyses, the decisions made from them and their dates.                   *)
Dated == INSTANCE Intelligence WITH
  resume <- analysis, req <- aiReq, clock <- aiClock, faults <- aiFaults,
  Requests <- AIRequests, MaxClock <- MaxDates, MaxFaults <- MaxAIFaults

(* The types; no date is later than the clock.                               *)
AIRows == [pc : {"new", "listed", "ai", "store", "update"}, kind : Dated!Kinds \cup {"-"}, seen : Nat,
           of : Nat \X Nat, over : BOOLEAN, at : Nat, replace : BOOLEAN]

TalkRows == [at : Nat \ {0}, of : Nat, over : BOOLEAN]
DecisionRows ==
  [at : Nat \ {0}, made : Nat, of : Nat \X Nat, over : BOOLEAN, moved : BOOLEAN]

DatedTypes ==
  /\ aiClock \in Nat /\ edited \in 0..aiClock
  /\ analysis \in [at : Nat] /\ analysis.at =< aiClock
  /\ talk = Dated!None \/ talk \in TalkRows
  /\ talk.at =< aiClock
  /\ dec = Dated!None \/ dec \in DecisionRows
  /\ dec.at =< aiClock
  /\ aiReq \in [AIRequests -> AIRows]
  /\ \A q \in AIRequests : aiReq[q].at =< aiClock
  /\ \A q \in AIRequests : /\ aiReq[q].pc # "new" => aiReq[q].kind # "-"
                           /\ aiReq[q].pc = "listed" => aiReq[q].kind \in Dated!Decisions

(* What was read as "of" and dated "at" is still what there is, unless an    *)
(* analysis was dated later: it is stored, or it will be.                    *)
Untouched(of, at) ==
  /\ analysis.at \in {of[1], 0} \/ analysis.at > at
  /\ talk.at \in {of[2], 0} \/ talk.at > at
  /\ \A p \in AIRequests : aiReq[p].kind \in Dated!Analyses /\ aiReq[p].pc = "store" => aiReq[p].at > at

(* What the inputs of a request are to what there is, if no other changed    *)
(* them under way: those of a decision, and those of an analysis of notes.   *)
DecisionInputs(q) ==
  aiReq[q].kind \in Dated!Decisions /\ ~aiReq[q].over =>
    /\ aiReq[q].pc \in {"listed", "ai"} => aiReq[q].of = <<analysis.at, talk.at>> /\ ~Dated!Storing
    /\ aiReq[q].pc = "store" => Untouched(aiReq[q].of, aiReq[q].at)

NotesInputs(q) ==
  aiReq[q].kind \in {"talk", "again"} /\ ~aiReq[q].over =>
    /\ aiReq[q].pc = "ai" => aiReq[q].of[1] = edited
    /\ aiReq[q].pc = "store" => edited = aiReq[q].of[1] \/ edited > aiReq[q].at

(* And those of the rows they have stored.                                   *)
RowInputs ==
  /\ Dated!Exists(dec) /\ ~dec.over /\ ~dec.moved => Untouched(dec.of, dec.at)
  /\ Dated!Exists(talk) /\ ~talk.over => edited = talk.of \/ edited > talk.at

(* The inductive invariant.                                                  *)
DatedInvariant ==
  /\ DatedTypes /\ RowInputs
  /\ \A q \in AIRequests : aiReq[q].pc = "store" => aiReq[q].at > 0
  /\ \A q \in AIRequests : DecisionInputs(q) /\ NotesInputs(q)

(* What a step of r leaves of the other requests: an analysis that is dated  *)
(* or stored is noticed by the decisions that have read their inputs.        *)
Others(r, taken) ==
  \A q \in AIRequests \ {r} :
    /\ aiReq'[q].pc = aiReq[q].pc /\ aiReq'[q].kind = aiReq[q].kind
    /\ aiReq'[q].of = aiReq[q].of /\ aiReq'[q].at = aiReq[q].at
    /\ aiReq[q].over => aiReq'[q].over
    /\ taken /\ aiReq[q].kind \in Dated!Decisions /\ aiReq[q].pc \in {"listed", "ai"} => aiReq'[q].over

(* A request is done, or reads what it needs.                                *)
LEMMA DatedReads ==
  ASSUME DatedTypes, NEW r \in AIRequests
  PROVE  /\ Dated!Done(r) => /\ aiReq' \in [AIRequests -> AIRows] /\ Others(r, FALSE)
                             /\ aiReq'[r].pc = "new" /\ aiReq'[r].kind = "-" /\ aiReq'[r].at = 0
         /\ \A k \in Dated!Kinds, pc \in {"listed", "ai", "update"}, replace \in BOOLEAN :
              Dated!Reads(r, k, pc, replace) =>
                /\ aiReq' \in [AIRequests -> AIRows] /\ Others(r, FALSE)
                /\ aiReq'[r].pc = pc /\ aiReq'[r].kind = k /\ aiReq'[r].at = 0
                /\ k \in Dated!Decisions => /\ aiReq'[r].of = <<analysis.at, talk.at>>
                                            /\ ~aiReq'[r].over => ~Dated!Storing
                /\ k \notin Dated!Decisions => aiReq'[r].of = <<edited, 0>>
<1>1. ASSUME NEW q \in AIRows, aiReq' = [aiReq EXCEPT ![r] = q]
      PROVE  aiReq' \in [AIRequests -> AIRows] /\ Others(r, FALSE) /\ aiReq'[r] = q
  BY <1>1 DEF DatedTypes, Others
<1>2. Dated!Idle \in AIRows
  BY DEF Dated!Idle, AIRows
<1>3. ASSUME Dated!Done(r)
      PROVE  /\ aiReq' \in [AIRequests -> AIRows] /\ Others(r, FALSE)
             /\ aiReq'[r].pc = "new" /\ aiReq'[r].kind = "-" /\ aiReq'[r].at = 0
  BY <1>1, <1>2, <1>3 DEF Dated!Done, Dated!Idle
<1>4. ASSUME NEW k \in Dated!Kinds, NEW pc \in {"listed", "ai", "update"}, NEW replace \in BOOLEAN,
             Dated!Reads(r, k, pc, replace)
      PROVE  /\ aiReq' \in [AIRequests -> AIRows] /\ Others(r, FALSE)
             /\ aiReq'[r].pc = pc /\ aiReq'[r].kind = k /\ aiReq'[r].at = 0
             /\ k \in Dated!Decisions => /\ aiReq'[r].of = <<analysis.at, talk.at>>
                                         /\ ~aiReq'[r].over => ~Dated!Storing
             /\ k \notin Dated!Decisions => aiReq'[r].of = <<edited, 0>>
  <2> DEFINE seen == CASE k \in {"talk", "again"} -> talk.at
                       [] k = "override" /\ Dated!Exists(dec) -> dec.made [] OTHER -> 0
             of == IF k \in Dated!Decisions THEN <<analysis.at, talk.at>> ELSE <<edited, 0>>
             over == k \in Dated!Decisions /\ Dated!Storing
  <2>1. seen \in Nat
    BY DEF DatedTypes, Dated!Exists, Dated!None, TalkRows, DecisionRows
  <2>2. of \in Nat \X Nat /\ over \in BOOLEAN
    BY DEF DatedTypes, Dated!None, TalkRows, DecisionRows
  <2>3. PICK s \in Nat, o \in Nat \X Nat, v \in BOOLEAN : s = seen /\ o = of /\ v = over
    BY <2>1, <2>2
  <2>4. aiReq' = [aiReq EXCEPT ![r] = [Dated!Idle EXCEPT !.pc = pc, !.kind = k, !.replace = replace,
                                         !.of = o, !.over = v, !.seen = s]]
    BY <1>4, <2>3 DEF Dated!Reads
  <2> HIDE DEF seen, of, over
  <2>5. PICK q : q = [Dated!Idle EXCEPT !.pc = pc, !.kind = k, !.replace = replace,
                                        !.of = o, !.over = v, !.seen = s]
    OBVIOUS
  <2>7. q.pc = pc /\ q.kind = k /\ q.at = 0 /\ q.of = o /\ q.over = v
    BY <2>5 DEF Dated!Idle
  <2>8. q \in AIRows
    BY <2>5 DEF Dated!Idle, AIRows
  <2>6. aiReq' \in [AIRequests -> AIRows] /\ Others(r, FALSE) /\ aiReq'[r] = q
    BY <1>1, <2>4, <2>5, <2>8
  <2> QED
    BY <2>3, <2>6, <2>7 DEF of, over
<1> QED
  BY <1>3, <1>4

(* A row is dated, or stored.                                                *)
LEMMA DatedDates ==
  ASSUME DatedTypes, NEW r \in AIRequests
  PROVE  /\ Dated!Dates(r) =>
              /\ aiReq' \in [AIRequests -> AIRows] /\ Others(r, aiReq[r].kind \in Dated!Analyses)
              /\ aiReq'[r].pc = "store" /\ aiReq'[r].kind = aiReq[r].kind /\ aiReq'[r].of = aiReq[r].of
              /\ aiReq'[r].at = aiClock + 1 /\ aiClock' = aiClock + 1
              /\ aiReq[r].over => aiReq'[r].over
         /\ aiReq' = [Dated!Overtaken(r) EXCEPT ![r] = Dated!Idle] =>
              /\ aiReq' \in [AIRequests -> AIRows] /\ Others(r, aiReq[r].kind \in Dated!Analyses)
              /\ aiReq'[r].pc = "new" /\ aiReq'[r].kind = "-" /\ aiReq'[r].at = 0
<1> DEFINE taken == aiReq[r].kind \in Dated!Analyses
           hit(q) == taken /\ aiReq[q].kind \in Dated!Decisions /\ aiReq[q].pc \in {"listed", "ai"}
<1>1. PICK f : f = Dated!Overtaken(r)
  OBVIOUS
<1>2. /\ f \in [AIRequests -> AIRows]
      /\ \A q \in AIRequests :
           /\ f[q].pc = aiReq[q].pc /\ f[q].kind = aiReq[q].kind /\ f[q].of = aiReq[q].of
           /\ f[q].at = aiReq[q].at /\ (aiReq[q].over => f[q].over) /\ (hit(q) => f[q].over)
  <2>1. \A q \in AIRequests : aiReq[q] \in AIRows
    BY DEF DatedTypes
  <2>2. ASSUME NEW x \in AIRows
        PROVE  /\ [x EXCEPT !.over = TRUE] \in AIRows
               /\ [x EXCEPT !.over = TRUE].pc = x.pc /\ [x EXCEPT !.over = TRUE].kind = x.kind
               /\ [x EXCEPT !.over = TRUE].of = x.of /\ [x EXCEPT !.over = TRUE].at = x.at
               /\ [x EXCEPT !.over = TRUE].over
    BY DEF AIRows
  <2>3. f = [q \in AIRequests |-> IF hit(q) THEN [aiReq[q] EXCEPT !.over = TRUE] ELSE aiReq[q]]
    BY <1>1 DEF Dated!Overtaken
  <2> HIDE DEF hit
  <2> QED
    BY <2>1, <2>2, <2>3
<1>3. ASSUME NEW q \in AIRows, aiReq' = [f EXCEPT ![r] = q]
      PROVE  aiReq' \in [AIRequests -> AIRows] /\ Others(r, taken) /\ aiReq'[r] = q
  BY <1>2, <1>3 DEF Others
<1>4. ASSUME Dated!Dates(r)
      PROVE  /\ aiReq' \in [AIRequests -> AIRows] /\ Others(r, taken)
             /\ aiReq'[r].pc = "store" /\ aiReq'[r].kind = aiReq[r].kind /\ aiReq'[r].of = aiReq[r].of
             /\ aiReq'[r].at = aiClock + 1 /\ aiClock' = aiClock + 1
             /\ aiReq[r].over => aiReq'[r].over
  <2>1. aiReq' = [f EXCEPT ![r].pc = "store", ![r].at = aiClock + 1] /\ aiClock' = aiClock + 1
    BY <1>1, <1>4 DEF Dated!Dates, Dated!Tick
  <2>2. PICK q : q = [f[r] EXCEPT !.pc = "store", !.at = aiClock + 1]
    OBVIOUS
  <2>5. f[r] \in AIRows /\ aiClock + 1 \in Nat
    BY <1>2 DEF DatedTypes
  <2>6. q.pc = "store" /\ q.at = aiClock + 1 /\ q.kind = f[r].kind /\ q.of = f[r].of /\ q.over = f[r].over
    BY <2>2, <2>5 DEF AIRows
  <2>7. q \in AIRows
    BY <2>2, <2>5 DEF AIRows
  <2>3. aiReq' = [f EXCEPT ![r] = q]
    BY <1>2, <2>1, <2>2
  <2>4. aiReq' \in [AIRequests -> AIRows] /\ Others(r, taken) /\ aiReq'[r] = q
    BY <1>3, <2>3, <2>7
  <2> QED
    BY <1>2, <2>1, <2>4, <2>6
<1>5. ASSUME aiReq' = [Dated!Overtaken(r) EXCEPT ![r] = Dated!Idle]
      PROVE  /\ aiReq' \in [AIRequests -> AIRows] /\ Others(r, taken)
             /\ aiReq'[r].pc = "new" /\ aiReq'[r].kind = "-" /\ aiReq'[r].at = 0
  <2>1. Dated!Idle \in AIRows /\ Dated!Idle.pc = "new" /\ Dated!Idle.kind = "-" /\ Dated!Idle.at = 0
    BY DEF Dated!Idle, AIRows
  <2> QED
    BY <1>1, <1>3, <1>5, <2>1
<1> QED
  BY <1>4, <1>5

(* The types of the rows do not depend on requests.                          *)
LEMMA UntouchedKept ==
  ASSUME NEW of, NEW at, Untouched(of, at), NEW r \in AIRequests, NEW taken, Others(r, taken),
         UNCHANGED <<analysis, talk>>,
         aiReq'[r].kind \in Dated!Analyses /\ aiReq'[r].pc = "store" => aiReq'[r].at > at
  PROVE  Untouched(of, at)'
BY DEF Untouched, Others

(* A step that stores nothing and dates nothing.                             *)
LEMMA QuietKeeps ==
  ASSUME DatedInvariant, NEW r \in AIRequests, aiReq' \in [AIRequests -> AIRows], Others(r, FALSE),
         UNCHANGED <<edited, analysis, talk, dec, aiClock>>,
         aiReq'[r].pc # "store", aiReq'[r].at = 0 \/ aiReq'[r].at = aiReq[r].at,
         aiReq'[r].pc # "new" => aiReq'[r].kind # "-",
         aiReq'[r].pc = "listed" => aiReq'[r].kind \in Dated!Decisions,
         aiReq'[r].kind \in Dated!Decisions /\ aiReq'[r].pc \in {"listed", "ai"} /\ ~aiReq'[r].over =>
           aiReq'[r].of = <<analysis.at, talk.at>> /\ ~Dated!Storing,
         aiReq'[r].kind \in {"talk", "again"} /\ aiReq'[r].pc = "ai" /\ ~aiReq'[r].over => aiReq'[r].of[1] = edited
  PROVE  DatedInvariant'
<1>1. DatedTypes'
  BY DEF DatedInvariant, DatedTypes, Others
<1>2. Dated!Storing' => Dated!Storing
  BY DEF Dated!Storing, Others
<1>3. \A of, at : Untouched(of, at) => Untouched(of, at)'
  BY UntouchedKept
<1>4. RowInputs'
  BY <1>3 DEF DatedInvariant, RowInputs, Dated!Exists, Dated!None
<1>5. ASSUME NEW q \in AIRequests
      PROVE  /\ aiReq'[q].pc = "store" => aiReq'[q].at > 0
             /\ DecisionInputs(q)' /\ NotesInputs(q)'
  <2>1. CASE q = r
    BY <1>2, <2>1 DEF DecisionInputs, NotesInputs
  <2>2. CASE q # r
    <3>1. DecisionInputs(q) /\ NotesInputs(q) /\ (aiReq[q].pc = "store" => aiReq[q].at > 0)
      BY DEF DatedInvariant
    <3>2. /\ aiReq'[q].pc = aiReq[q].pc /\ aiReq'[q].kind = aiReq[q].kind
          /\ aiReq'[q].of = aiReq[q].of /\ aiReq'[q].at = aiReq[q].at
          /\ (aiReq[q].over => aiReq'[q].over)
      BY <2>2 DEF Others
    <3>3. Untouched(aiReq[q].of, aiReq[q].at) => Untouched(aiReq[q].of, aiReq[q].at)'
      <4>1. PICK o, a : o = aiReq[q].of /\ a = aiReq[q].at
        OBVIOUS
      <4> QED
        BY <1>3, <3>2, <4>1
    <3>4. DecisionInputs(q)'
      BY <1>2, <3>1, <3>2, <3>3 DEF DecisionInputs
    <3>5. NotesInputs(q)'
      BY <3>1, <3>2 DEF NotesInputs
    <3> QED
      BY <3>1, <3>2, <3>4, <3>5
  <2> QED
    BY <2>1, <2>2
<1> QED
  BY <1>1, <1>4, <1>5 DEF DatedInvariant

(* The steps that read.                                                      *)
LEMMA ReadsKeep ==
  ASSUME DatedInvariant, NEW r \in AIRequests,
         \/ \E k \in Dated!Kinds : Dated!Analyse(r, k) \/ Dated!Decide(r, k)
         \/ Dated!List(r) \/ Dated!Turn(r) \/ Dated!Override(r) \/ Dated!Abort(r)
  PROVE  DatedInvariant'
<1>0. DatedTypes /\ "batch" \in Dated!Kinds /\ "override" \in Dated!Kinds
  BY DEF DatedInvariant, Dated!Kinds
<1>1. UNCHANGED <<edited, analysis, talk, dec, aiClock>>
  BY DEF Dated!Analyse, Dated!Decide, Dated!List, Dated!Turn, Dated!Override, Dated!Abort,
     Dated!RowsKept, Dated!TimeKept
<1>2. CASE Dated!Done(r)
  BY <1>0, <1>1, <1>2, DatedReads, QuietKeeps DEF Dated!Decisions
<1>3. ASSUME NEW k \in Dated!Kinds, NEW pc \in {"listed", "ai", "update"}, NEW replace \in BOOLEAN,
             Dated!Reads(r, k, pc, replace),
             pc = "listed" => k \in Dated!Decisions
      PROVE  DatedInvariant'
  <2>1. /\ aiReq' \in [AIRequests -> AIRows] /\ Others(r, FALSE)
        /\ aiReq'[r].pc = pc /\ aiReq'[r].kind = k /\ aiReq'[r].at = 0
        /\ k \in Dated!Decisions => /\ aiReq'[r].of = <<analysis.at, talk.at>>
                                    /\ ~aiReq'[r].over => ~Dated!Storing
        /\ k \notin Dated!Decisions => aiReq'[r].of = <<edited, 0>>
    BY <1>0, <1>3, DatedReads
  <2>2. k # "-" /\ (k \in {"talk", "again"} => k \notin Dated!Decisions)
    BY DEF Dated!Kinds, Dated!Decisions
  <2>3. k \in {"talk", "again"} => aiReq'[r].of[1] = edited
    BY <2>1, <2>2
  <2>4. /\ aiReq'[r].pc # "store" /\ aiReq'[r].kind # "-"
        /\ aiReq'[r].kind \in Dated!Decisions /\ ~aiReq'[r].over =>
             aiReq'[r].of = <<analysis.at, talk.at>> /\ ~Dated!Storing
    BY <2>1, <2>2
  <2> QED
    BY <1>1, <1>3, <2>1, <2>3, <2>4, QuietKeeps
<1>4. CASE \E k \in Dated!Kinds : Dated!Analyse(r, k)
  BY <1>2, <1>3, <1>4 DEF Dated!Analyse
<1>5. CASE \E k \in Dated!Kinds : Dated!Decide(r, k)
  <2>1. PICK k \in Dated!Kinds : Dated!Decide(r, k)
    BY <1>5
  <2>2. (k = "regenerate" \/ Dated!Exists(dec)) \in BOOLEAN
    BY DEF Dated!Exists
  <2>3. Dated!Done(r) \/ Dated!Reads(r, k, "ai", k = "regenerate" \/ Dated!Exists(dec))
    BY <2>1 DEF Dated!Decide
  <2> QED
    BY <1>2, <1>3, <2>2, <2>3
<1>6. CASE Dated!List(r)
  BY <1>0, <1>2, <1>3, <1>6 DEF Dated!List, Dated!Decisions
<1>7. CASE Dated!Override(r)
  <2>1. PICK pc \in {"update", "ai"} : Dated!Reads(r, "override", pc, FALSE)
    BY <1>7 DEF Dated!Override
  <2> QED
    BY <1>0, <1>3, <2>1
<1>8. CASE Dated!Abort(r)
  BY <1>2, <1>8 DEF Dated!Abort
<1>9. CASE Dated!Turn(r) /\ ~Dated!Done(r)
  <2>1. aiReq' = [aiReq EXCEPT ![r].pc = "ai", ![r].replace = Dated!Exists(dec)] /\ aiReq[r].pc = "listed"
    BY <1>9 DEF Dated!Turn
  <2>2. PICK b \in BOOLEAN : b = Dated!Exists(dec)
    BY DEF Dated!Exists
  <2>3. aiReq[r] \in AIRows
    BY <1>0 DEF DatedTypes
  <2>4. PICK q : q = [aiReq[r] EXCEPT !.pc = "ai", !.replace = b]
    OBVIOUS
  <2>5. q.pc = "ai" /\ q.kind = aiReq[r].kind /\ q.of = aiReq[r].of /\ q.over = aiReq[r].over /\ q.at = aiReq[r].at
    BY <2>3, <2>4 DEF AIRows
  <2>6. q \in AIRows
    BY <2>3, <2>4 DEF AIRows
  <2>7. aiReq' = [aiReq EXCEPT ![r] = q]
    BY <1>0, <2>1, <2>2, <2>4 DEF DatedTypes
  <2>8. aiReq' \in [AIRequests -> AIRows] /\ Others(r, FALSE) /\ aiReq'[r] = q
    BY <1>0, <2>6, <2>7 DEF DatedTypes, Others
  <2>9. DecisionInputs(r) /\ aiReq[r].kind # "-"
    BY <2>1 DEF DatedInvariant, DatedTypes
  <2>10. aiReq[r].kind \in Dated!Decisions /\ aiReq[r].kind \notin {"talk", "again"}
    BY <1>0, <2>1 DEF DatedTypes, Dated!Decisions
  <2>11. ~aiReq[r].over => aiReq[r].of = <<analysis.at, talk.at>> /\ ~Dated!Storing
    BY <2>1, <2>9, <2>10 DEF DecisionInputs
  <2> QED
    BY <1>1, <2>5, <2>8, <2>9, <2>10, <2>11, QuietKeeps
<1> QED
  BY <1>2, <1>4, <1>5, <1>6, <1>7, <1>8, <1>9

(* A date later than all there are: what was untouched stays so.             *)
LEMMA LaterKeeps ==
  ASSUME DatedTypes, NEW of, NEW at \in Nat, at =< aiClock, Untouched(of, at),
         NEW r \in AIRequests, NEW taken, Others(r, taken), aiReq'[r].at = aiClock + 1,
         analysis'.at \in {analysis.at, 0}, talk'.at \in {talk.at, 0}
  PROVE  Untouched(of, at)'
<1>1. analysis'.at \in {of[1], 0} \/ analysis'.at > at
  BY DEF Untouched
<1>2. talk'.at \in {of[2], 0} \/ talk'.at > at
  BY DEF Untouched
<1>3. aiClock + 1 > at
  BY DEF DatedTypes
<1>4. \A p \in AIRequests : aiReq'[p].kind \in Dated!Analyses /\ aiReq'[p].pc = "store" => aiReq'[p].at > at
  BY <1>3 DEF Untouched, Others
<1> QED
  BY <1>1, <1>2, <1>4 DEF Untouched

(* The provider has answered: the old row goes, and the date is taken.       *)
LEMMA DeleteKeeps ==
  ASSUME DatedInvariant, NEW r \in AIRequests, Dated!DeleteOld(r)
  PROVE  DatedInvariant'
<1>0. DatedTypes /\ aiReq[r].pc = "ai" /\ edited' = edited
  BY DEF DatedInvariant, Dated!DeleteOld
<1>1. CASE Dated!Done(r) /\ UNCHANGED <<analysis, talk, dec, aiClock>>
  BY <1>0, <1>1, DatedReads, QuietKeeps DEF Dated!Decisions
<1>2. CASE /\ Dated!Dates(r)
           /\ analysis' \in {analysis, Dated!None} /\ talk' \in {talk, Dated!None} /\ dec' \in {dec, Dated!None}
           /\ aiReq[r].kind \notin Dated!Analyses => analysis' = analysis /\ talk' = talk
  <2> DEFINE taken == aiReq[r].kind \in Dated!Analyses
  <2>1. /\ aiReq' \in [AIRequests -> AIRows] /\ Others(r, taken)
        /\ aiReq'[r].pc = "store" /\ aiReq'[r].kind = aiReq[r].kind /\ aiReq'[r].of = aiReq[r].of
        /\ aiReq'[r].at = aiClock + 1 /\ aiClock' = aiClock + 1
        /\ aiReq[r].over => aiReq'[r].over
    BY <1>0, <1>2, DatedDates
  <2>2. DatedTypes'
    <3>1. aiClock' \in Nat /\ edited' \in 0..aiClock' /\ \A x \in Nat : x =< aiClock => x =< aiClock'
      BY <1>0, <2>1 DEF DatedTypes
    <3>2. Dated!None = [at |-> 0] /\ Dated!None.at = 0 /\ Dated!None \in [at : Nat]
      BY DEF Dated!None
    <3>3. analysis' \in [at : Nat] /\ analysis'.at =< aiClock'
      BY <1>0, <1>2, <3>1, <3>2 DEF DatedTypes
    <3>4. talk' = Dated!None \/ talk' \in TalkRows
      BY <1>0, <1>2 DEF DatedTypes
    <3>5. talk.at \in Nat /\ dec.at \in Nat
      BY <1>0, <3>2 DEF DatedTypes, TalkRows, DecisionRows
    <3>6. talk'.at =< aiClock' /\ dec'.at =< aiClock'
      BY <1>0, <1>2, <3>1, <3>2, <3>5 DEF DatedTypes
    <3>7. dec' = Dated!None \/ dec' \in DecisionRows
      BY <1>0, <1>2 DEF DatedTypes
    <3>8. \A q \in AIRequests : aiReq'[q].at =< aiClock'
      BY <1>0, <2>1, <3>1 DEF DatedTypes, Others, AIRows
    <3>9. \A q \in AIRequests : /\ aiReq'[q].pc # "new" => aiReq'[q].kind # "-"
                                /\ aiReq'[q].pc = "listed" => aiReq'[q].kind \in Dated!Decisions
      BY <1>0, <2>1 DEF DatedTypes, Others
    <3> QED
      BY <2>1, <3>1, <3>3, <3>4, <3>6, <3>7, <3>8, <3>9 DEF DatedTypes
  <2>3. analysis'.at \in {analysis.at, 0} /\ talk'.at \in {talk.at, 0}
    BY <1>2 DEF Dated!None
  <2>4. \A of : \A at \in Nat : at =< aiClock /\ Untouched(of, at) => Untouched(of, at)'
    BY <1>0, <2>1, <2>3, LaterKeeps
  <2>5. RowInputs'
    <3>1. ASSUME Dated!Exists(dec)', ~dec'.over, ~dec'.moved PROVE Untouched(dec.of, dec.at)'
      <4>1. dec' = dec
        BY <1>2, <3>1 DEF Dated!Exists
      <4>2. PICK o, a : o = dec.of /\ a = dec.at
        OBVIOUS
      <4>3. Untouched(o, a) /\ a \in Nat /\ a =< aiClock
        BY <1>0, <3>1, <4>1, <4>2 DEF DatedInvariant, RowInputs, Dated!Exists, DatedTypes, DecisionRows
      <4> QED
        BY <2>4, <4>1, <4>2, <4>3
    <3>2. ASSUME Dated!Exists(talk)', ~talk'.over PROVE edited' = talk'.of \/ edited' > talk'.at
      BY <1>0, <1>2, <3>2 DEF DatedInvariant, RowInputs, Dated!Exists
    <3> QED
      BY <3>1, <3>2 DEF RowInputs
  <2>6. ASSUME NEW q \in AIRequests \ {r}
        PROVE  (aiReq'[q].pc = "store" => aiReq'[q].at > 0) /\ DecisionInputs(q)' /\ NotesInputs(q)'
    <3>1. DecisionInputs(q) /\ NotesInputs(q) /\ (aiReq[q].pc = "store" => aiReq[q].at > 0)
      BY DEF DatedInvariant
    <3>2. /\ aiReq'[q].pc = aiReq[q].pc /\ aiReq'[q].kind = aiReq[q].kind
          /\ aiReq'[q].of = aiReq[q].of /\ aiReq'[q].at = aiReq[q].at
          /\ (aiReq[q].over => aiReq'[q].over)
          /\ taken /\ aiReq[q].kind \in Dated!Decisions /\ aiReq[q].pc \in {"listed", "ai"} => aiReq'[q].over
      BY <2>1 DEF Others
    <3>3. PICK o, a : o = aiReq[q].of /\ a = aiReq[q].at
      OBVIOUS
    <3>4. a \in Nat /\ a =< aiClock
      BY <1>0, <3>3 DEF DatedTypes, AIRows
    <3>5. Untouched(o, a) => Untouched(o, a)'
      BY <2>4, <3>4
    <3>6. ~taken => (Dated!Storing' => Dated!Storing) /\ analysis' = analysis /\ talk' = talk
      BY <1>2, <2>1 DEF Dated!Storing, Others
    <3>7. DecisionInputs(q)'
      BY <3>1, <3>2, <3>3, <3>5, <3>6 DEF DecisionInputs
    <3>8. NotesInputs(q)'
      BY <1>0, <3>1, <3>2 DEF NotesInputs
    <3> QED
      BY <3>1, <3>2, <3>7, <3>8
  <2>7. aiReq'[r].at > 0 /\ DecisionInputs(r)' /\ NotesInputs(r)'
    <3>1. DecisionInputs(r) /\ NotesInputs(r) /\ aiReq[r].pc = "ai"
      BY <1>0 DEF DatedInvariant
    <3>2. aiClock + 1 > 0 /\ aiClock + 1 > edited
      BY <1>0 DEF DatedTypes
    <3>3. NotesInputs(r)'
      BY <1>0, <2>1, <3>1 DEF NotesInputs
    <3>4. ASSUME aiReq'[r].kind \in Dated!Decisions, ~aiReq'[r].over
          PROVE  Untouched(aiReq[r].of, aiReq[r].at)'
      <4>1. aiReq[r].kind \in Dated!Decisions /\ ~aiReq[r].over /\ ~taken
        BY <2>1, <3>4 DEF Dated!Decisions, Dated!Analyses
      <4>2. aiReq[r].of = <<analysis.at, talk.at>> /\ ~Dated!Storing
        BY <1>0, <3>1, <4>1 DEF DecisionInputs
      <4>3. aiReq'[r].of[1] = analysis'.at /\ aiReq'[r].of[2] = talk'.at
        BY <1>2, <2>1, <4>1, <4>2
      <4>4. \A p \in AIRequests : ~(aiReq'[p].kind \in Dated!Analyses /\ aiReq'[p].pc = "store")
        BY <2>1, <4>1, <4>2 DEF Dated!Storing, Others
      <4> QED
        BY <4>3, <4>4 DEF Untouched
    <3>5. DecisionInputs(r)'
      BY <2>1, <3>4 DEF DecisionInputs
    <3> QED
      BY <2>1, <3>2, <3>3, <3>5
  <2> QED
    BY <2>2, <2>5, <2>6, <2>7 DEF DatedInvariant
<1>3. \/ Dated!Done(r) /\ UNCHANGED <<analysis, talk, dec, aiClock>>
      \/ /\ Dated!Dates(r)
         /\ analysis' \in {analysis, Dated!None} /\ talk' \in {talk, Dated!None} /\ dec' \in {dec, Dated!None}
         /\ aiReq[r].kind \notin Dated!Analyses => analysis' = analysis /\ talk' = talk
  <2>1. CASE aiReq[r].kind = "resume"
    BY <2>1 DEF Dated!DeleteOld, Dated!Analyses
  <2>2. CASE aiReq[r].kind \in {"talk", "again"}
    BY <2>2 DEF Dated!DeleteOld, Dated!Analyses
  <2>3. CASE aiReq[r].kind \notin {"resume", "talk", "again"}
    BY <2>3 DEF Dated!DeleteOld, Dated!Analyses
  <2> QED
    BY <2>1, <2>2, <2>3
<1> QED
  BY <1>1, <1>2, <1>3

(* The row is stored, unless another request was faster.                     *)
LEMMA StoreKeeps ==
  ASSUME DatedInvariant, NEW r \in AIRequests, Dated!Store(r)
  PROVE  DatedInvariant'
<1> DEFINE taken == aiReq[r].kind \in Dated!Analyses
           x == aiReq[r]
<1>0. DatedTypes /\ x.pc = "store" /\ x \in AIRows /\ x.at =< aiClock /\ x.at > 0
      /\ aiClock' = aiClock /\ edited' = edited
  BY DEF DatedInvariant, DatedTypes, Dated!Store, Dated!TimeKept
<1>1. /\ aiReq' \in [AIRequests -> AIRows] /\ Others(r, taken)
      /\ aiReq'[r].pc = "new" /\ aiReq'[r].kind = "-" /\ aiReq'[r].at = 0
  BY <1>0, DatedDates DEF Dated!Store
<1>2. /\ analysis' # analysis => taken /\ analysis' = [at |-> x.at]
      /\ talk' # talk => /\ taken /\ x.kind \in {"talk", "again"}
                         /\ talk' = [at |-> x.at, of |-> x.of[1], over |-> x.over]
      /\ dec' # dec => /\ ~taken
                       /\ dec' = [at |-> x.at, made |-> x.at, of |-> x.of, over |-> x.over, moved |-> x.kind = "override"]
  <2>1. CASE x.kind = "resume"
    BY <2>1 DEF Dated!Store, Dated!Analyses
  <2>2. CASE x.kind \in {"talk", "again"}
    BY <2>2 DEF Dated!Store, Dated!Analyses
  <2>3. CASE x.kind \notin {"resume", "talk", "again"}
    BY <2>3 DEF Dated!Store, Dated!Analyses
  <2> QED
    BY <2>1, <2>2, <2>3
<1>3. x.of \in Nat \X Nat /\ x.of[1] \in Nat /\ x.over \in BOOLEAN /\ x.at \in Nat \ {0}
  BY <1>0 DEF AIRows
<1> HIDE DEF x
<1>4. DatedTypes'
  <2>1. analysis' \in [at : Nat] /\ analysis'.at =< aiClock'
    BY <1>0, <1>2, <1>3 DEF DatedTypes
  <2>2. (talk' = Dated!None \/ talk' \in TalkRows) /\ talk'.at =< aiClock'
    <3>1. [at |-> x.at, of |-> x.of[1], over |-> x.over] \in TalkRows
      BY <1>3 DEF TalkRows
    <3> QED
      BY <1>0, <1>2, <3>1 DEF DatedTypes
  <2>3. (dec' = Dated!None \/ dec' \in DecisionRows) /\ dec'.at =< aiClock'
    <3>1. CASE dec' = dec
      BY <1>0, <3>1 DEF DatedTypes
    <3>2. CASE dec' # dec
      <4>1. PICK m \in BOOLEAN : m = (x.kind = "override")
        OBVIOUS
      <4>2. dec' = [at |-> x.at, made |-> x.at, of |-> x.of, over |-> x.over, moved |-> m]
        BY <1>2, <3>2, <4>1
      <4>3. dec' \in DecisionRows
        BY <1>3, <4>2 DEF DecisionRows
      <4>4. dec'.at = x.at
        BY <4>2
      <4> QED
        BY <1>0, <4>3, <4>4
    <3> QED
      BY <3>1, <3>2
  <2>4. \A q \in AIRequests : aiReq'[q].at =< aiClock'
    BY <1>0, <1>1 DEF DatedTypes, Others, AIRows
  <2>5. \A q \in AIRequests : /\ aiReq'[q].pc # "new" => aiReq'[q].kind # "-"
                              /\ aiReq'[q].pc = "listed" => aiReq'[q].kind \in Dated!Decisions
    BY <1>0, <1>1 DEF DatedTypes, Others
  <2> QED
    BY <1>0, <1>1, <2>1, <2>2, <2>3, <2>4, <2>5 DEF DatedTypes
<1>5. ASSUME NEW of, NEW at \in Nat, Untouched(of, at) PROVE Untouched(of, at)'
  <2>1. taken => x.at > at
    BY <1>0, <1>5 DEF Untouched, x
  <2>2. analysis'.at \in {of[1], 0} \/ analysis'.at > at
    BY <1>2, <1>5, <2>1 DEF Untouched
  <2>3. talk'.at \in {of[2], 0} \/ talk'.at > at
    BY <1>2, <1>5, <2>1 DEF Untouched
  <2>4. \A p \in AIRequests : aiReq'[p].kind \in Dated!Analyses /\ aiReq'[p].pc = "store" => aiReq'[p].at > at
    BY <1>1, <1>5 DEF Untouched, Others
  <2> QED
    BY <2>2, <2>3, <2>4 DEF Untouched
<1>6. RowInputs'
  <2>1. ASSUME Dated!Exists(dec)', ~dec'.over, ~dec'.moved PROVE Untouched(dec.of, dec.at)'
    <3>1. PICK o, a : o = dec'.of /\ a = dec'.at
      OBVIOUS
    <3>2. CASE dec' = dec
      <4>1. Untouched(o, a) /\ a \in Nat
        BY <1>0, <2>1, <3>1, <3>2 DEF DatedInvariant, RowInputs, Dated!Exists, DatedTypes, DecisionRows
      <4> QED
        BY <1>5, <3>1, <4>1
    <3>3. CASE dec' # dec
      <4>1. ~taken /\ o = x.of /\ a = x.at /\ ~x.over /\ x.kind # "override"
        <5>1. ~taken /\ dec' = [at |-> x.at, made |-> x.at, of |-> x.of, over |-> x.over, moved |-> x.kind = "override"]
          BY <1>2, <3>3
        <5>2. dec'.of = x.of /\ dec'.at = x.at /\ dec'.over = x.over /\ dec'.moved = (x.kind = "override")
          BY <5>1
        <5> QED
          BY <2>1, <3>1, <5>1, <5>2
      <4>2. x.kind \in Dated!Decisions
        BY <1>0, <4>1 DEF DatedTypes, AIRows, Dated!Kinds, Dated!Decisions, Dated!Analyses, x
      <4>3. Untouched(o, a)
        BY <1>0, <4>1, <4>2 DEF DatedInvariant, DecisionInputs, x
      <4> QED
        BY <1>3, <1>5, <3>1, <4>1, <4>3
    <3> QED
      BY <3>2, <3>3
  <2>2. ASSUME Dated!Exists(talk)', ~talk'.over PROVE edited' = talk'.of \/ edited' > talk'.at
    <3>1. CASE talk' = talk
      BY <1>0, <2>2, <3>1 DEF DatedInvariant, RowInputs, Dated!Exists
    <3>2. CASE talk' # talk
      <4>1. x.kind \in {"talk", "again"} /\ ~x.over /\ talk'.of = x.of[1] /\ talk'.at = x.at
        BY <1>2, <2>2, <3>2
      <4> QED
        BY <1>0, <4>1 DEF DatedInvariant, NotesInputs, x
    <3> QED
      BY <3>1, <3>2
  <2> QED
    BY <2>1, <2>2 DEF RowInputs
<1>7. ASSUME NEW q \in AIRequests \ {r}
      PROVE  (aiReq'[q].pc = "store" => aiReq'[q].at > 0) /\ DecisionInputs(q)' /\ NotesInputs(q)'
  <2>1. DecisionInputs(q) /\ NotesInputs(q) /\ (aiReq[q].pc = "store" => aiReq[q].at > 0)
    BY DEF DatedInvariant
  <2>2. /\ aiReq'[q].pc = aiReq[q].pc /\ aiReq'[q].kind = aiReq[q].kind
        /\ aiReq'[q].of = aiReq[q].of /\ aiReq'[q].at = aiReq[q].at
        /\ (aiReq[q].over => aiReq'[q].over)
        /\ taken /\ aiReq[q].kind \in Dated!Decisions /\ aiReq[q].pc \in {"listed", "ai"} => aiReq'[q].over
    BY <1>1 DEF Others
  <2>3. PICK o, a : o = aiReq[q].of /\ a = aiReq[q].at
    OBVIOUS
  <2>4. Untouched(o, a) => Untouched(o, a)'
    BY <1>0, <1>5, <2>3 DEF DatedTypes, AIRows
  <2>5. ~taken => (Dated!Storing' => Dated!Storing) /\ analysis' = analysis /\ talk' = talk
    BY <1>1, <1>2 DEF Dated!Storing, Others
  <2>6. DecisionInputs(q)'
    BY <2>1, <2>2, <2>3, <2>4, <2>5 DEF DecisionInputs
  <2>7. NotesInputs(q)'
    BY <1>0, <2>1, <2>2 DEF NotesInputs
  <2> QED
    BY <2>1, <2>2, <2>6, <2>7
<1>8. DecisionInputs(r)' /\ NotesInputs(r)'
  BY <1>1 DEF DecisionInputs, NotesInputs, Dated!Decisions
<1> QED
  BY <1>1, <1>4, <1>6, <1>7, <1>8 DEF DatedInvariant

(* A recruiter's override dates the decision anew; the notes are edited.     *)
LEMMA UpdateKeeps ==
  ASSUME DatedInvariant, NEW r \in AIRequests, Dated!Update(r)
  PROVE  DatedInvariant'
<1>0. /\ DatedTypes /\ aiClock' = aiClock + 1 /\ UNCHANGED <<edited, analysis, talk>>
      /\ aiReq' \in [AIRequests -> AIRows] /\ Others(r, FALSE)
      /\ aiReq'[r].pc = "new" /\ aiReq'[r].kind = "-" /\ aiReq'[r].at = 0
  BY DatedReads DEF DatedInvariant, Dated!Update, Dated!Tick
<1>1. \/ dec' = dec
      \/ dec # Dated!None /\ dec' = [dec EXCEPT !.at = aiClock + 1, !.moved = TRUE]
  BY DEF Dated!Update, Dated!Exists
<1>2. (dec' = Dated!None \/ dec' \in DecisionRows) /\ dec'.at =< aiClock' /\ (dec' = dec \/ dec'.moved)
  <2>1. CASE dec' = dec
    BY <1>0, <2>1 DEF DatedTypes, DecisionRows, Dated!None
  <2>2. CASE dec # Dated!None /\ dec' = [dec EXCEPT !.at = aiClock + 1, !.moved = TRUE]
    <3>1. dec \in DecisionRows /\ aiClock + 1 \in Nat \ {0}
      BY <1>0, <2>2 DEF DatedTypes
    <3>2. dec' \in DecisionRows
      BY <2>2, <3>1 DEF DecisionRows
    <3>3. dec'.at = aiClock + 1 /\ dec'.moved
      BY <2>2, <3>1 DEF DecisionRows
    <3> QED
      BY <1>0, <3>2, <3>3
  <2> QED
    BY <1>1, <2>1, <2>2
<1>3. DatedTypes'
  <2>1. aiClock' \in Nat /\ aiClock =< aiClock'
    BY <1>0 DEF DatedTypes
  <2>2. \A q \in AIRequests :
          /\ aiReq'[q].at =< aiClock' /\ (aiReq'[q].pc # "new" => aiReq'[q].kind # "-")
          /\ aiReq'[q].pc = "listed" => aiReq'[q].kind \in Dated!Decisions
    BY <1>0, <2>1 DEF DatedTypes, Others, AIRows
  <2>3. /\ edited' \in 0..aiClock' /\ analysis'.at =< aiClock' /\ talk'.at =< aiClock'
        /\ analysis' \in [at : Nat] /\ (talk' = Dated!None \/ talk' \in TalkRows)
    BY <1>0, <2>1 DEF DatedTypes, TalkRows, Dated!None
  <2> QED
    BY <1>0, <1>2, <2>1, <2>2, <2>3 DEF DatedTypes
<1>4. \A of, at : Untouched(of, at) => Untouched(of, at)'
  BY <1>0 DEF Untouched, Others, Dated!Analyses
<1>5. RowInputs'
  BY <1>0, <1>2, <1>4 DEF DatedInvariant, RowInputs, Dated!Exists
<1>6. Dated!Storing' => Dated!Storing
  BY <1>0 DEF Dated!Storing, Others
<1>7. ASSUME NEW q \in AIRequests
      PROVE  (aiReq'[q].pc = "store" => aiReq'[q].at > 0) /\ DecisionInputs(q)' /\ NotesInputs(q)'
  <2>1. CASE q = r
    BY <1>0, <2>1 DEF DecisionInputs, NotesInputs, Dated!Decisions
  <2>2. CASE q # r
    <3>1. DecisionInputs(q) /\ NotesInputs(q) /\ (aiReq[q].pc = "store" => aiReq[q].at > 0)
      BY DEF DatedInvariant
    <3>2. /\ aiReq'[q].pc = aiReq[q].pc /\ aiReq'[q].kind = aiReq[q].kind
          /\ aiReq'[q].of = aiReq[q].of /\ aiReq'[q].at = aiReq[q].at
          /\ (aiReq[q].over => aiReq'[q].over)
      BY <1>0, <2>2 DEF Others
    <3>3. PICK o, a : o = aiReq[q].of /\ a = aiReq[q].at
      OBVIOUS
    <3>4. DecisionInputs(q)'
      BY <1>0, <1>4, <1>6, <3>1, <3>2, <3>3 DEF DecisionInputs
    <3>5. NotesInputs(q)'
      BY <1>0, <3>1, <3>2 DEF NotesInputs
    <3> QED
      BY <3>1, <3>2, <3>4, <3>5
  <2> QED
    BY <2>1, <2>2
<1> QED
  BY <1>3, <1>5, <1>7 DEF DatedInvariant

(* The notes are edited: what is being made from them is of older ones.      *)
LEMMA EditKeeps ==
  ASSUME DatedInvariant, Dated!Edit
  PROVE  DatedInvariant'
<1>0. DatedTypes /\ aiClock' = aiClock + 1 /\ edited' = aiClock + 1 /\ UNCHANGED <<analysis, talk, dec>>
  BY DEF DatedInvariant, Dated!Edit, Dated!Tick
<1>1. \A y \in AIRows : /\ [y EXCEPT !.over = TRUE] \in AIRows
                        /\ [y EXCEPT !.over = TRUE].pc = y.pc /\ [y EXCEPT !.over = TRUE].kind = y.kind
                        /\ [y EXCEPT !.over = TRUE].of = y.of /\ [y EXCEPT !.over = TRUE].at = y.at
                        /\ [y EXCEPT !.over = TRUE].over
  BY DEF AIRows
<1>2. /\ aiReq' \in [AIRequests -> AIRows]
      /\ \A q \in AIRequests :
           /\ aiReq'[q].pc = aiReq[q].pc /\ aiReq'[q].kind = aiReq[q].kind
           /\ aiReq'[q].of = aiReq[q].of /\ aiReq'[q].at = aiReq[q].at /\ (aiReq[q].over => aiReq'[q].over)
           /\ aiReq[q].kind \in {"talk", "again"} /\ aiReq[q].pc = "ai" => aiReq'[q].over
  <2>1. aiReq \in [AIRequests -> AIRows]
    BY <1>0 DEF DatedTypes
  <2>2. aiReq' = [q \in AIRequests |->
                    IF aiReq[q].kind \in {"talk", "again"} /\ aiReq[q].pc = "ai"
                      THEN [aiReq[q] EXCEPT !.over = TRUE] ELSE aiReq[q]]
    BY DEF Dated!Edit
  <2> QED
    BY <1>1, <2>1, <2>2
<1>3. DatedTypes'
  <2>1. \A q \in AIRequests : aiReq'[q].at =< aiClock'
    BY <1>0, <1>2 DEF DatedTypes, AIRows
  <2>2. \A q \in AIRequests : /\ aiReq'[q].pc # "new" => aiReq'[q].kind # "-"
                              /\ aiReq'[q].pc = "listed" => aiReq'[q].kind \in Dated!Decisions
    BY <1>0, <1>2 DEF DatedTypes
  <2>3. analysis.at \in Nat /\ talk.at \in Nat /\ dec.at \in Nat
    BY <1>0 DEF DatedTypes, TalkRows, DecisionRows, Dated!None
  <2> QED
    BY <1>0, <1>2, <2>1, <2>2, <2>3 DEF DatedTypes
<1>4. \A of, at : Untouched(of, at) => Untouched(of, at)'
  BY <1>0, <1>2 DEF Untouched
<1>5. RowInputs'
  <2>1. talk.at \in Nat /\ talk.at < aiClock + 1
    BY <1>0 DEF DatedTypes, TalkRows, Dated!None
  <2> QED
    BY <1>0, <1>4, <2>1 DEF DatedInvariant, RowInputs, Dated!Exists
<1>6. Dated!Storing' => Dated!Storing
  BY <1>2 DEF Dated!Storing
<1>7. ASSUME NEW q \in AIRequests
      PROVE  (aiReq'[q].pc = "store" => aiReq'[q].at > 0) /\ DecisionInputs(q)' /\ NotesInputs(q)'
  <2>1. DecisionInputs(q) /\ NotesInputs(q) /\ (aiReq[q].pc = "store" => aiReq[q].at > 0)
    BY DEF DatedInvariant
  <2>2. PICK o, a : o = aiReq[q].of /\ a = aiReq[q].at
    OBVIOUS
  <2>3. DecisionInputs(q)'
    BY <1>0, <1>2, <1>4, <1>6, <2>1, <2>2 DEF DecisionInputs
  <2>4. aiReq[q].at \in Nat /\ aiReq[q].at < aiClock + 1
    BY <1>0 DEF DatedTypes, AIRows
  <2>5. NotesInputs(q)'
    BY <1>0, <1>2, <2>4 DEF NotesInputs
  <2> QED
    BY <1>2, <2>1, <2>3, <2>5
<1> QED
  BY <1>3, <1>5, <1>7 DEF DatedInvariant

(* The invariant holds at first ...                                          *)
LEMMA DatedInit == Dated!Init => DatedInvariant
<1> SUFFICES ASSUME Dated!Init PROVE DatedInvariant
  OBVIOUS
<1>1. Dated!Idle \in AIRows /\ Dated!Idle.pc = "new" /\ Dated!Idle.kind = "-" /\ Dated!Idle.at = 0
  BY DEF Dated!Idle, AIRows
<1> QED
  BY <1>1 DEF Dated!Init, DatedInvariant, DatedTypes, RowInputs, DecisionInputs, NotesInputs, Dated!Exists,
     Dated!None, Dated!Decisions

(* ... and is kept by every step.                                            *)
LEMMA DatedPreserved == DatedInvariant /\ [Dated!Next]_(Dated!vars) => DatedInvariant'
<1>1. DatedInvariant /\ UNCHANGED Dated!vars => DatedInvariant'
  BY DEF Dated!vars, DatedInvariant, DatedTypes, RowInputs, DecisionInputs, NotesInputs, Untouched, Dated!Exists,
     Dated!None, Dated!Storing
<1> QED
  BY <1>1, ReadsKeep, DeleteKeeps, StoreKeeps, UpdateKeeps, EditKeeps DEF Dated!Next

(* A row that is not reported stale was made from what there is.             *)
LEMMA DatedInvariantReports == DatedInvariant => Dated!StaleIsReported
<1> SUFFICES ASSUME DatedInvariant PROVE Dated!StaleIsReported
  OBVIOUS
<1>0. /\ DatedTypes /\ analysis.at \in Nat /\ talk.at \in Nat /\ dec.at \in Nat
      /\ Dated!Exists(analysis) => analysis.at # 0
      /\ Dated!Exists(talk) => talk.at # 0
  BY DEF DatedInvariant, DatedTypes, TalkRows, DecisionRows, Dated!None, Dated!Exists
<1>1. ASSUME Dated!Exists(dec), ~Dated!Stale(dec, analysis.at), ~dec.over, ~dec.moved
      PROVE  /\ Dated!Exists(analysis) => analysis.at = dec.of[1]
             /\ Dated!Exists(talk) => talk.at = dec.of[2]
  BY <1>0, <1>1 DEF DatedInvariant, RowInputs, Untouched, Dated!Stale
<1>2. ASSUME Dated!Exists(talk), ~(edited > talk.at), ~talk.over PROVE talk.of = edited
  BY <1>0, <1>2 DEF DatedInvariant, RowInputs
<1> QED
  BY <1>1, <1>2 DEF Dated!StaleIsReported

(* However analyses, decisions, overrides and edits interleave and fail: a   *)
(* decision that is not reported stale has taken every stored analysis into  *)
(* account, and an interview analysis that is not was made from the notes    *)
(* there are.                                                                *)
THEOREM StaleRowsAreReported ==
  Dated!Init /\ [][Dated!Next]_(Dated!vars) => []Dated!StaleIsReported
BY DatedInit, DatedPreserved, DatedInvariantReports, PTL

-----------------------------------------------------------------------------
(* Public applications, their rows, files and jobs.                          *)
Applied == INSTANCE PublicApply WITH Jobs <- FormJobs

(* No form is called like a row that no form has made.                       *)
ApplyConstants == "nobody" \notin Forms /\ "staff" \notin Forms

(* A transaction has committed.                                              *)
Committed == {"committed", "ok", "late", "unqueued", "dead"}

(* A form: its file is there from the upload to its failure, and what it has *)
(* committed stays the application of its job.                               *)
FormHolds(r) ==
  /\ form[r].pc \in {"new", "stored", "looked", "flushed", "checked", "failed"} \cup Committed
  /\ form[r].pc # "late" => (r \in files <=> form[r].pc \notin {"new", "failed"})
  /\ form[r].pc \notin {"new", "failed"} => form[r].job \in FormJobs
  /\ form[r].pc \in Committed \ {"dead"} => apps[form[r].job] = r
  /\ form[r].pc = "ok" => form[r].job \in queued

(* The inductive invariant.                                                  *)
ApplyInvariant ==
  /\ DOMAIN form = Forms /\ DOMAIN apps = FormJobs
  /\ \A r \in Forms : DOMAIN form[r] = {"pc", "job", "known"} /\ FormHolds(r)
  /\ cand \in Forms => form[cand].pc \in Committed
  /\ \A j \in FormJobs : apps[j] \in Forms => form[apps[j]].pc \in Committed

(* Form r goes to pc, the others stay where they are.                        *)
FormTo(r, pc) ==
  /\ DOMAIN form' = Forms
  /\ \A q \in Forms : DOMAIN form'[q] = {"pc", "job", "known"}
  /\ \A q \in Forms \ {r} : form'[q] = form[q]
  /\ form'[r].pc = pc

(* How a form steps.                                                         *)
LEMMA FormGoes ==
  ASSUME ApplyInvariant, NEW r \in Forms, NEW pc, Applied!Goes(r, pc)
  PROVE  FormTo(r, pc) /\ form'[r].job = form[r].job
BY DEF ApplyInvariant, FormTo, Applied!Goes

(* A step of one form keeps the invariant if it holds of this form, and if   *)
(* the form names itself only after its commit.                              *)
LEMMA FormMoves ==
  ASSUME ApplyConstants, ApplyInvariant, NEW r \in Forms, NEW pc, FormTo(r, pc), FormHolds(r)',
         \A q \in Forms \ {r} : q \in files' <=> q \in files,
         cand' = cand \/ cand' = r, cand' = r => pc \in Committed,
         DOMAIN apps' = FormJobs, queued \subseteq queued',
         \A j \in FormJobs : apps'[j] = apps[j] \/ (apps[j] = "nobody" /\ apps'[j] = r),
         (\E j \in FormJobs : apps'[j] = r) => pc \in Committed
  PROVE  ApplyInvariant'
<1>1. ASSUME NEW q \in Forms \ {r} PROVE FormHolds(q)'
  <2>1. FormHolds(q) /\ form'[q] = form[q]
    BY DEF ApplyInvariant, FormTo
  <2>2. form[q].pc \in Committed \ {"dead"} => apps'[form[q].job] = q
    <3>1. form[q].pc \in Committed \ {"dead"} => form[q].job \in FormJobs /\ apps[form[q].job] = q
      BY <2>1 DEF FormHolds, Committed
    <3> QED
      BY <3>1 DEF ApplyConstants
  <2> QED
    BY <2>1, <2>2 DEF FormHolds
<1>2. cand' \in Forms => form'[cand'].pc \in Committed
  BY DEF ApplyInvariant, FormTo
<1>3. ASSUME NEW j \in FormJobs, apps'[j] \in Forms PROVE form'[apps'[j]].pc \in Committed
  BY <1>3 DEF ApplyInvariant, FormTo
<1> QED
  BY <1>1, <1>2, <1>3 DEF ApplyInvariant, FormTo

(* The rows of applications are one of each job.                             *)
LEMMA FormJobsNamed == ApplyInvariant => DOMAIN apps = FormJobs
BY DEF ApplyInvariant

(* Rollback: the form had committed nothing.                                 *)
LEMMA FailKeeps ==
  ASSUME ApplyConstants, ApplyInvariant, NEW r \in Forms, NEW why, Applied!Fail(r, why),
         form[r].pc \in {"looked", "flushed", "checked"}
  PROVE  ApplyInvariant'
<1>1. FormTo(r, "failed") /\ files' = files \ {r} /\ UNCHANGED <<cand, apps, queued>>
  BY FormGoes DEF Applied!Fail, Applied!Removed
<1>2. cand # r /\ \A j \in FormJobs : apps[j] # r
  BY DEF ApplyInvariant, Committed
<1>3. FormHolds(r)'
  BY <1>1 DEF FormTo, FormHolds, Committed
<1> QED
  BY <1>1, <1>2, <1>3, FormMoves, FormJobsNamed

(* The steps of a form up to its commit.                                     *)
LEMMA UploadKeeps ==
  ASSUME ApplyConstants, ApplyInvariant, NEW r \in Forms, NEW j \in FormJobs, Applied!Upload(r, j)
  PROVE  ApplyInvariant'
<1>1. cand # r /\ \A i \in FormJobs : apps[i] # r
  BY DEF ApplyInvariant, Committed, Applied!Upload
<1>2. CASE j \in open
  <2>1. FormTo(r, "stored") /\ form'[r].job = j /\ files' = files \cup {r} /\ UNCHANGED <<cand, apps, queued>>
    BY <1>2 DEF ApplyInvariant, FormTo, Applied!Upload
  <2>2. FormHolds(r)'
    BY <2>1 DEF FormTo, FormHolds, Committed
  <2> QED
    BY <1>1, <2>1, <2>2, FormMoves, FormJobsNamed
<1>3. CASE j \notin open
  <2>1. FormTo(r, "failed") /\ UNCHANGED <<files, cand, apps, queued>> /\ r \notin files
    BY <1>3, FormGoes DEF ApplyInvariant, FormHolds, Applied!Upload
  <2>2. FormHolds(r)'
    BY <2>1 DEF FormTo, FormHolds, Committed
  <2> QED
    BY <1>1, <2>1, <2>2, FormMoves, FormJobsNamed
<1> QED
  BY <1>2, <1>3

(* Look, Flush and Check, if they do not fail, only move on.                 *)
LEMMA PreparingKeeps ==
  ASSUME ApplyConstants, ApplyInvariant, NEW r \in Forms,
         Applied!Look(r) \/ Applied!Flush(r) \/ Applied!Check(r)
  PROVE  ApplyInvariant'
<1>1. \/ \E why : Applied!Fail(r, why) /\ form[r].pc \in {"looked", "flushed"}
      \/ \E pc \in {"looked", "flushed", "checked"} :
           FormTo(r, pc) /\ form'[r].job = form[r].job /\ form[r].pc \in {"stored", "looked", "flushed"}
           /\ UNCHANGED <<files, cand, apps, queued>>
  <2>1. CASE Applied!Look(r)
    BY <2>1 DEF ApplyInvariant, FormTo, Applied!Look
  <2>2. CASE Applied!Flush(r)
    BY <2>2, FormGoes DEF Applied!Flush
  <2>3. CASE Applied!Check(r)
    BY <2>3, FormGoes DEF Applied!Check
  <2> QED
    BY <2>1, <2>2, <2>3
<1>2. ASSUME NEW pc \in {"looked", "flushed", "checked"}, FormTo(r, pc), form'[r].job = form[r].job,
             form[r].pc \in {"stored", "looked", "flushed"}, UNCHANGED <<files, cand, apps, queued>>
      PROVE  ApplyInvariant'
  <2>1. cand # r /\ (\A i \in FormJobs : apps[i] # r) /\ FormHolds(r)
    BY <1>2 DEF ApplyInvariant, Committed
  <2>2. FormHolds(r)'
    BY <1>2, <2>1 DEF FormTo, FormHolds, Committed
  <2> QED
    BY <1>2, <2>1, <2>2, FormMoves, FormJobsNamed
<1> QED
  BY <1>1, <1>2, FailKeeps

(* The commit names the form, of a job that had no application.              *)
LEMMA CommitKeeps ==
  ASSUME ApplyConstants, ApplyInvariant, NEW r \in Forms, Applied!Commit(r)
  PROVE  ApplyInvariant'
<1>1. CASE Applied!Taken(r)
  BY <1>1, FailKeeps DEF Applied!Commit
<1>2. CASE ~Applied!Taken(r)
  <2>1. /\ FormTo(r, "committed") /\ form'[r].job = form[r].job /\ UNCHANGED <<files, queued>>
        /\ cand' = r /\ apps' = [apps EXCEPT ![form[r].job] = r]
    BY <1>2, FormGoes DEF Applied!Commit
  <2>2. form[r].job \in FormJobs /\ r \in files /\ apps[form[r].job] = "nobody"
    BY <1>2 DEF ApplyInvariant, FormHolds, Applied!Commit, Applied!Taken, Applied!Nobody
  <2>3. DOMAIN apps' = FormJobs /\ apps'[form[r].job] = r
        /\ \A j \in FormJobs : apps'[j] = apps[j] \/ (apps[j] = "nobody" /\ apps'[j] = r)
    BY <2>1, <2>2, FormJobsNamed
  <2>4. FormHolds(r)'
    BY <2>1, <2>2, <2>3 DEF FormTo, FormHolds, Committed
  <2> QED
    BY <2>1, <2>3, <2>4, FormMoves DEF Committed
<1> QED
  BY <1>1, <1>2

(* After it: the job, a lost answer, a dying process.                        *)
LEMMA EndingKeeps ==
  ASSUME ApplyConstants, ApplyInvariant, NEW r \in Forms,
         Applied!Submit(r) \/ Applied!Error(r) \/ Applied!Die(r)
  PROVE  ApplyInvariant'
<1>1. \/ \E why : Applied!Fail(r, why) /\ form[r].pc \in {"looked", "flushed", "checked"}
      \/ \E pc \in Committed :
           /\ FormTo(r, pc) /\ form'[r].job = form[r].job
           /\ form[r].pc \in {"stored", "looked", "flushed", "checked", "committed"}
           /\ pc \in {"ok", "late", "unqueued"} => form[r].pc = "committed"
           /\ pc \in {"ok", "late", "unqueued", "dead"}
           /\ queued' = IF pc = "ok" THEN queued \cup {form[r].job} ELSE queued
           /\ files' = IF pc = "late" THEN files \ {r} ELSE files
           /\ UNCHANGED <<cand, apps>>
  <2>1. CASE Applied!Submit(r)
    BY <2>1, FormGoes DEF Applied!Submit, Committed
  <2>2. CASE Applied!Error(r)
    <3>1. CASE form[r].pc \in {"looked", "flushed", "checked"}
      BY <2>2, <3>1 DEF Applied!Error
    <3>2. CASE form[r].pc = "committed"
      BY <2>2, <3>2, FormGoes DEF Applied!Error, Committed
    <3> QED
      BY <2>2, <3>1, <3>2 DEF Applied!Error
  <2>3. CASE Applied!Die(r)
    BY <2>3, FormGoes DEF Applied!Die, Committed
  <2> QED
    BY <2>1, <2>2, <2>3
<1>2. ASSUME NEW pc \in Committed, FormTo(r, pc), form'[r].job = form[r].job,
             form[r].pc \in {"stored", "looked", "flushed", "checked", "committed"},
             pc \in {"ok", "late", "unqueued"} => form[r].pc = "committed",
             pc \in {"ok", "late", "unqueued", "dead"},
             queued' = IF pc = "ok" THEN queued \cup {form[r].job} ELSE queued,
             files' = IF pc = "late" THEN files \ {r} ELSE files,
             UNCHANGED <<cand, apps>>
      PROVE  ApplyInvariant'
  <2>1. FormHolds(r)
    BY DEF ApplyInvariant
  <2>2. FormHolds(r)'
    BY <1>2, <2>1 DEF FormTo, FormHolds, Committed
  <2> QED
    BY <1>2, <2>2, FormMoves, FormJobsNamed
<1> QED
  BY <1>1, <1>2, FailKeeps

(* The company closes a job or enters an application of its own.             *)
LEMMA CompanyKeeps ==
  ASSUME ApplyConstants, ApplyInvariant, NEW j \in FormJobs, Applied!Close(j) \/ Applied!Enter(j)
  PROVE  ApplyInvariant'
<1>1. CASE Applied!Close(j)
  BY <1>1 DEF Applied!Close, ApplyInvariant, FormHolds
<1>2. CASE Applied!Enter(j)
  <2>1. /\ UNCHANGED <<files, cand, queued, form>> /\ DOMAIN apps' = FormJobs
        /\ apps'[j] = "staff" /\ apps[j] = "nobody" /\ \A i \in FormJobs \ {j} : apps'[i] = apps[i]
    BY <1>2 DEF Applied!Enter, Applied!Staff, Applied!Nobody, ApplyInvariant
  <2>2. ASSUME NEW r \in Forms PROVE FormHolds(r)'
    <3>1. FormHolds(r)
      BY DEF ApplyInvariant
    <3>2. form[r].pc \in Committed \ {"dead"} => form[r].job \in FormJobs /\ apps[form[r].job] = r
      BY <3>1 DEF FormHolds, Committed
    <3>3. form[r].pc \in Committed \ {"dead"} => apps'[form[r].job] = r
      BY <2>1, <3>2 DEF ApplyConstants
    <3> QED
      BY <2>1, <3>1, <3>3 DEF FormHolds
  <2>3. \A i \in FormJobs : apps'[i] \in Forms => form'[apps'[i]].pc \in Committed
    BY <2>1 DEF ApplyConstants, ApplyInvariant
  <2> QED
    BY <2>1, <2>2, <2>3 DEF ApplyInvariant
<1> QED
  BY <1>1, <1>2

(* The invariant holds at first ...                                          *)
LEMMA ApplyInit == ApplyConstants /\ Applied!Init => ApplyInvariant
BY DEF ApplyConstants, Applied!Init, Applied!Nobody, Applied!Staff, ApplyInvariant, FormHolds, Committed

(* ... and is kept by every step.                                            *)
LEMMA ApplyPreserved == ApplyConstants /\ ApplyInvariant /\ [Applied!Next]_(Applied!vars) => ApplyInvariant'
<1> SUFFICES ASSUME ApplyConstants, ApplyInvariant, [Applied!Next]_(Applied!vars) PROVE ApplyInvariant'
  OBVIOUS
<1>1. CASE UNCHANGED Applied!vars
  BY <1>1 DEF Applied!vars, ApplyInvariant, FormHolds
<1>2. CASE Applied!Next
  BY <1>2, UploadKeeps, PreparingKeeps, CommitKeeps, EndingKeeps, CompanyKeeps DEF Applied!Next, Applied!Step
<1> QED
  BY <1>1, <1>2

(* Rows name files that are there, whoever has committed.                    *)
LEMMA ApplyInvariantNames == ApplyInvariant => Applied!ApplicationsHaveTheirResume
BY DEF ApplyInvariant, FormHolds, Committed, Applied!ApplicationsHaveTheirResume

(* Any number of forms for any jobs, sent together and failing anywhere:     *)
(* rows, files and jobs of public applications agree.                        *)
THEOREM ResumesStayWithApplications ==
  ASSUME ApplyConstants
  PROVE  Applied!Init /\ [][Applied!Next]_(Applied!vars) => []Applied!ApplicationsHaveTheirResume
<1>1. Applied!Init => ApplyInvariant
  BY ApplyInit
<1>2. ApplyInvariant /\ [Applied!Next]_(Applied!vars) => ApplyInvariant'
  BY ApplyPreserved
<1> QED
  BY <1>1, <1>2, ApplyInvariantNames, PTL

-----------------------------------------------------------------------------
(* A candidate, their applications and notes.                                *)
Records == INSTANCE CandidateRecords WITH
  apps <- papers, notes <- remarks, desk <- visits, crossed <- mixedUp, due <- owed, passed <- passedBy,
  Calls <- RecordCalls, Apps <- Papers, Notes <- Remarks, Statuses <- SetStatuses, Stages <- PaperStages,
  MaxCalls <- MaxVisits

(* "none" and "gone" say that there is no application.                       *)
PeopleConstants == "none" \notin PaperStages /\ "gone" \notin PaperStages

LiveStatuses == {"applied", "screening", "shortlisted"} \cup PaperStages

(* The types.                                                                *)
RecordTypes ==
  /\ DOMAIN person = {"is", "status"} /\ person.is \in {"absent", "row", "gone"}
  /\ DOMAIN papers = Papers /\ \A a \in Papers : papers[a] \in LiveStatuses \cup {"none", "gone"}
  /\ DOMAIN remarks = Remarks /\ \A n \in Remarks : remarks[n] \in {"none", "gone", "text", "other"}
  /\ DOMAIN visits = RecordCalls

(* What a call that is to write has loaded.                                  *)
VisitTyped(c) ==
  /\ visits[c].op = "note" => visits[c].of \in Remarks /\ visits[c].set = "text"
  /\ visits[c].op = "edit" => /\ visits[c].of \in Remarks /\ visits[c].set = "other"
                              /\ remarks[visits[c].of] # "none"
  /\ visits[c].op = "resume" => visits[c].of \in DOMAIN visits[c].apps
  /\ DOMAIN visits[c].apps \subseteq Papers
  /\ \A a \in DOMAIN visits[c].apps : visits[c].apps[a] \in LiveStatuses

(* What it is to what there is: what no other call or application came       *)
(* between has loaded all applications.                                      *)
VisitHolds(c) ==
  /\ DOMAIN visits[c] = {"pc", "op", "set", "saw", "apps", "of"} /\ visits[c].pc \in {"idle", "write"}
  /\ visits[c].pc = "write" =>
       /\ VisitTyped(c) /\ person.is # "absent"
       /\ ~mixedUp => DOMAIN visits[c].apps = Records!Rows

(* The inductive invariant.                                                  *)
PeopleInvariant ==
  /\ RecordTypes
  /\ \A c \in RecordCalls : VisitHolds(c)
  /\ ~mixedUp => \A c, d \in RecordCalls : visits[c].pc = "write" /\ visits[d].pc = "write" => c = d
  /\ Records!DeletionIsSafe /\ Records!StatusIsAccountedFor

(* A call that ends leaves the others alone.                                 *)
LEMMA VisitEnds ==
  ASSUME PeopleInvariant, NEW c \in RecordCalls, Records!Ends(c)
  PROVE  /\ DOMAIN visits' = RecordCalls /\ mixedUp' = mixedUp
         /\ visits'[c] = Records!Idle /\ VisitHolds(c)'
         /\ \A d \in RecordCalls \ {c} : visits'[d] = visits[d]
<1>1. /\ DOMAIN visits' = RecordCalls /\ visits'[c] = Records!Idle /\ mixedUp' = mixedUp
      /\ \A d \in RecordCalls \ {c} : visits'[d] = visits[d]
  BY DEF PeopleInvariant, RecordTypes, Records!Ends
<1>2. VisitHolds(c)'
  BY <1>1 DEF VisitHolds, Records!Idle
<1> QED
  BY <1>1, <1>2

(* It keeps the invariant if what it writes does.                            *)
LEMMA EndKeeps ==
  ASSUME PeopleInvariant, NEW c \in RecordCalls, Records!Ends(c), visits[c].pc = "write",
         RecordTypes', Records!DeletionIsSafe', Records!StatusIsAccountedFor',
         \A n \in Remarks : remarks[n] # "none" => remarks'[n] # "none",
         person'.is # "absent"
  PROVE  PeopleInvariant'
<1>1. /\ mixedUp' = mixedUp /\ visits'[c] = Records!Idle /\ VisitHolds(c)'
      /\ \A d \in RecordCalls \ {c} : visits'[d] = visits[d]
  BY VisitEnds
<1>2. ~mixedUp => \A d \in RecordCalls \ {c} : visits[d].pc # "write"
  BY DEF PeopleInvariant
<1>3. ASSUME NEW d \in RecordCalls \ {c} PROVE VisitHolds(d)'
  <2>1. VisitHolds(d) /\ visits'[d] = visits[d]
    BY <1>1 DEF PeopleInvariant
  <2>2. visits[d].pc = "write" /\ VisitTyped(d) => VisitTyped(d)'
    BY <2>1 DEF VisitTyped
  <2> QED
    BY <1>1, <1>2, <2>1, <2>2 DEF VisitHolds
<1>4. ~mixedUp' => \A d, e \in RecordCalls : visits'[d].pc = "write" /\ visits'[e].pc = "write" => d = e
  BY <1>1 DEF PeopleInvariant, Records!Idle
<1> QED
  BY <1>1, <1>3, <1>4 DEF PeopleInvariant

(* A call that raises is rolled back.                                        *)
LEMMA RaiseKeeps ==
  ASSUME PeopleInvariant, NEW c \in RecordCalls, visits[c].pc = "write", Records!Raises(c)
  PROVE  PeopleInvariant'
<1>1. Records!Ends(c) /\ UNCHANGED <<person, papers, remarks, entries, owed, passedBy>> /\ person.is # "absent"
  BY DEF Records!Raises, PeopleInvariant, VisitHolds
<1>2. DOMAIN visits' = RecordCalls /\ mixedUp' = mixedUp
  BY <1>1, VisitEnds
<1>3. RecordTypes' /\ Records!DeletionIsSafe' /\ Records!StatusIsAccountedFor'
  BY <1>1, <1>2 DEF PeopleInvariant, RecordTypes, Records!DeletionIsSafe, Records!StatusIsAccountedFor,
     Records!Exists, Records!Rows
<1> QED
  BY <1>1, <1>3, EndKeeps

(* A call loads what it works on.                                            *)
LEMMA LoadsKeep ==
  ASSUME PeopleInvariant, NEW c \in RecordCalls, NEW op, NEW set, NEW of, Records!Loads(c, op, set, of),
         Records!Exists,
         op = "note" => of \in Remarks /\ set = "text",
         op = "edit" => of \in Remarks /\ set = "other" /\ remarks[of] # "none",
         op = "resume" => of \in Records!Rows
  PROVE  PeopleInvariant'
<1> DEFINE loaded == [a \in Records!Rows |-> papers[a]]
<1>1. /\ visits[c].pc = "idle" /\ mixedUp' = (mixedUp \/ ~Records!Alone(c))
      /\ visits' = [visits EXCEPT ![c] = [pc |-> "write", op |-> op, set |-> set, saw |-> person.status,
                                          apps |-> loaded, of |-> of]]
      /\ UNCHANGED <<person, papers, remarks, entries, owed, passedBy>>
  BY DEF Records!Loads
<1>2. DOMAIN loaded = Records!Rows /\ \A a \in DOMAIN loaded : loaded[a] = papers[a]
  OBVIOUS
<1>3. Records!Rows \subseteq Papers /\ \A a \in Records!Rows : papers[a] \in LiveStatuses
  BY DEF PeopleInvariant, RecordTypes, Records!Rows
<1>4. /\ DOMAIN visits' = RecordCalls /\ \A d \in RecordCalls \ {c} : visits'[d] = visits[d]
      /\ visits'[c] = [pc |-> "write", op |-> op, set |-> set, saw |-> person.status, apps |-> loaded, of |-> of]
  BY <1>1 DEF PeopleInvariant, RecordTypes
<1>5. /\ DOMAIN visits'[c] = {"pc", "op", "set", "saw", "apps", "of"}
      /\ visits'[c].pc = "write" /\ visits'[c].op = op /\ visits'[c].set = set
      /\ visits'[c].apps = loaded /\ visits'[c].of = of
  BY <1>4
<1>6. ~mixedUp' => ~mixedUp /\ \A d \in RecordCalls \ {c} : visits[d].pc = "idle"
  BY <1>1 DEF Records!Alone
<1>7. Records!Rows' = Records!Rows /\ (Records!Exists)'
  BY <1>1 DEF Records!Rows, Records!Exists
<1> HIDE DEF loaded
<1>8. VisitTyped(c)'
  BY <1>1, <1>2, <1>3, <1>5 DEF VisitTyped
<1>9. VisitHolds(c)'
  BY <1>1, <1>2, <1>5, <1>7, <1>8 DEF VisitHolds, Records!Exists
<1>10. ASSUME NEW d \in RecordCalls \ {c} PROVE VisitHolds(d)'
  <2>1. VisitHolds(d) /\ visits'[d] = visits[d]
    BY <1>4 DEF PeopleInvariant
  <2>2. VisitTyped(d) => VisitTyped(d)'
    BY <1>1, <2>1 DEF VisitTyped
  <2> QED
    BY <1>1, <1>6, <2>1, <2>2 DEF VisitHolds
<1>11. RecordTypes' /\ Records!DeletionIsSafe' /\ Records!StatusIsAccountedFor'
  <2>1. mixedUp => mixedUp'
    BY <1>1
  <2>2. RecordTypes'
    BY <1>1, <1>4 DEF PeopleInvariant, RecordTypes
  <2>3. Records!DeletionIsSafe'
    BY <1>1, <2>1 DEF PeopleInvariant, Records!DeletionIsSafe, Records!Exists, Records!Rows
  <2>4. Records!StatusIsAccountedFor'
    BY <1>1 DEF PeopleInvariant, Records!StatusIsAccountedFor, Records!Exists
  <2> QED
    BY <2>2, <2>3, <2>4
<1>12. ~mixedUp' => \A d, e \in RecordCalls : visits'[d].pc = "write" /\ visits'[e].pc = "write" => d = e
  BY <1>4, <1>6
<1> QED
  BY <1>9, <1>10, <1>11, <1>12 DEF PeopleInvariant

(* A candidate is created.                                                   *)
LEMMA CreateKeeps ==
  ASSUME PeopleInvariant, NEW c \in RecordCalls, NEW s, Records!Create(c, s)
  PROVE  PeopleInvariant'
<1>1. /\ person = Records!Nobody /\ person' = [is |-> "row", status |-> s] /\ owed' = s
      /\ UNCHANGED <<papers, remarks, visits, mixedUp>>
  BY DEF Records!Create
<1>2. /\ DOMAIN person' = {"is", "status"} /\ person'.is = "row" /\ person'.status = s /\ person' # Records!Gone
  BY <1>1 DEF Records!Gone
<1>3. Records!Rows = {} /\ \A n \in Remarks : remarks[n] \in {"none", "gone"}
  BY <1>1 DEF PeopleInvariant, Records!DeletionIsSafe, Records!Exists, Records!Nobody
<1>4. Records!Rows' = {}
  BY <1>1, <1>3 DEF Records!Rows
<1>5. RecordTypes'
  BY <1>1, <1>2 DEF PeopleInvariant, RecordTypes
<1>6. Records!StatusIsAccountedFor'
  BY <1>1, <1>2 DEF Records!StatusIsAccountedFor
<1>7. Records!DeletionIsSafe'
  BY <1>1, <1>2, <1>4 DEF PeopleInvariant, Records!DeletionIsSafe, Records!Exists
<1>8. \A d \in RecordCalls : visits[d].pc = "idle" /\ VisitHolds(d)
  BY <1>1 DEF PeopleInvariant, VisitHolds, Records!Nobody
<1>9. \A d \in RecordCalls : VisitHolds(d)'
  BY <1>1, <1>8 DEF VisitHolds
<1> QED
  BY <1>1, <1>5, <1>6, <1>7, <1>8, <1>9 DEF PeopleInvariant

(* A recruiter's status is written, or is the one there was before another.  *)
LEMMA PersonUpdateKeeps ==
  ASSUME PeopleInvariant, NEW c \in RecordCalls, Records!Update(c)
  PROVE  PeopleInvariant'
<1>1. visits[c].pc = "write"
  BY DEF Records!Update, Records!Writing
<1>2. CASE ~Records!Exists
  BY <1>1, <1>2, RaiseKeeps DEF Records!Update
<1>3. CASE Records!Exists
  <2>1. /\ person' = [person EXCEPT !.status = Records!Written(c)] /\ UNCHANGED <<papers, remarks>>
        /\ owed' = visits[c].set /\ passedBy' = (visits[c].set = visits[c].saw /\ visits[c].saw # person.status)
        /\ Records!Ends(c) /\ entries' = entries \cup {"updated"}
    BY <1>3 DEF Records!Update, Records!Audited
  <2>2. DOMAIN visits' = RecordCalls /\ mixedUp' = mixedUp
    BY <2>1, VisitEnds
  <2>3. DOMAIN person' = {"is", "status"} /\ person'.is = "row" /\ person'.status = Records!Written(c)
    BY <1>3, <2>1 DEF PeopleInvariant, RecordTypes, Records!Exists
  <2>4. RecordTypes'
    BY <2>1, <2>2, <2>3 DEF PeopleInvariant, RecordTypes
  <2>5. Records!StatusIsAccountedFor'
    BY <2>1, <2>3 DEF Records!StatusIsAccountedFor, Records!Written
  <2>6. Records!DeletionIsSafe'
    BY <2>1, <2>2, <2>3 DEF PeopleInvariant, Records!DeletionIsSafe, Records!Exists, Records!Gone
  <2> QED
    BY <1>1, <2>1, <2>3, <2>4, <2>5, <2>6, EndKeeps
<1> QED
  BY <1>2, <1>3

(* A candidate goes, with notes and applications the request did not load.   *)
LEMMA PersonDeleteKeeps ==
  ASSUME PeopleInvariant, NEW c \in RecordCalls, Records!Delete(c)
  PROVE  PeopleInvariant'
<1>1. visits[c].pc = "write" /\ VisitHolds(c)
  BY DEF Records!Delete, Records!Writing, PeopleInvariant
<1>2. CASE DOMAIN visits[c].apps # {}
  BY <1>1, <1>2, RaiseKeeps DEF Records!Delete
<1>3. CASE DOMAIN visits[c].apps = {}
  <2>1. /\ person' = Records!Gone
        /\ papers' = [a \in Papers |-> IF a \in Records!Rows THEN "gone" ELSE papers[a]]
        /\ remarks' = [n \in Remarks |-> IF remarks[n] = "none" THEN "none" ELSE "gone"]
        /\ Records!Ends(c) /\ entries' = entries \cup {"deleted"}
    BY <1>3 DEF Records!Delete, Records!Audited
  <2>2. DOMAIN visits' = RecordCalls /\ mixedUp' = mixedUp
    BY <2>1, VisitEnds
  <2>3. DOMAIN person' = {"is", "status"} /\ person'.is = "gone"
    BY <2>1 DEF Records!Gone
  <2>4. RecordTypes'
    BY <2>1, <2>2, <2>3 DEF PeopleInvariant, RecordTypes, Records!Rows
  <2>5. ~mixedUp => Records!Rows = {}
    BY <1>1, <1>3 DEF VisitHolds
  <2>6. Records!Rows' = {}
    BY <2>1 DEF Records!Rows
  <2>7. Records!DeletionIsSafe'
    <3>1. (\E a \in Papers : papers'[a] = "gone") => mixedUp
      BY <2>1, <2>5 DEF PeopleInvariant, Records!DeletionIsSafe
    <3>2. \A n \in Remarks : remarks'[n] \in {"none", "gone"}
      BY <2>1
    <3> QED
      BY <2>1, <2>2, <2>6, <3>1, <3>2 DEF Records!DeletionIsSafe
  <2>8. Records!StatusIsAccountedFor'
    BY <2>3 DEF Records!StatusIsAccountedFor, Records!Exists
  <2> QED
    BY <1>1, <2>1, <2>3, <2>4, <2>7, <2>8, EndKeeps
<1> QED
  BY <1>2, <1>3

(* A note is written.                                                        *)
LEMMA NoteKeeps ==
  ASSUME PeopleInvariant, NEW c \in RecordCalls, Records!CreateNote(c) \/ Records!UpdateNote(c)
  PROVE  PeopleInvariant'
<1>1. /\ visits[c].pc = "write" /\ visits[c].of \in Remarks /\ visits[c].set \in {"text", "other"}
      /\ visits[c].op = "edit" => remarks[visits[c].of] # "none"
      /\ visits[c].op = "edit" \/ Records!CreateNote(c)
  BY DEF Records!CreateNote, Records!UpdateNote, Records!Writing, PeopleInvariant, VisitHolds, VisitTyped
<1>2. \/ Records!Raises(c)
      \/ /\ remarks' = [remarks EXCEPT ![visits[c].of] = visits[c].set]
         /\ UNCHANGED <<person, papers, owed, passedBy>>
         /\ \E action \in {"note_created", "note_updated"} : Records!Audited(c, action)
         /\ Records!Exists \/ remarks[visits[c].of] \notin {"none", "gone"}
  BY <1>1 DEF Records!CreateNote, Records!UpdateNote
<1>3. CASE Records!Raises(c)
  BY <1>1, <1>3, RaiseKeeps
<1>4. CASE /\ remarks' = [remarks EXCEPT ![visits[c].of] = visits[c].set]
           /\ UNCHANGED <<person, papers, owed, passedBy>>
           /\ \E action \in {"note_created", "note_updated"} : Records!Audited(c, action)
           /\ Records!Exists \/ remarks[visits[c].of] \notin {"none", "gone"}
  <2>1. Records!Exists
    BY <1>1, <1>4 DEF PeopleInvariant, Records!DeletionIsSafe
  <2>2. Records!Ends(c) /\ entries \subseteq entries'
    BY <1>4 DEF Records!Audited
  <2>3. DOMAIN visits' = RecordCalls /\ mixedUp' = mixedUp /\ Records!Rows' = Records!Rows
    BY <1>4, <2>2, VisitEnds DEF Records!Rows
  <2>4. RecordTypes' /\ (\A n \in Remarks : remarks[n] # "none" => remarks'[n] # "none")
    BY <1>1, <1>4, <2>3 DEF PeopleInvariant, RecordTypes
  <2>5. Records!DeletionIsSafe'
    BY <1>4, <2>1, <2>2, <2>3 DEF PeopleInvariant, Records!DeletionIsSafe, Records!Exists, Records!Gone
  <2>6. Records!StatusIsAccountedFor'
    BY <1>4 DEF PeopleInvariant, Records!StatusIsAccountedFor, Records!Exists
  <2>7. person'.is # "absent"
    BY <1>4, <2>1 DEF Records!Exists
  <2> QED
    BY <1>1, <2>2, <2>4, <2>5, <2>6, <2>7, EndKeeps
<1> QED
  BY <1>2, <1>3, <1>4

(* A resume job gives an application its status, and a candidate who was new *)
(* the same.                                                                 *)
LEMMA AnalysedKeeps ==
  ASSUME PeopleConstants, PeopleInvariant, NEW c \in RecordCalls, Records!Analysed(c)
  PROVE  PeopleInvariant'
<1>1. visits[c].pc = "write" /\ VisitTyped(c) /\ visits[c].of \in DOMAIN visits[c].apps
  BY DEF Records!Analysed, Records!Writing, PeopleInvariant, VisitHolds, VisitTyped
<1>2. CASE ~Records!Exists \/ visits[c].of \notin Records!Rows
  BY <1>1, <1>2, RaiseKeeps DEF Records!Analysed
<1>3. CASE Records!Exists /\ visits[c].of \in Records!Rows
  <2> DEFINE a == visits[c].of
             was == visits[c].apps[a]
  <2>1. PICK s \in IF was = "applied" THEN {"screening", "shortlisted"} ELSE {was} :
          /\ papers' = IF s = was THEN papers ELSE [papers EXCEPT ![a] = s]
          /\ person' = IF visits[c].saw = "new" THEN [person EXCEPT !.status = s] ELSE person
          /\ owed' = IF owed = "new" THEN s ELSE owed
          /\ passedBy' = (passedBy \/ (visits[c].saw = "new") # (person.status = "new"))
          /\ Records!Ends(c) /\ UNCHANGED <<remarks, entries>>
    BY <1>3 DEF Records!Analysed
  <2>2. s \in LiveStatuses /\ s \notin {"none", "gone"}
    BY <1>1, <2>1 DEF VisitTyped, LiveStatuses, PeopleConstants
  <2>3. a \in Papers /\ papers[a] \notin {"none", "gone"}
    BY <1>3 DEF Records!Rows
  <2>4. DOMAIN visits' = RecordCalls /\ mixedUp' = mixedUp
    BY <2>1, VisitEnds
  <2>5. /\ DOMAIN person' = {"is", "status"} /\ person'.is = "row"
        /\ person'.status = IF visits[c].saw = "new" THEN s ELSE person.status
    BY <1>3, <2>1 DEF PeopleInvariant, RecordTypes, Records!Exists
  <2> HIDE DEF a, was
  <2>6. DOMAIN papers' = Papers /\ papers'[a] \in {s, papers[a]} /\ \A b \in Papers \ {a} : papers'[b] = papers[b]
    BY <2>1, <2>3 DEF PeopleInvariant, RecordTypes
  <2>7. RecordTypes'
    BY <2>1, <2>2, <2>3, <2>4, <2>5, <2>6 DEF PeopleInvariant, RecordTypes
  <2>8. Records!DeletionIsSafe'
    BY <2>1, <2>2, <2>3, <2>4, <2>5, <2>6 DEF PeopleInvariant, Records!DeletionIsSafe, Records!Exists, Records!Gone
  <2>9. Records!StatusIsAccountedFor'
    <3>1. passedBy \/ person.status = owed
      BY <1>3 DEF PeopleInvariant, Records!StatusIsAccountedFor
    <3> QED
      BY <2>1, <2>5, <3>1 DEF Records!StatusIsAccountedFor
  <2> QED
    BY <1>1, <2>1, <2>5, <2>7, <2>8, <2>9, EndKeeps
<1> QED
  BY <1>2, <1>3

(* An application comes, perhaps while calls are under way, or moves on.     *)
LEMMA PaperKeeps ==
  ASSUME PeopleConstants, PeopleInvariant, NEW a \in Papers, Records!Apply(a) \/ Records!Move(a)
  PROVE  PeopleInvariant'
<1>1. PICK s \in LiveStatuses :
        /\ papers' = [papers EXCEPT ![a] = s] /\ papers[a] # "gone"
        /\ papers[a] = "none" =>
             Records!Exists /\ \A c \in RecordCalls : visits[c].pc # "idle" => mixedUp'
        /\ papers[a] # "none" => mixedUp' = mixedUp
        /\ mixedUp => mixedUp'
        /\ UNCHANGED <<person, remarks, visits, entries, owed, passedBy>>
  <2>1. CASE Records!Apply(a)
    <3>1. mixedUp => mixedUp'
      BY <2>1 DEF Records!Apply
    <3>2. \A c \in RecordCalls : visits[c].pc # "idle" => mixedUp'
      BY <2>1 DEF Records!Apply
    <3>3. "applied" \in LiveStatuses
      BY DEF LiveStatuses
    <3> QED
      BY <2>1, <3>1, <3>2, <3>3 DEF Records!Apply
  <2>2. CASE Records!Move(a)
    BY <2>2 DEF Records!Move, Records!Rows, LiveStatuses
  <2> QED
    BY <2>1, <2>2
<1>2. /\ DOMAIN papers' = Papers /\ papers'[a] = s /\ \A b \in Papers \ {a} : papers'[b] = papers[b]
      /\ s \notin {"none", "gone"}
  BY <1>1 DEF PeopleInvariant, RecordTypes, PeopleConstants, LiveStatuses
<1>3. papers[a] # "none" => Records!Rows' = Records!Rows
  BY <1>1, <1>2 DEF Records!Rows
<1>4. RecordTypes'
  BY <1>1, <1>2 DEF PeopleInvariant, RecordTypes
<1>5. ASSUME NEW c \in RecordCalls PROVE VisitHolds(c)'
  <2>1. VisitHolds(c) /\ visits'[c] = visits[c]
    BY <1>1 DEF PeopleInvariant
  <2>2. visits[c].pc = "write" => VisitTyped(c)' /\ (papers[a] = "none" => mixedUp')
    BY <1>1, <2>1 DEF VisitHolds, VisitTyped
  <2> QED
    BY <1>1, <1>3, <2>1, <2>2 DEF VisitHolds
<1>6. Records!DeletionIsSafe'
  <2>1. Records!Exists
    <3>1. papers[a] # "none" => a \in Records!Rows
      BY <1>1 DEF Records!Rows
    <3> QED
      BY <1>1, <3>1 DEF PeopleInvariant, Records!DeletionIsSafe
  <2>2. (Records!Exists)' /\ person' # Records!Gone
    BY <1>1, <2>1 DEF Records!Exists, Records!Gone
  <2>3. (\E b \in Papers : papers'[b] = "gone") => mixedUp'
    BY <1>1, <1>2 DEF PeopleInvariant, Records!DeletionIsSafe
  <2> QED
    BY <2>2, <2>3 DEF Records!DeletionIsSafe
<1>7. Records!StatusIsAccountedFor'
  BY <1>1 DEF PeopleInvariant, Records!StatusIsAccountedFor, Records!Exists
<1>8. ~mixedUp' => \A c, d \in RecordCalls : visits'[c].pc = "write" /\ visits'[d].pc = "write" => c = d
  BY <1>1 DEF PeopleInvariant
<1> QED
  BY <1>4, <1>5, <1>6, <1>7, <1>8 DEF PeopleInvariant

(* The invariant holds at first ...                                          *)
LEMMA PeopleInit == Records!Init => PeopleInvariant
<1> SUFFICES ASSUME Records!Init PROVE PeopleInvariant
  OBVIOUS
<1>1. /\ person = Records!Nobody /\ Records!Rows = {}
      /\ papers = [a \in Papers |-> "none"] /\ remarks = [n \in Remarks |-> "none"]
      /\ visits = [c \in RecordCalls |-> Records!Idle]
  BY DEF Records!Init, Records!Rows
<1>2. ~Records!Exists /\ DOMAIN person = {"is", "status"} /\ person.is = "absent" /\ person # Records!Gone
  BY <1>1 DEF Records!Nobody, Records!Gone, Records!Exists
<1> QED
  BY <1>1, <1>2 DEF PeopleInvariant, RecordTypes, VisitHolds, Records!StatusIsAccountedFor, Records!DeletionIsSafe,
     Records!Idle

(* ... and is kept by every step.                                            *)
LEMMA PeoplePreserved ==
  PeopleConstants /\ PeopleInvariant /\ [Records!Next]_(Records!candidateVars) => PeopleInvariant'
<1> SUFFICES ASSUME PeopleConstants, PeopleInvariant, [Records!Next]_(Records!candidateVars) PROVE PeopleInvariant'
  OBVIOUS
<1>1. CASE UNCHANGED Records!candidateVars
  BY <1>1 DEF Records!candidateVars, PeopleInvariant, RecordTypes, VisitHolds, VisitTyped,
     Records!DeletionIsSafe, Records!StatusIsAccountedFor, Records!Exists, Records!Rows
<1>2. ASSUME NEW c \in RecordCalls, Records!Request(c) PROVE PeopleInvariant'
  <2>1. CASE Records!Remove(c)
    BY <2>1, LoadsKeep DEF Records!Remove
  <2>2. ASSUME NEW s \in SetStatuses, Records!Create(c, s) \/ Records!Edit(c, s) PROVE PeopleInvariant'
    BY <2>2, CreateKeeps, LoadsKeep DEF Records!Edit
  <2>3. ASSUME NEW n \in Remarks, Records!Note(c, n) PROVE PeopleInvariant'
    BY <2>3, LoadsKeep DEF Records!Note
  <2>4. ASSUME NEW n \in Remarks, Records!EditNote(c, n) PROVE PeopleInvariant'
    <3>1. remarks[n] \notin {"none", "gone"} /\ Records!Loads(c, "edit", "other", n)
      BY <2>4 DEF Records!EditNote
    <3>2. Records!Exists
      BY <3>1 DEF PeopleInvariant, Records!DeletionIsSafe
    <3> QED
      BY <3>1, <3>2, LoadsKeep
  <2>5. ASSUME NEW a \in Papers, Records!Analyse(c, a) PROVE PeopleInvariant'
    BY <2>5, LoadsKeep DEF Records!Analyse
  <2> QED
    BY <1>2, <2>1, <2>2, <2>3, <2>4, <2>5, PersonUpdateKeeps, PersonDeleteKeeps, NoteKeeps, AnalysedKeeps
    DEF Records!Request
<1> QED
  BY <1>1, <1>2, PaperKeeps DEF Records!Next

(* What it says of candidates.                                               *)
LEMMA PeopleInvariantAccounts == PeopleInvariant => Records!DeletionIsSafe /\ Records!StatusIsAccountedFor
BY DEF PeopleInvariant

(* Whatever requests, resume jobs and other services overlap: a deletion     *)
(* takes an application away only if it came meanwhile and leaves nothing    *)
(* that belongs to nobody; a candidate has the status a recruiter last gave, *)
(* or where that was "new" the one a resume job gave then, unless a change   *)
(* passed the job or an update that gives what it loaded.                    *)
THEOREM CandidatesAreAccountedFor ==
  ASSUME PeopleConstants
  PROVE  Records!Init /\ [][Records!Next]_(Records!candidateVars)
           => [](Records!DeletionIsSafe /\ Records!StatusIsAccountedFor)
<1>1. PeopleInvariant /\ [Records!Next]_(Records!candidateVars) => PeopleInvariant'
  BY PeoplePreserved
<1> QED
  BY <1>1, PeopleInit, PeopleInvariantAccounts, PTL

-----------------------------------------------------------------------------
(* The audit trail: table, log and index.                                    *)
Trail == INSTANCE AuditTrail WITH
  table <- auditTable, log <- auditLog, index <- auditIndex, pc <- auditPc, read <- auditRead,
  failed <- auditFailed, crossed <- together,
  Events <- AuditEvents, CandidateOf <- SubjectOf, MaxFaults <- MaxAuditFaults

(* No event is the mark of a truncated file.                                 *)
AuditConstants == "truncated" \notin AuditEvents

(* What the index may be.                                                    *)
Indexes == [Trail!Candidates -> Seq(AuditEvents)]

AuditTypes ==
  /\ auditLog \in Seq(AuditEvents)
  /\ auditIndex = Trail!Truncated \/ auditIndex \in Indexes
  /\ auditRead \in [AuditEvents -> Indexes]
  /\ auditPc \in [AuditEvents -> {"row", "log", "read", "open", "write", "done"}]

(* An index has an event under its candidate.                                *)
Indexed(i, e) == Trail!Contains(i[SubjectOf[e]], e)

(* A thread has written what it is past, but for writes that failed.         *)
EventHolds(e) ==
  /\ auditPc[e] # "row" => e \in auditTable \/ e \in auditFailed
  /\ auditPc[e] \in Trail!InLock \cup {"done"} => Trail!Contains(auditLog, e) \/ e \in lostLog

(* The lock of a process; without another process none is at the index but   *)
(* its holder.                                                               *)
AloneAtIndex ==
  \A d, e \in AuditEvents :
    auditPc[d] \in Trail!InLock /\ auditPc[e] \in Trail!InLock /\ (~together \/ ProcessOf[d] = ProcessOf[e]) => d = e

(* Then the index is truncated only while it is written, and it, or what its *)
(* writer will write, has all events whose threads are done.                 *)
IndexHolds ==
  /\ auditIndex = Trail!Truncated /\ AuditEvents # {} => \E e \in AuditEvents : auditPc[e] = "write"
  /\ \A d \in AuditEvents : auditPc[d] = "done" => auditIndex = Trail!Truncated \/ Indexed(auditIndex, d)
  /\ \A e, d \in AuditEvents :
       auditPc[e] \in {"open", "write"} /\ (auditPc[d] = "done" \/ d = e) => Indexed(auditRead[e], d)

(* The inductive invariant.                                                  *)
AuditInvariant ==
  /\ AuditTypes /\ AloneAtIndex
  /\ \A e \in AuditEvents : EventHolds(e)
  /\ ~together /\ lostLog = {} => IndexHolds

(* What a sequence contains after an append.                                 *)
LEMMA AppendContains ==
  ASSUME NEW s \in Seq(AuditEvents), NEW e \in AuditEvents
  PROVE  /\ Append(s, e) \in Seq(AuditEvents)
         /\ \A d : Trail!Contains(s, d) \/ d = e => Trail!Contains(Append(s, e), d)
<1>1. /\ Append(s, e) \in Seq(AuditEvents) /\ Len(Append(s, e)) = Len(s) + 1 /\ Len(s) \in Nat
      /\ Append(s, e)[Len(s) + 1] = e /\ \A i \in 1..Len(s) : Append(s, e)[i] = s[i]
  OBVIOUS
<1>2. ASSUME NEW d, Trail!Contains(s, d) PROVE Trail!Contains(Append(s, e), d)
  <2>1. PICK i \in 1..Len(s) : s[i] = d
    BY <1>2 DEF Trail!Contains
  <2>2. i \in 1..Len(Append(s, e)) /\ Append(s, e)[i] = d
    BY <1>1, <2>1
  <2> QED
    BY <2>2 DEF Trail!Contains
<1>3. Trail!Contains(Append(s, e), e)
  <2>1. Len(s) + 1 \in 1..Len(Append(s, e))
    BY <1>1
  <2> QED
    BY <1>1, <2>1 DEF Trail!Contains
<1> QED
  BY <1>1, <1>2, <1>3

(* The candidates.                                                           *)
LEMMA SubjectIsCandidate == \A e \in AuditEvents : SubjectOf[e] \in Trail!Candidates
BY DEF Trail!Candidates

(* An index that has an event is not the truncated one.                      *)
LEMMA WrittenIndex ==
  ASSUME AuditConstants, NEW i \in Indexes, NEW e \in AuditEvents, Indexed(i, e)
  PROVE  i # Trail!Truncated
<1>1. SubjectOf[e] \in Trail!Candidates /\ i[SubjectOf[e]] \in Seq(AuditEvents)
  BY SubjectIsCandidate DEF Indexes
<1>2. Trail!Truncated[SubjectOf[e]] = <<"truncated">>
  BY <1>1 DEF Trail!Truncated
<1>3. <<"truncated">> \notin Seq(AuditEvents)
  <2> SUFFICES ASSUME <<"truncated">> \in Seq(AuditEvents) PROVE FALSE
    OBVIOUS
  <2>1. <<"truncated">>[1] \in AuditEvents
    OBVIOUS
  <2> QED
    BY <2>1 DEF AuditConstants
<1> QED
  BY <1>1, <1>2, <1>3

(* A thread goes on, the others stay.                                        *)
LEMMA ThreadGoes ==
  ASSUME AuditTypes, NEW e \in AuditEvents, NEW to \in {"log", "read", "open", "write", "done"}, Trail!Goes(e, to)
  PROVE  /\ auditPc' \in [AuditEvents -> {"row", "log", "read", "open", "write", "done"}]
         /\ auditPc'[e] = to /\ \A d \in AuditEvents \ {e} : auditPc'[d] = auditPc[d]
BY DEF AuditTypes, Trail!Goes

(* The row in the table.                                                     *)
LEMMA PersistKeeps ==
  ASSUME AuditInvariant, NEW e \in AuditEvents, Trail!Persist(e)
  PROVE  AuditInvariant'
<1>1. /\ auditPc[e] = "row" /\ UNCHANGED <<auditLog, auditIndex, auditRead, lostLog, together>>
      /\ auditTable \subseteq auditTable' /\ auditFailed \subseteq auditFailed'
      /\ e \in auditTable' \/ e \in auditFailed'
      /\ Trail!Goes(e, "log") /\ AuditTypes
  BY DEF Trail!Persist, AuditInvariant
<1>2. /\ auditPc' \in [AuditEvents -> {"row", "log", "read", "open", "write", "done"}]
      /\ auditPc'[e] = "log" /\ \A d \in AuditEvents \ {e} : auditPc'[d] = auditPc[d]
  BY <1>1, ThreadGoes
<1>3. AuditTypes' /\ AloneAtIndex'
  BY <1>1, <1>2 DEF AuditInvariant, AuditTypes, AloneAtIndex, Trail!InLock
<1>4. \A d \in AuditEvents : EventHolds(d)'
  BY <1>1, <1>2 DEF AuditInvariant, EventHolds, Trail!InLock
<1>5. IndexHolds => IndexHolds'
  BY <1>1, <1>2 DEF IndexHolds, Indexed
<1> QED
  BY <1>1, <1>3, <1>4, <1>5 DEF AuditInvariant

(* The line of the log, which takes the lock.                                *)
LEMMA LineKeeps ==
  ASSUME AuditInvariant, NEW e \in AuditEvents, Trail!AppendLine(e)
  PROVE  AuditInvariant'
<1>1. /\ auditPc[e] = "log" /\ ~Trail!Locked(ProcessOf[e]) /\ auditLog' = Append(auditLog, e)
      /\ together' = (together \/ \E x \in AuditEvents : ProcessOf[x] # ProcessOf[e] /\ auditPc[x] \in Trail!InLock)
      /\ UNCHANGED <<auditTable, auditIndex, auditRead, auditFailed, lostLog>>
      /\ Trail!Goes(e, "read") /\ AuditTypes
  BY DEF Trail!AppendLine, AuditInvariant
<1>2. /\ auditPc' \in [AuditEvents -> {"row", "log", "read", "open", "write", "done"}]
      /\ auditPc'[e] = "read" /\ \A d \in AuditEvents \ {e} : auditPc'[d] = auditPc[d]
  BY <1>1, ThreadGoes
<1>3. /\ auditLog' \in Seq(AuditEvents) /\ Trail!Contains(auditLog', e)
      /\ \A d : Trail!Contains(auditLog, d) => Trail!Contains(auditLog', d)
  BY <1>1, AppendContains DEF AuditTypes
<1>4. \A d \in AuditEvents : auditPc[d] \in Trail!InLock => together' /\ ProcessOf[d] # ProcessOf[e]
  BY <1>1 DEF Trail!Locked
<1>5. AuditTypes'
  BY <1>1, <1>2, <1>3 DEF AuditTypes
<1>6. AloneAtIndex'
  BY <1>1, <1>2, <1>4 DEF AuditInvariant, AloneAtIndex
<1>7. \A d \in AuditEvents : EventHolds(d)'
  <2>1. \A d \in AuditEvents : EventHolds(d)
    BY DEF AuditInvariant
  <2> QED
    BY <1>1, <1>2, <1>3, <2>1 DEF EventHolds, Trail!InLock
<1>8. IndexHolds => IndexHolds'
  BY <1>1, <1>2 DEF IndexHolds, Indexed
<1>9. together => together'
  BY <1>1
<1> QED
  BY <1>1, <1>5, <1>6, <1>7, <1>8, <1>9 DEF AuditInvariant

(* The index is read, with the event ...                                     *)
LEMMA IndexReadKeeps ==
  ASSUME AuditInvariant, NEW e \in AuditEvents, Trail!ReadIndex(e)
  PROVE  AuditInvariant'
<1> DEFINE found == IF auditIndex = Trail!Truncated THEN Trail!NoEvents ELSE auditIndex
           more  == [found EXCEPT ![SubjectOf[e]] = Append(@, e)]
<1>1. /\ auditPc[e] = "read" /\ auditRead' = [auditRead EXCEPT ![e] = more]
      /\ UNCHANGED <<auditTable, auditLog, auditIndex, auditFailed, lostLog, together>>
      /\ Trail!Goes(e, "open") /\ AuditTypes
  BY DEF Trail!ReadIndex, AuditInvariant
<1>2. /\ auditPc' \in [AuditEvents -> {"row", "log", "read", "open", "write", "done"}]
      /\ auditPc'[e] = "open" /\ \A d \in AuditEvents \ {e} : auditPc'[d] = auditPc[d]
  BY <1>1, ThreadGoes
<1>3. found \in Indexes
  BY <1>1 DEF AuditTypes, Indexes, Trail!NoEvents
<1>4. SubjectOf[e] \in Trail!Candidates
  BY SubjectIsCandidate
<1> HIDE DEF found
<1>5. more \in Indexes /\ more[SubjectOf[e]] = Append(found[SubjectOf[e]], e)
      /\ \A c \in Trail!Candidates \ {SubjectOf[e]} : more[c] = found[c]
  <2>1. found[SubjectOf[e]] \in Seq(AuditEvents)
    BY <1>3, <1>4 DEF Indexes
  <2> QED
    BY <1>3, <1>4, <2>1 DEF Indexes
<1>6. Indexed(more, e) /\ \A d \in AuditEvents : Indexed(found, d) => Indexed(more, d)
  <2>1. found[SubjectOf[e]] \in Seq(AuditEvents)
    BY <1>3, <1>4 DEF Indexes
  <2>2. Indexed(more, e)
    BY <1>5, <2>1, AppendContains DEF Indexed
  <2>3. ASSUME NEW d \in AuditEvents, Indexed(found, d) PROVE Indexed(more, d)
    <3>1. CASE SubjectOf[d] = SubjectOf[e]
      BY <1>5, <2>1, <2>3, <3>1, AppendContains DEF Indexed
    <3>2. CASE SubjectOf[d] # SubjectOf[e]
      BY <1>5, <2>3, <3>2, SubjectIsCandidate DEF Indexed
    <3> QED
      BY <3>1, <3>2
  <2> QED
    BY <2>2, <2>3
<1> HIDE DEF more
<1>7. auditRead' \in [AuditEvents -> Indexes] /\ auditRead'[e] = more
      /\ \A d \in AuditEvents \ {e} : auditRead'[d] = auditRead[d]
  BY <1>1, <1>5 DEF AuditTypes
<1>8. AuditTypes' /\ AloneAtIndex'
  BY <1>1, <1>2, <1>7 DEF AuditInvariant, AuditTypes, AloneAtIndex, Trail!InLock
<1>9. \A d \in AuditEvents : EventHolds(d)'
  BY <1>1, <1>2 DEF AuditInvariant, EventHolds, Trail!InLock
<1>10. ASSUME ~together, IndexHolds PROVE IndexHolds'
  <2>1. auditIndex # Trail!Truncated
    BY <1>1, <1>10 DEF AuditInvariant, AloneAtIndex, IndexHolds, Trail!InLock
  <2>2. found = auditIndex
    BY <2>1 DEF found
  <2>3. \A d \in AuditEvents : auditPc[d] = "done" \/ d = e => Indexed(more, d)
    BY <1>6, <1>10, <2>1, <2>2 DEF IndexHolds
  <2> QED
    BY <1>1, <1>2, <1>7, <1>10, <2>1, <2>3 DEF IndexHolds
<1> QED
  BY <1>1, <1>8, <1>9, <1>10 DEF AuditInvariant

(* ... truncated ...                                                         *)
LEMMA IndexOpenKeeps ==
  ASSUME AuditInvariant, NEW e \in AuditEvents, Trail!OpenIndex(e)
  PROVE  AuditInvariant'
<1>1. /\ auditPc[e] = "open" /\ auditIndex' = Trail!Truncated
      /\ UNCHANGED <<auditTable, auditLog, auditRead, auditFailed, lostLog, together>>
      /\ Trail!Goes(e, "write") /\ AuditTypes
  BY DEF Trail!OpenIndex, AuditInvariant
<1>2. /\ auditPc' \in [AuditEvents -> {"row", "log", "read", "open", "write", "done"}]
      /\ auditPc'[e] = "write" /\ \A d \in AuditEvents \ {e} : auditPc'[d] = auditPc[d]
  BY <1>1, ThreadGoes
<1>3. AuditTypes' /\ AloneAtIndex'
  BY <1>1, <1>2 DEF AuditInvariant, AuditTypes, AloneAtIndex, Trail!InLock, Trail!Truncated
<1>4. \A d \in AuditEvents : EventHolds(d)'
  BY <1>1, <1>2 DEF AuditInvariant, EventHolds, Trail!InLock
<1>5. IndexHolds => IndexHolds'
  BY <1>1, <1>2 DEF IndexHolds, Indexed, Trail!Truncated
<1> QED
  BY <1>1, <1>3, <1>4, <1>5 DEF AuditInvariant

(* ... and written.                                                          *)
LEMMA IndexWriteKeeps ==
  ASSUME AuditConstants, AuditInvariant, NEW e \in AuditEvents, Trail!WriteIndex(e)
  PROVE  AuditInvariant'
<1>1. /\ auditPc[e] = "write" /\ auditIndex' = auditRead[e]
      /\ UNCHANGED <<auditTable, auditLog, auditRead, auditFailed, lostLog, together>>
      /\ Trail!Goes(e, "done") /\ AuditTypes /\ auditRead[e] \in Indexes
  BY DEF Trail!WriteIndex, AuditInvariant, AuditTypes
<1>2. /\ auditPc' \in [AuditEvents -> {"row", "log", "read", "open", "write", "done"}]
      /\ auditPc'[e] = "done" /\ \A d \in AuditEvents \ {e} : auditPc'[d] = auditPc[d]
  BY <1>1, ThreadGoes
<1>3. AuditTypes' /\ AloneAtIndex'
  BY <1>1, <1>2 DEF AuditInvariant, AuditTypes, AloneAtIndex, Trail!InLock
<1>4. \A d \in AuditEvents : EventHolds(d)'
  BY <1>1, <1>2 DEF AuditInvariant, EventHolds, Trail!InLock
<1>5. ASSUME ~together, IndexHolds PROVE IndexHolds'
  <2>1. \A d \in AuditEvents : auditPc[d] = "done" \/ d = e => Indexed(auditRead[e], d)
    BY <1>1, <1>5 DEF IndexHolds
  <2>2. auditRead[e] # Trail!Truncated
    BY <1>1, <2>1, WrittenIndex
  <2>3. \A d \in AuditEvents \ {e} : auditPc[d] \notin Trail!InLock
    BY <1>1, <1>5 DEF AuditInvariant, AloneAtIndex, Trail!InLock
  <2>4. auditIndex' # Trail!Truncated'
    BY <1>1, <2>2 DEF Trail!Truncated
  <2>5. \A d \in AuditEvents : auditPc'[d] = "done" => Indexed(auditIndex, d)'
    BY <1>1, <1>2, <2>1 DEF Indexed
  <2>6. \A d \in AuditEvents : auditPc'[d] \notin {"open", "write"}
    BY <1>2, <2>3 DEF Trail!InLock
  <2> QED
    BY <2>4, <2>5, <2>6 DEF IndexHolds
<1> QED
  BY <1>1, <1>3, <1>4, <1>5 DEF AuditInvariant

(* A write fails, or the thread dies.                                        *)
LEMMA FileErrorKeeps ==
  ASSUME AuditInvariant, NEW e \in AuditEvents, Trail!FileError(e)
  PROVE  AuditInvariant'
<1>1. /\ auditPc[e] # "row" /\ lostLog' = lostLog \cup {e}
      /\ UNCHANGED <<auditTable, auditLog, auditIndex, auditRead, auditFailed, together>>
      /\ Trail!Goes(e, "done") /\ AuditTypes
  BY DEF Trail!FileError, AuditInvariant, Trail!InLock
<1>2. /\ auditPc' \in [AuditEvents -> {"row", "log", "read", "open", "write", "done"}]
      /\ auditPc'[e] = "done" /\ \A d \in AuditEvents \ {e} : auditPc'[d] = auditPc[d]
  BY <1>1, ThreadGoes
<1>3. AuditTypes' /\ AloneAtIndex'
  BY <1>1, <1>2 DEF AuditInvariant, AuditTypes, AloneAtIndex, Trail!InLock
<1>4. \A d \in AuditEvents : EventHolds(d)'
  BY <1>1, <1>2 DEF AuditInvariant, EventHolds, Trail!InLock
<1>5. lostLog' # {}
  BY <1>1
<1> QED
  BY <1>3, <1>4, <1>5 DEF AuditInvariant

(* The invariant holds at first ...                                          *)
LEMMA AuditInit == Trail!Init => AuditInvariant
<1> SUFFICES ASSUME Trail!Init PROVE AuditInvariant
  OBVIOUS
<1>1. /\ auditLog = <<>> /\ auditIndex = Trail!NoEvents /\ auditPc = [e \in AuditEvents |-> "row"]
      /\ auditRead = [e \in AuditEvents |-> Trail!NoEvents] /\ Trail!NoEvents \in Indexes
  BY DEF Trail!Init, Trail!NoEvents, Indexes
<1>2. AuditTypes
  BY <1>1 DEF AuditTypes
<1>3. AloneAtIndex /\ \A e \in AuditEvents : EventHolds(e)
  BY <1>1 DEF AloneAtIndex, EventHolds, Trail!InLock
<1>4. auditIndex = Trail!Truncated => AuditEvents = {}
  <2> SUFFICES ASSUME NEW e \in AuditEvents, Trail!NoEvents = Trail!Truncated PROVE FALSE
    BY <1>1
  <2>1. Trail!NoEvents[SubjectOf[e]] = <<>> /\ Trail!Truncated[SubjectOf[e]] = <<"truncated">>
    BY SubjectIsCandidate DEF Trail!NoEvents, Trail!Truncated
  <2>2. <<>> # <<"truncated">>
    <3>1. Len(<<"truncated">>) = 1
      OBVIOUS
    <3>2. Len(<<>>) = 0
      OBVIOUS
    <3>3. 1 # 0
      OBVIOUS
    <3> QED
      BY <3>1, <3>2, <3>3, Zenon
  <2>3. Trail!NoEvents[SubjectOf[e]] = Trail!Truncated[SubjectOf[e]]
    OBVIOUS
  <2> QED
    BY <2>1, <2>2, <2>3, Zenon
<1> QED
  BY <1>1, <1>2, <1>3, <1>4 DEF AuditInvariant, IndexHolds

(* ... and is kept by every step.                                            *)
LEMMA AuditPreserved == AuditConstants /\ AuditInvariant /\ [Trail!Next]_(Trail!vars) => AuditInvariant'
<1>1. AuditInvariant /\ UNCHANGED Trail!vars => AuditInvariant'
  BY DEF Trail!vars, AuditInvariant, AuditTypes, AloneAtIndex, EventHolds, IndexHolds, Indexed
<1> QED
  BY <1>1, PersistKeeps, LineKeeps, IndexReadKeeps, IndexOpenKeeps, IndexWriteKeeps, FileErrorKeeps DEF Trail!Next

(* The timeline of a candidate has what the index, or the log, has.          *)
LEMMA AuditInvariantTells == AuditInvariant => Trail!TrailIsComplete
<1> SUFFICES ASSUME AuditInvariant, NEW e \in AuditEvents, auditPc[e] = "done"
             PROVE  /\ e \in auditTable \/ e \in auditFailed
                    /\ Trail!Contains(auditLog, e) \/ e \in lostLog
                    /\ ~together /\ lostLog = {} => e \in Trail!Timeline(SubjectOf[e])
  BY DEF Trail!TrailIsComplete
<1>1. /\ e \in auditTable \/ e \in auditFailed
      /\ Trail!Contains(auditLog, e) \/ e \in lostLog
  BY DEF AuditInvariant, EventHolds
<1>2. ASSUME ~together, lostLog = {} PROVE e \in Trail!Timeline(SubjectOf[e])
  <2>1. Trail!Contains(auditLog, e)
    BY <1>1, <1>2
  <2>2. auditIndex # Trail!Truncated => Trail!Contains(auditIndex[SubjectOf[e]], e)
    BY <1>2 DEF AuditInvariant, IndexHolds, Indexed
  <2> QED
    BY <2>1, <2>2 DEF Trail!Timeline
<1> QED
  BY <1>1, <1>2

(* Any number of threads of any processes: an event that was emitted is in   *)
(* the table and in the log, but where that very write failed, and while no  *)
(* other process was at the index, it is on its candidate's timeline.        *)
THEOREM EventsAreRemembered ==
  ASSUME AuditConstants
  PROVE  Trail!Init /\ [][Trail!Next]_(Trail!vars) => []Trail!TrailIsComplete
<1>1. AuditInvariant /\ [Trail!Next]_(Trail!vars) => AuditInvariant'
  BY AuditPreserved
<1> QED
  BY <1>1, AuditInit, AuditInvariantTells, PTL

-----------------------------------------------------------------------------
(* Webhook configurations and what the audit trail shows of them.            *)
Configured == INSTANCE Webhooks WITH
  row <- hookRows, call <- admin, jobs <- posting, post <- sending, faults <- misses,
  Calls <- Admins, Created <- HooksCreated, MaxFaults <- MaxHookFaults

(* A configuration that is there.                                            *)
HookRow(r) == DOMAIN r = {"is", "url", "types", "active"} /\ r.is = "row"

(* What is created is one.                                                   *)
HookConstants == HooksCreated \subseteq Configured!Rows

(* A request changes the endpoint, the subscriptions or the switch.          *)
AdminTyped(c) ==
  /\ DOMAIN admin[c] = {"pc", "op", "hook", "new", "saw"}
  /\ admin[c].pc \in {"idle", "died", "write", "refresh", "audit"}
  /\ admin[c].pc \in {"write", "refresh", "audit"} => admin[c].hook \in Hooks
  /\ admin[c].pc = "refresh" => admin[c].op # "deleted"
  /\ admin[c].pc = "write" =>
       \/ admin[c].op = "updated" /\ DOMAIN admin[c].new \subseteq {"url", "types"}
       \/ admin[c].op = "switched" /\ DOMAIN admin[c].new = {"active"}
       \/ admin[c].op = "deleted"

HookTypes ==
  /\ DOMAIN hookRows = Hooks
  /\ \A h \in Hooks : HookRow(hookRows[h]) \/ hookRows[h] \in {Configured!Absent, Configured!Gone}
  /\ DOMAIN admin = Admins /\ \A c \in Admins : AdminTyped(c)

(* An entry tells the endpoint and subscriptions of a configuration, its     *)
(* switch or its deletion ...                                                *)
Whats == {"endpoint", "switch", "deletion"}
Tells(op, what) ==
  op \in CASE what = "endpoint" -> {"created", "updated"}
           [] what = "switch"   -> {"created", "switched"}
           [] OTHER             -> {"deleted"}
Same(r, s, what) ==
  /\ what = "endpoint" => r.url = s.url /\ r.types = s.types
  /\ what = "switch" => r.active = s.active

(* ... or a request is on its way to record it: one that has not refreshed   *)
(* the row yet will see it as it is.                                         *)
TellsOf(c, h, what) ==
  /\ admin[c].hook = h /\ Tells(admin[c].op, what)
  /\ admin[c].pc = "refresh" \/ (admin[c].pc = "audit" /\ Same(admin[c].saw, hookRows[h], what))

Told(h, what) ==
  \/ \E e \in trail : e.hook = h /\ Tells(e.action, what) /\ Same(e.shows, hookRows[h], what)
  \/ \E c \in Admins : TellsOf(c, h, what)

(* All there is to tell of a configuration is told.                          *)
RowsTold ==
  \A h \in Hooks :
    /\ hookRows[h] = Configured!Gone => Told(h, "deletion")
    /\ HookRow(hookRows[h]) => Told(h, "endpoint") /\ Told(h, "switch")

(* The inductive invariant: unless a request died.                           *)
HookInvariant ==
  /\ HookTypes
  /\ (\A c \in Admins : admin[c].pc # "died") => RowsTold

(* The three states of a configuration.                                      *)
LEMMA HookStates ==
  /\ \A r \in Configured!Rows : HookRow(r)
  /\ ~HookRow(Configured!Absent) /\ ~HookRow(Configured!Gone) /\ Configured!Absent # Configured!Gone
  /\ \A h : HookRow(hookRows[h]) => Configured!Live(h)
  /\ HookTypes => \A h \in Hooks : Configured!Live(h) => HookRow(hookRows[h])
<1>1. Configured!Absent.is = "absent" /\ Configured!Gone.is = "gone"
  BY DEF Configured!Absent, Configured!Gone
<1>2. \A r \in Configured!Rows : HookRow(r)
  BY DEF Configured!Rows, Configured!Row, HookRow
<1> QED
  BY <1>1, <1>2 DEF HookRow, HookTypes, Configured!Live

(* A step of one request.                                                    *)
AdminSteps(c) ==
  /\ DOMAIN admin' = Admins /\ AdminTyped(c)'
  /\ \A d \in Admins \ {c} : admin'[d] = admin[d]

(* It leaves the types of the others.                                        *)
LEMMA AdminsTyped ==
  ASSUME HookTypes, NEW c \in Admins, AdminSteps(c)
  PROVE  DOMAIN admin' = Admins /\ \A d \in Admins : AdminTyped(d)'
BY DEF HookTypes, AdminSteps, AdminTyped

(* What is told stays told, if the row is the same in this respect and the   *)
(* request that steps did not tell it, or tells it still.                    *)
LEMMA ToldStays ==
  ASSUME NEW c \in Admins, AdminSteps(c), NEW h \in Hooks, NEW what \in Whats,
         trail \subseteq trail', Told(h, what),
         \A s : Same(s, hookRows[h], what) => Same(s, hookRows'[h], what),
         TellsOf(c, h, what) => Told(h, what)'
  PROVE  Told(h, what)'
<1>1. CASE \E e \in trail : e.hook = h /\ Tells(e.action, what) /\ Same(e.shows, hookRows[h], what)
  BY <1>1 DEF Told
<1>2. ASSUME NEW d \in Admins \ {c}, TellsOf(d, h, what) PROVE Told(h, what)'
  <2>1. TellsOf(d, h, what)'
    BY <1>2 DEF TellsOf, AdminSteps
  <2> QED
    BY <2>1 DEF Told
<1> QED
  BY <1>1, <1>2 DEF Told

(* A request begins, and what it is about to do it tells nobody.             *)
LEMMA AdminBegins ==
  ASSUME HookConstants, HookInvariant, NEW c \in Admins, NEW h \in Hooks,
         Configured!Begin(c, h) \/ \E r \in HooksCreated : Configured!Create(c, h, r)
  PROVE  HookInvariant'
<1>1. CASE Configured!Begin(c, h)
  <2>1. PICK op \in {"updated", "switched", "deleted"}, new \in Configured!Changes \cup Configured!Switches \cup {<<>>} :
          /\ Configured!Load(c, h, op, new)
          /\ op = "updated" => DOMAIN new \subseteq {"url", "types"}
          /\ op = "switched" => DOMAIN new = {"active"}
    <3>1. \A n \in Configured!Changes : DOMAIN n \subseteq {"url", "types"}
      BY DEF Configured!Changes
    <3>2. \A n \in Configured!Switches : DOMAIN n = {"active"}
      BY DEF Configured!Switches
    <3> QED
      BY <1>1, <3>1, <3>2 DEF Configured!Begin
  <2>2. /\ admin[c].pc = "idle" /\ UNCHANGED <<hookRows, trail>>
        /\ admin' = [admin EXCEPT ![c] = [pc |-> "write", op |-> op, hook |-> h, new |-> new, saw |-> hookRows[h]]]
    BY <2>1 DEF Configured!Load, Configured!Begins
  <2>3. AdminSteps(c) /\ admin'[c].pc = "write"
    BY <2>1, <2>2 DEF HookInvariant, HookTypes, AdminSteps, AdminTyped
  <2>4. HookTypes'
    BY <2>2, <2>3, AdminsTyped DEF HookInvariant, HookTypes
  <2>5. (\A d \in Admins : admin'[d].pc # "died") => \A d \in Admins : admin[d].pc # "died"
    BY <2>2, <2>3 DEF AdminSteps
  <2>6. RowsTold => RowsTold'
    <3>1. \A g, what : ~TellsOf(c, g, what)
      BY <2>2 DEF TellsOf
    <3>2. \A g \in Hooks, what \in Whats : Told(g, what) => Told(g, what)'
      BY <2>2, <2>3, <3>1, ToldStays
    <3> QED
      BY <2>2, <3>2 DEF RowsTold, Whats
  <2> QED
    BY <2>4, <2>5, <2>6 DEF HookInvariant
<1>2. ASSUME NEW r \in HooksCreated, Configured!Create(c, h, r) PROVE HookInvariant'
  <2>1. /\ admin[c].pc = "idle" /\ hookRows[h] = Configured!Absent /\ hookRows' = [hookRows EXCEPT ![h] = r]
        /\ admin' = [admin EXCEPT ![c] = [Configured!NoCall EXCEPT !.pc = "refresh", !.op = "created", !.hook = h]]
        /\ trail' = trail /\ HookRow(r)
    BY <1>2, HookStates DEF Configured!Create, Configured!Begins, HookConstants
  <2>2. /\ AdminSteps(c) /\ admin'[c].pc = "refresh" /\ admin'[c].op = "created" /\ admin'[c].hook = h
    BY <2>1 DEF HookInvariant, HookTypes, AdminSteps, AdminTyped, Configured!NoCall
  <2>3. /\ DOMAIN hookRows' = Hooks /\ hookRows'[h] = r /\ \A g \in Hooks \ {h} : hookRows'[g] = hookRows[g]
    BY <2>1 DEF HookInvariant, HookTypes
  <2>4. HookTypes'
    BY <2>1, <2>2, <2>3, AdminsTyped DEF HookInvariant, HookTypes, Configured!Absent, Configured!Gone
  <2>5. (\A d \in Admins : admin'[d].pc # "died") => \A d \in Admins : admin[d].pc # "died"
    BY <2>1, <2>2 DEF AdminSteps
  <2>6. RowsTold => RowsTold'
    <3>1. \A g, what : ~TellsOf(c, g, what)
      BY <2>1 DEF TellsOf
    <3>2. \A g \in Hooks \ {h}, what \in Whats : Told(g, what) => Told(g, what)'
      BY <2>1, <2>2, <2>3, <3>1, ToldStays
    <3>3. Told(h, "endpoint")' /\ Told(h, "switch")'
      BY <2>2 DEF Told, TellsOf, Tells
    <3>4. hookRows'[h] # Configured!Gone
      BY <2>1, <2>3, HookStates
    <3> QED
      BY <2>3, <3>2, <3>3, <3>4 DEF RowsTold, Whats, Configured!Gone
  <2> QED
    BY <2>4, <2>5, <2>6 DEF HookInvariant
<1> QED
  BY <1>1, <1>2

(* A request writes its columns: what it changes it will tell.               *)
LEMMA AdminWrites ==
  ASSUME HookInvariant, NEW c \in Admins, Configured!Write(c)
  PROVE  HookInvariant'
<1> DEFINE h == admin[c].hook
<1>1. admin[c].pc = "write" /\ trail' = trail /\ h \in Hooks /\ AdminTyped(c)
  BY DEF Configured!Write, HookInvariant, HookTypes, AdminTyped
<1>2. \A g, what : ~TellsOf(c, g, what)
  BY <1>1 DEF TellsOf
<1>3. CASE admin[c].op # "deleted" /\ ~Configured!Live(h)
  <2>1. hookRows' = hookRows /\ admin' = [admin EXCEPT ![c] = [Configured!NoCall EXCEPT !.pc = "idle"]]
    BY <1>3 DEF Configured!Write, Configured!Ends
  <2>2. AdminSteps(c) /\ admin'[c].pc = "idle"
    BY <2>1 DEF HookInvariant, HookTypes, AdminSteps, AdminTyped, Configured!NoCall
  <2>3. HookTypes'
    BY <2>1, <2>2, AdminsTyped DEF HookInvariant, HookTypes
  <2>4. \A g \in Hooks, what \in Whats : Told(g, what) => Told(g, what)'
    BY <1>1, <1>2, <2>1, <2>2, ToldStays
  <2>5. (\A d \in Admins : admin'[d].pc # "died") => \A d \in Admins : admin[d].pc # "died"
    BY <1>1, <2>2 DEF AdminSteps
  <2> QED
    BY <2>1, <2>3, <2>4, <2>5 DEF HookInvariant, RowsTold, Whats
<1>4. CASE admin[c].op = "deleted" \/ Configured!Live(h)
  <2> DEFINE pc == IF admin[c].op = "deleted" THEN "audit" ELSE "refresh"
             r  == IF admin[c].op = "deleted" THEN Configured!Gone ELSE Configured!Written(c)
  <2>1. hookRows' = [hookRows EXCEPT ![h] = r] /\ admin' = [admin EXCEPT ![c].pc = pc]
    BY <1>4 DEF Configured!Write, Configured!Goes
  <2>2. /\ AdminSteps(c) /\ admin'[c].pc = pc
        /\ admin'[c].op = admin[c].op /\ admin'[c].hook = h /\ admin'[c].saw = admin[c].saw
    BY <1>1, <2>1 DEF HookInvariant, HookTypes, AdminSteps, AdminTyped
  <2>3. /\ DOMAIN hookRows' = Hooks /\ hookRows'[h] = r /\ \A g \in Hooks \ {h} : hookRows'[g] = hookRows[g]
    BY <1>1, <2>1 DEF HookInvariant, HookTypes
  <2>4. ASSUME admin[c].op # "deleted"
        PROVE  /\ HookRow(r) /\ HookRow(hookRows[h])
               /\ admin[c].op = "updated" => r.active = hookRows[h].active
               /\ admin[c].op = "switched" => r.url = hookRows[h].url /\ r.types = hookRows[h].types
    <3>1. HookRow(hookRows[h])
      BY <1>1, <1>4, <2>4, HookStates DEF HookInvariant
    <3>2. r = [f \in {"is", "url", "types", "active"} |->
                 IF f \in DOMAIN admin[c].new /\ admin[c].new[f] # admin[c].saw[f]
                   THEN admin[c].new[f] ELSE hookRows[h][f]]
      BY <2>4, <3>1 DEF Configured!Written, HookRow
    <3> HIDE DEF r
    <3> QED
      BY <1>1, <2>4, <3>1, <3>2 DEF AdminTyped, HookRow
  <2>5. HookTypes'
    BY <2>2, <2>3, <2>4, AdminsTyped DEF HookInvariant, HookTypes, Configured!Absent, Configured!Gone
  <2>6. (\A d \in Admins : admin'[d].pc # "died") => \A d \in Admins : admin[d].pc # "died"
    BY <1>1, <2>2 DEF AdminSteps
  <2>7. \A g \in Hooks \ {h}, what \in Whats : Told(g, what) => Told(g, what)'
    BY <1>1, <1>2, <2>2, <2>3, ToldStays
  <2>8. \A what \in Whats : Tells(admin[c].op, what) => Told(h, what)'
    <3>1. ASSUME NEW what \in Whats, Tells(admin[c].op, what) PROVE TellsOf(c, h, what)'
      BY <2>2, <3>1 DEF TellsOf, Tells, Same, Whats
    <3> QED
      BY <3>1 DEF Told
  <2>9. CASE admin[c].op = "deleted"
    <3>1. hookRows'[h] = Configured!Gone /\ Told(h, "deletion")'
      BY <2>3, <2>8, <2>9 DEF Tells, Whats
    <3>2. ~HookRow(hookRows'[h])
      BY <3>1, HookStates
    <3>3. RowsTold => RowsTold'
      <4> SUFFICES ASSUME RowsTold, NEW g \in Hooks
                   PROVE  /\ hookRows'[g] = Configured!Gone => Told(g, "deletion")'
                          /\ HookRow(hookRows'[g]) => Told(g, "endpoint")' /\ Told(g, "switch")'
        BY DEF RowsTold, Configured!Gone
      <4>1. CASE g = h
        BY <2>2, <3>1, <3>2, <4>1
      <4>2. CASE g # h
        BY <2>3, <2>7, <4>2 DEF RowsTold, Whats
      <4> QED
        BY <4>1, <4>2
    <3> QED
      BY <2>5, <2>6, <3>3 DEF HookInvariant
  <2>10. CASE admin[c].op \in {"updated", "switched"}
    <3>1. HookRow(hookRows[h]) /\ HookRow(hookRows'[h]) /\ hookRows'[h] # Configured!Gone
      BY <2>3, <2>4, <2>10, HookStates
    <3>2. ASSUME NEW what \in {"endpoint", "switch"}, Told(h, what), ~Tells(admin[c].op, what)
          PROVE  Told(h, what)'
      <4>1. \A s : Same(s, hookRows[h], what) => Same(s, hookRows'[h], what)
        BY <2>3, <2>4, <2>10, <3>2 DEF Same, Tells
      <4> QED
        BY <1>1, <1>2, <2>2, <3>2, <4>1, ToldStays DEF Whats
    <3>3. RowsTold => Told(h, "endpoint")' /\ Told(h, "switch")'
      BY <1>1, <2>8, <3>1, <3>2 DEF RowsTold, Whats
    <3>4. RowsTold => RowsTold'
      <4> SUFFICES ASSUME RowsTold, NEW g \in Hooks
                   PROVE  /\ hookRows'[g] = Configured!Gone => Told(g, "deletion")'
                          /\ HookRow(hookRows'[g]) => Told(g, "endpoint")' /\ Told(g, "switch")'
        BY DEF RowsTold, Configured!Gone
      <4>1. CASE g = h
        BY <2>2, <3>1, <3>3, <4>1
      <4>2. CASE g # h
        BY <2>3, <2>7, <4>2 DEF RowsTold, Whats
      <4> QED
        BY <4>1, <4>2
    <3> QED
      BY <2>5, <2>6, <3>4 DEF HookInvariant
  <2> QED
    BY <1>1, <2>9, <2>10 DEF AdminTyped
<1> QED
  BY <1>3, <1>4

(* It refreshes the row and records what it saw, or dies.                    *)
LEMMA AdminEnds ==
  ASSUME HookInvariant, NEW c \in Admins,
         Configured!Refresh(c) \/ Configured!Record(c) \/ Configured!Die(c)
  PROVE  HookInvariant'
<1> DEFINE h == admin[c].hook
<1>1. /\ hookRows' = hookRows /\ trail \subseteq trail' /\ h \in Hooks /\ AdminTyped(c)
      /\ admin[c].pc \in {"write", "refresh", "audit"}
  BY DEF Configured!Refresh, Configured!Record, Configured!Die, HookInvariant, HookTypes, AdminTyped
<1>2. CASE Configured!Refresh(c) /\ Configured!Live(h)
  <2>1. admin[c].pc = "refresh" /\ admin' = [admin EXCEPT ![c].pc = "audit", ![c].saw = hookRows[h]]
    BY <1>2 DEF Configured!Refresh
  <2>2. /\ AdminSteps(c) /\ admin'[c].pc = "audit" /\ admin'[c].saw = hookRows[h]
        /\ admin'[c].op = admin[c].op /\ admin'[c].hook = h
    BY <1>1, <2>1 DEF HookInvariant, HookTypes, AdminSteps, AdminTyped
  <2>3. \A g \in Hooks, what \in Whats : TellsOf(c, g, what) => Told(g, what)'
    <3>1. ASSUME NEW g \in Hooks, NEW what \in Whats, TellsOf(c, g, what) PROVE TellsOf(c, g, what)'
      BY <1>1, <2>2, <3>1 DEF TellsOf, Same
    <3> QED
      BY <3>1 DEF Told
  <2>4. \A g \in Hooks, what \in Whats : Told(g, what) => Told(g, what)'
    BY <1>1, <2>2, <2>3, ToldStays
  <2>5. HookTypes'
    BY <1>1, <2>2, AdminsTyped DEF HookInvariant, HookTypes
  <2>6. (\A d \in Admins : admin'[d].pc # "died") => \A d \in Admins : admin[d].pc # "died"
    BY <1>1, <2>1, <2>2 DEF AdminSteps
  <2> QED
    BY <1>1, <2>4, <2>5, <2>6 DEF HookInvariant, RowsTold, Whats
<1>3. CASE Configured!Refresh(c) /\ ~Configured!Live(h)
  <2>1. admin[c].pc = "refresh" /\ admin' = [admin EXCEPT ![c] = [Configured!NoCall EXCEPT !.pc = "idle"]]
    BY <1>3 DEF Configured!Refresh, Configured!Ends
  <2>2. AdminSteps(c) /\ admin'[c].pc = "idle"
    BY <2>1 DEF HookInvariant, HookTypes, AdminSteps, AdminTyped, Configured!NoCall
  <2>3. ~HookRow(hookRows[h]) /\ ~Tells(admin[c].op, "deletion")
    BY <1>1, <1>3, <2>1, HookStates DEF AdminTyped, Tells
  <2>4. \A g \in Hooks, what \in Whats : g # h \/ what = "deletion" => (Told(g, what) => Told(g, what)')
    <3>1. \A g \in Hooks, what \in Whats : g # h \/ what = "deletion" => ~TellsOf(c, g, what)
      BY <2>3 DEF TellsOf
    <3> QED
      BY <1>1, <2>2, <3>1, ToldStays
  <2>5. HookTypes'
    BY <1>1, <2>2, AdminsTyped DEF HookInvariant, HookTypes
  <2>6. (\A d \in Admins : admin'[d].pc # "died") => \A d \in Admins : admin[d].pc # "died"
    BY <1>1, <2>1, <2>2 DEF AdminSteps
  <2> QED
    BY <1>1, <2>3, <2>4, <2>5, <2>6 DEF HookInvariant, RowsTold, Whats
<1>4. CASE Configured!Record(c)
  <2>1. /\ admin[c].pc = "audit" /\ admin' = [admin EXCEPT ![c] = [Configured!NoCall EXCEPT !.pc = "idle"]]
        /\ trail' = trail \cup {[hook |-> h, action |-> admin[c].op, shows |-> admin[c].saw]}
    BY <1>4 DEF Configured!Record, Configured!Ends
  <2>2. AdminSteps(c) /\ admin'[c].pc = "idle"
    BY <2>1 DEF HookInvariant, HookTypes, AdminSteps, AdminTyped, Configured!NoCall
  <2>3. \A g \in Hooks, what \in Whats : TellsOf(c, g, what) => Told(g, what)'
    <3>1. PICK e : e = [hook |-> h, action |-> admin[c].op, shows |-> admin[c].saw]
      OBVIOUS
    <3>2. e \in trail' /\ e.hook = h /\ e.action = admin[c].op /\ e.shows = admin[c].saw
      BY <2>1, <3>1
    <3> QED
      BY <1>1, <2>1, <3>2 DEF TellsOf, Told
  <2>4. \A g \in Hooks, what \in Whats : Told(g, what) => Told(g, what)'
    BY <1>1, <2>2, <2>3, ToldStays
  <2>5. HookTypes'
    BY <1>1, <2>2, AdminsTyped DEF HookInvariant, HookTypes
  <2>6. (\A d \in Admins : admin'[d].pc # "died") => \A d \in Admins : admin[d].pc # "died"
    BY <1>1, <2>1, <2>2 DEF AdminSteps
  <2> QED
    BY <1>1, <2>4, <2>5, <2>6 DEF HookInvariant, RowsTold, Whats
<1>5. CASE Configured!Die(c)
  <2>1. admin' = [admin EXCEPT ![c] = [Configured!NoCall EXCEPT !.pc = "died"]]
    BY <1>5 DEF Configured!Die, Configured!Ends
  <2>2. AdminSteps(c) /\ admin'[c].pc = "died"
    BY <2>1 DEF HookInvariant, HookTypes, AdminSteps, AdminTyped, Configured!NoCall
  <2>3. HookTypes'
    BY <1>1, <2>2, AdminsTyped DEF HookInvariant, HookTypes
  <2> QED
    BY <2>2, <2>3 DEF HookInvariant
<1> QED
  BY <1>2, <1>3, <1>4, <1>5

(* The invariant holds at first ...                                          *)
LEMMA HookInit == Configured!Init => HookInvariant
<1> SUFFICES ASSUME Configured!Init PROVE HookInvariant
  OBVIOUS
<1>1. /\ hookRows = [h \in Hooks |-> Configured!Absent] /\ admin = [c \in Admins |-> Configured!NoCall]
  BY DEF Configured!Init
<1>2. HookTypes
  BY <1>1 DEF HookTypes, AdminTyped, Configured!NoCall
<1>3. RowsTold
  BY <1>1, HookStates DEF RowsTold
<1> QED
  BY <1>2, <1>3 DEF HookInvariant

(* ... and is kept by every step.                                            *)
LEMMA HookPreserved ==
  HookConstants /\ HookInvariant /\ [Configured!Next]_(Configured!webhookVars) => HookInvariant'
<1> SUFFICES ASSUME HookConstants, HookInvariant, [Configured!Next]_(Configured!webhookVars) PROVE HookInvariant'
  OBVIOUS
<1>1. ASSUME UNCHANGED <<hookRows, admin, trail>> PROVE HookInvariant'
  BY <1>1 DEF HookInvariant, HookTypes, AdminTyped, RowsTold, Told, TellsOf, Configured!Gone, Configured!Absent
<1>2. CASE UNCHANGED Configured!webhookVars
  BY <1>1, <1>2 DEF Configured!webhookVars
<1>3. ASSUME NEW c \in Admins, Configured!Manage(c) PROVE HookInvariant'
  BY <1>3, AdminBegins, AdminWrites, AdminEnds DEF Configured!Manage
<1>4. ASSUME NEW k, Configured!Dispatch(k) PROVE HookInvariant'
  BY <1>1, <1>4 DEF Configured!Dispatch
<1>5. CASE Configured!Deliver
  BY <1>1, <1>5 DEF Configured!Deliver, Configured!Take, Configured!Send
<1> QED
  BY <1>2, <1>3, <1>4, <1>5 DEF Configured!Next

(* When no request is under way, the entries tell it.                        *)
LEMMA HookInvariantTells == HookInvariant => Configured!TrailTellsRows
<1> SUFFICES ASSUME HookInvariant, \A c \in Admins : admin[c].pc = "idle" PROVE Configured!TrailTellsRows
  BY DEF Configured!TrailTellsRows
<1>1. \A h, what : Told(h, what) =>
        \E e \in trail : e.hook = h /\ Tells(e.action, what) /\ Same(e.shows, hookRows[h], what)
  BY DEF Told, TellsOf
<1>2. RowsTold /\ HookTypes
  BY DEF HookInvariant
<1>3. ASSUME NEW h \in Hooks, hookRows[h] = Configured!Gone
      PROVE  \E e \in {f \in trail : f.hook = h} : e.action = "deleted"
  BY <1>1, <1>2, <1>3 DEF RowsTold, Tells
<1>4. ASSUME NEW h \in Hooks, Configured!Live(h)
      PROVE  /\ \E e \in {f \in trail : f.hook = h} : e.action \in {"created", "updated"}
                  /\ e.shows.url = hookRows[h].url /\ e.shows.types = hookRows[h].types
             /\ \E e \in {f \in trail : f.hook = h} :
                  e.action \in {"created", "switched"} /\ e.shows.active = hookRows[h].active
  <2>1. Told(h, "endpoint") /\ Told(h, "switch")
    BY <1>2, <1>4, HookStates DEF RowsTold
  <2>2. PICK e \in trail : e.hook = h /\ Tells(e.action, "endpoint") /\ Same(e.shows, hookRows[h], "endpoint")
    BY <1>1, <2>1
  <2>3. PICK f \in trail : f.hook = h /\ Tells(f.action, "switch") /\ Same(f.shows, hookRows[h], "switch")
    BY <1>1, <2>1
  <2> QED
    BY <2>2, <2>3 DEF Tells, Same
<1> QED
  BY <1>3, <1>4 DEF Configured!TrailTellsRows

(* Any number of admins who change any configurations, their steps mixed:    *)
(* once their calls have returned, and none died, the audit trail shows each *)
(* configuration as it is.                                                   *)
THEOREM TrailShowsConfigurations ==
  ASSUME HookConstants
  PROVE  Configured!Init /\ [][Configured!Next]_(Configured!webhookVars) => []Configured!TrailTellsRows
<1>1. HookInvariant /\ [Configured!Next]_(Configured!webhookVars) => HookInvariant'
  BY HookPreserved
<1> QED
  BY <1>1, HookInit, HookInvariantTells, PTL
-----------------------------------------------------------------------------
(* Deliveries to webhooks.                                                   *)

(* What becomes of a job.                                                    *)
JobStates == {"pending", "retryable", "succeeded", "failed"}
(* A configuration that is gone or switched off was switched off or deleted. *)
HookOff(h) ==
  hookRows[h] = Configured!Gone \/ (Configured!Live(h) /\ ~hookRows[h].active) => h \in off

(* A delivery job is of a configuration that was there, was received no      *)
(* oftener than it failed, but once when it succeeded, and ended for a       *)
(* reason.                                                                   *)
PostHolds(k) ==
  /\ k[1] \in Hooks /\ hookRows[k[1]] # Configured!Absent
  /\ posting[k] \in [status : JobStates, tries : Nat] /\ got[k] \in Nat
  /\ got[k] =< IF posting[k].status = "succeeded" THEN misses + 1 ELSE misses
  /\ posting[k].status = "succeeded" => got[k] > 0 \/ k[1] \in off
  /\ posting[k].status = "failed" => misses > 0 \/ k[1] \in off

(* The inductive invariant of deliveries: the job at hand is still to be     *)
(* done.                                                                     *)
DeliveryInvariant ==
  /\ misses \in Nat /\ DOMAIN got = DOMAIN posting
  /\ \A k \in DOMAIN posting : PostHolds(k)
  /\ sending = Configured!Idle \/ (sending \in DOMAIN posting /\ Configured!Runnable(sending))
  /\ \A h \in Hooks : HookOff(h)

(* No delivery has been asked for at first ...                               *)
LEMMA DeliveryInit == Configured!Init => DeliveryInvariant
<1> SUFFICES ASSUME Configured!Init PROVE DeliveryInvariant
  OBVIOUS
<1>1. /\ hookRows = [h \in Hooks |-> Configured!Absent] /\ sending = Configured!Idle /\ misses = 0
      /\ DOMAIN posting = {} /\ DOMAIN got = {}
  BY DEF Configured!Init
<1>2. \A h \in Hooks : HookOff(h)
  BY <1>1, HookStates DEF HookOff, Configured!Absent, Configured!Live
<1> QED
  BY <1>1, <1>2 DEF DeliveryInvariant

(* A request may switch off or delete a configuration, which is then off.    *)
LEMMA ManagedHooks ==
  ASSUME HookConstants, HookInvariant, \A g \in Hooks : HookOff(g), NEW c \in Admins, Configured!Manage(c)
  PROVE  /\ \A g \in Hooks : HookOff(g)'
         /\ \A g \in Hooks : hookRows[g] # Configured!Absent => hookRows'[g] # Configured!Absent
         /\ off \subseteq off'
<1>1. CASE UNCHANGED <<hookRows, off>>
  BY <1>1 DEF HookOff, Configured!Live, Configured!Gone, Configured!Absent
<1>2. ASSUME NEW h \in Hooks, NEW r \in HooksCreated, Configured!Create(c, h, r)
      PROVE  /\ \A g \in Hooks : HookOff(g)'
             /\ \A g \in Hooks : hookRows[g] # Configured!Absent => hookRows'[g] # Configured!Absent
             /\ off \subseteq off'
  <2>1. /\ hookRows' = [hookRows EXCEPT ![h] = r] /\ hookRows[h] = Configured!Absent
        /\ off' = IF r.active THEN off ELSE off \cup {h}
    BY <1>2 DEF Configured!Create
  <2>2. /\ hookRows'[h] = r /\ \A g \in Hooks \ {h} : hookRows'[g] = hookRows[g]
        /\ HookRow(r)
    BY <2>1, HookStates DEF HookConstants, HookInvariant, HookTypes
  <2>3. r # Configured!Gone
    BY <2>2, HookStates
  <2>4. HookOff(h)'
    BY <2>1, <2>2, <2>3 DEF HookOff, Configured!Live, Configured!Gone
  <2>5. \A g \in Hooks \ {h} : HookOff(g)'
    BY <2>1, <2>2 DEF HookOff, Configured!Live, Configured!Gone
  <2> QED
    BY <2>1, <2>2, <2>4, <2>5 DEF Configured!Absent
<1>3. CASE Configured!Write(c)
  <2> DEFINE h == admin[c].hook
             r == IF admin[c].op = "deleted" THEN Configured!Gone ELSE Configured!Written(c)
  <2>1. h \in Hooks /\ AdminTyped(c) /\ admin[c].pc = "write"
    BY <1>3 DEF Configured!Write, HookInvariant, HookTypes, AdminTyped
  <2>2. CASE admin[c].op # "deleted" /\ ~Configured!Live(h)
    BY <1>1, <1>3, <2>2 DEF Configured!Write
  <2>3. CASE admin[c].op = "deleted" \/ Configured!Live(h)
    <3>1. /\ hookRows' = [hookRows EXCEPT ![h] = r]
          /\ off' = IF admin[c].op = "deleted" \/ ~r.active THEN off \cup {h} ELSE off
      BY <1>3, <2>3 DEF Configured!Write
    <3>2. hookRows'[h] = r /\ \A g \in Hooks \ {h} : hookRows'[g] = hookRows[g]
      BY <2>1, <3>1 DEF HookInvariant, HookTypes
    <3>3. r # Configured!Absent /\ (admin[c].op # "deleted" => r # Configured!Gone)
      <4>1. ASSUME admin[c].op # "deleted" PROVE HookRow(r)
        <5>1. HookRow(hookRows[h])
          BY <2>1, <2>3, <4>1, HookStates DEF HookInvariant
        <5>2. r = [f \in {"is", "url", "types", "active"} |->
                     IF f \in DOMAIN admin[c].new /\ admin[c].new[f] # admin[c].saw[f]
                       THEN admin[c].new[f] ELSE hookRows[h][f]]
          BY <4>1, <5>1 DEF Configured!Written, HookRow
        <5> HIDE DEF r
        <5> QED
          BY <2>1, <4>1, <5>1, <5>2 DEF AdminTyped, HookRow
      <4> QED
        BY <4>1, HookStates
    <3> HIDE DEF r
    <3>4. \A g \in Hooks : g = h => HookOff(g)'
      BY <3>1, <3>2, <3>3 DEF HookOff, Configured!Live, Configured!Gone
    <3>5. \A g \in Hooks \ {h} : HookOff(g)'
      BY <3>1, <3>2 DEF HookOff, Configured!Live, Configured!Gone
    <3> QED
      BY <2>1, <3>1, <3>2, <3>3, <3>4, <3>5 DEF Configured!Absent
  <2> QED
    BY <2>2, <2>3
<1>4. CASE Configured!Refresh(c) \/ Configured!Record(c) \/ Configured!Die(c)
  BY <1>1, <1>4 DEF Configured!Refresh, Configured!Record, Configured!Die
<1>5. ASSUME NEW h \in Hooks, Configured!Begin(c, h) PROVE UNCHANGED <<hookRows, off>>
  BY <1>5 DEF Configured!Begin, Configured!Load
<1> QED
  BY <1>1, <1>2, <1>3, <1>4, <1>5 DEF Configured!Manage

(* The deliveries are none of its business.                                  *)
LEMMA ManageDelivers ==
  ASSUME HookConstants, HookInvariant, DeliveryInvariant, NEW c \in Admins, Configured!Manage(c)
  PROVE  DeliveryInvariant'
<1>1. /\ \A g \in Hooks : HookOff(g)'
      /\ \A g \in Hooks : hookRows[g] # Configured!Absent => hookRows'[g] # Configured!Absent
      /\ off \subseteq off'
  BY ManagedHooks DEF DeliveryInvariant
<1>2. UNCHANGED <<posting, sending, got>> /\ (misses' = misses \/ misses' = misses + 1)
  BY DEF Configured!Manage, Configured!Create, Configured!Begin, Configured!Load, Configured!Write,
    Configured!Refresh, Configured!Record, Configured!Die, Configured!DeliverySame
<1>3. misses' \in Nat /\ misses =< misses' /\ misses \in Nat
  BY <1>2 DEF DeliveryInvariant
<1>4. ASSUME NEW k \in DOMAIN posting PROVE PostHolds(k)'
  <2>1. PostHolds(k)
    BY DEF DeliveryInvariant
  <2>2. k[1] \in Hooks /\ hookRows'[k[1]] # Configured!Absent
    BY <1>1, <2>1 DEF PostHolds
  <2> QED
    BY <1>1, <1>2, <1>3, <2>1, <2>2 DEF PostHolds, Configured!Absent
<1> QED
  BY <1>1, <1>2, <1>3, <1>4 DEF DeliveryInvariant, Configured!Idle, Configured!Runnable

(* A job for each configuration that subscribes and is on.                   *)
LEMMA DispatchDelivers ==
  ASSUME DeliveryInvariant, NEW k, Configured!Dispatch(k)
  PROVE  DeliveryInvariant'
<1> DEFINE new == {<<h, events + 1>> : h \in Configured!Subscribers(k)}
<1>1. /\ posting' = [x \in DOMAIN posting \cup new |->
                       IF x \in new THEN [status |-> "pending", tries |-> 0] ELSE posting[x]]
      /\ got' = [x \in DOMAIN posting \cup new |-> IF x \in new THEN 0 ELSE got[x]]
      /\ UNCHANGED <<hookRows, sending, off, misses>>
  BY DEF Configured!Dispatch
<1>2. \A x \in new : x[1] \in Hooks /\ Configured!Live(x[1])
  BY DEF Configured!Subscribers
<1> HIDE DEF new
<1>3. ASSUME NEW x \in DOMAIN posting' PROVE PostHolds(x)'
  <2>1. CASE x \in new
    <3>1. posting'[x] = [status |-> "pending", tries |-> 0] /\ got'[x] = 0
      BY <1>1, <2>1
    <3>2. x[1] \in Hooks /\ hookRows'[x[1]] # Configured!Absent
      BY <1>1, <1>2, <2>1 DEF Configured!Live, Configured!Absent
    <3> QED
      BY <1>1, <3>1, <3>2 DEF PostHolds, JobStates, DeliveryInvariant, Configured!Absent
  <2>2. CASE x \notin new
    <3>1. x \in DOMAIN posting /\ posting'[x] = posting[x] /\ got'[x] = got[x] /\ PostHolds(x)
      BY <1>1, <2>2 DEF DeliveryInvariant
    <3> QED
      BY <1>1, <3>1 DEF PostHolds, Configured!Absent
  <2> QED
    BY <2>1, <2>2
<1>4. sending' = Configured!Idle \/ (sending' \in DOMAIN posting' /\ posting'[sending'].status \in {"pending", "retryable"})
  BY <1>1 DEF DeliveryInvariant, Configured!Runnable
<1>5. \A h \in Hooks : HookOff(h)'
  BY <1>1 DEF DeliveryInvariant, HookOff, Configured!Live, Configured!Gone
<1> QED
  BY <1>1, <1>3, <1>4, <1>5 DEF DeliveryInvariant, Configured!Idle, Configured!Runnable

(* Taking a job ends it only for a configuration that is off.                *)
LEMMA TakeDelivers ==
  ASSUME HookInvariant, DeliveryInvariant, NEW k \in DOMAIN posting, Configured!Take(k)
  PROVE  DeliveryInvariant'
<1>1. /\ PostHolds(k) /\ Configured!Runnable(k) /\ UNCHANGED <<hookRows, got, off, misses>>
      /\ \A h \in Hooks : HookOff(h)'
  BY DEF DeliveryInvariant, Configured!Take, HookOff, Configured!Live, Configured!Gone
<1>2. CASE sending' = k /\ posting' = posting
  BY <1>1, <1>2 DEF DeliveryInvariant, PostHolds, Configured!Runnable, Configured!Absent
<1>3. ASSUME NEW s \in {"failed", "succeeded"}, Configured!SetStatus(k, s), sending' = Configured!Idle, k[1] \in off
      PROVE  DeliveryInvariant'
  <2>1. /\ DOMAIN posting' = DOMAIN posting /\ posting'[k] = [posting[k] EXCEPT !.status = s]
        /\ \A x \in DOMAIN posting \ {k} : posting'[x] = posting[x]
    BY <1>3 DEF Configured!SetStatus
  <2>2. PostHolds(k)'
    <3>1. posting'[k] \in [status : JobStates, tries : Nat] /\ posting'[k].status = s
      BY <1>1, <1>3, <2>1 DEF PostHolds, JobStates
    <3>2. got[k] \in Nat /\ misses \in Nat /\ got[k] =< misses
      BY <1>1 DEF PostHolds, Configured!Runnable, DeliveryInvariant
    <3> QED
      BY <1>1, <1>3, <3>1, <3>2 DEF PostHolds, Configured!Absent
  <2>3. \A x \in DOMAIN posting \ {k} : PostHolds(x)'
    BY <1>1, <2>1 DEF DeliveryInvariant, PostHolds, Configured!Absent
  <2> QED
    BY <1>1, <1>3, <2>1, <2>2, <2>3 DEF DeliveryInvariant, Configured!Idle
<1>4. k[1] \in Hooks /\ hookRows[k[1]] # Configured!Absent
  BY <1>1 DEF PostHolds
<1>5. ~Configured!Live(k[1]) => hookRows[k[1]] = Configured!Gone
  <2>1. HookTypes
    BY DEF HookInvariant
  <2> QED
    BY <1>4, <2>1, HookStates DEF HookTypes
<1>6. ~Configured!Live(k[1]) \/ ~hookRows[k[1]].active => k[1] \in off
  BY <1>4, <1>5 DEF DeliveryInvariant, HookOff
<1> QED
  BY <1>2, <1>3, <1>6 DEF Configured!Take

(* An answer: a success was received, whatever else happens is a failure.    *)
LEMMA SendDelivers ==
  ASSUME DeliveryInvariant, NEW a \in Configured!Answers, NEW received \in BOOLEAN, Configured!Send(a, received)
  PROVE  DeliveryInvariant'
<1>0. PICK k : k = sending
  OBVIOUS
<1>1. /\ k \in DOMAIN posting /\ Configured!Runnable(k) /\ PostHolds(k) /\ (a = "ok" => received)
      /\ misses' = (IF a = "ok" THEN misses ELSE misses + 1) /\ misses \in Nat
      /\ got' = (IF received THEN [got EXCEPT ![k] = @ + 1] ELSE got)
      /\ sending' = Configured!Idle /\ UNCHANGED <<hookRows, off>>
  BY <1>0 DEF Configured!Send, DeliveryInvariant
<1>2. /\ DOMAIN got' = DOMAIN posting /\ got'[k] = (IF received THEN got[k] + 1 ELSE got[k])
      /\ \A x \in DOMAIN posting \ {k} : got'[x] = got[x]
      /\ got[k] \in Nat /\ got[k] =< misses
  BY <1>1 DEF DeliveryInvariant, PostHolds, Configured!Runnable
<1>3. /\ DOMAIN posting' = DOMAIN posting /\ posting'[k] \in [status : JobStates, tries : Nat]
      /\ \A x \in DOMAIN posting \ {k} : posting'[x] = posting[x]
      /\ posting'[k].status = "succeeded" <=> a = "ok"
  <2>1. posting[k] \in [status : JobStates, tries : Nat] /\ posting[k].status \in {"pending", "retryable"}
    BY <1>1 DEF PostHolds, Configured!Runnable
  <2>2. Configured!Answered(k, a)
    BY <1>0 DEF Configured!Send
  <2>3. CASE a = "ok"
    BY <1>1, <2>1, <2>2, <2>3 DEF Configured!Answered, Configured!SetStatus, JobStates
  <2>4. CASE a = "refused"
    BY <1>1, <2>1, <2>2, <2>4 DEF Configured!Answered, Configured!SetStatus, JobStates
  <2>5. CASE a = "crash"
    BY <2>1, <2>2, <2>5 DEF Configured!Answered
  <2>6. CASE a \in {"busy", "timeout"}
    <3> DEFINE s == IF posting[k].tries + 1 >= MaxAttempts THEN "failed" ELSE "retryable"
    <3>1. posting' = [posting EXCEPT ![k] = [status |-> s, tries |-> posting[k].tries + 1]]
      BY <2>2, <2>6 DEF Configured!Answered
    <3>2. s \in {"failed", "retryable"}
      OBVIOUS
    <3> HIDE DEF s
    <3> QED
      BY <1>1, <2>1, <2>6, <3>1, <3>2 DEF JobStates
  <2> QED
    BY <2>3, <2>4, <2>5, <2>6 DEF Configured!Answers
<1>4. misses' \in Nat /\ misses =< misses' /\ (a # "ok" => misses' = misses + 1)
  BY <1>1
<1>5. PostHolds(k)'
  <2>1. got'[k] \in Nat /\ got'[k] =< IF posting'[k].status = "succeeded" THEN misses' + 1 ELSE misses'
    BY <1>1, <1>2, <1>3, <1>4
  <2>2. a = "ok" => got'[k] > 0
    BY <1>1, <1>2
  <2>3. a # "ok" => misses' > 0
    BY <1>1, <1>4
  <2> QED
    BY <1>1, <1>3, <2>1, <2>2, <2>3 DEF PostHolds, Configured!Absent
<1>6. ASSUME NEW x \in DOMAIN posting \ {k} PROVE PostHolds(x)'
  <2>1. PostHolds(x) /\ posting'[x] = posting[x] /\ got'[x] = got[x]
    BY <1>2, <1>3 DEF DeliveryInvariant
  <2> QED
    BY <1>1, <1>4, <2>1 DEF PostHolds, Configured!Absent
<1>7. \A h \in Hooks : HookOff(h)'
  BY <1>1 DEF DeliveryInvariant, HookOff, Configured!Live, Configured!Gone
<1> QED
  BY <1>1, <1>2, <1>3, <1>4, <1>5, <1>6, <1>7 DEF DeliveryInvariant, Configured!Idle

(* Every step keeps both invariants.                                         *)
LEMMA DeliveryPreserved ==
  HookConstants /\ HookInvariant /\ DeliveryInvariant /\ [Configured!Next]_(Configured!webhookVars)
    => DeliveryInvariant'
<1> SUFFICES ASSUME HookConstants, HookInvariant, DeliveryInvariant, [Configured!Next]_(Configured!webhookVars)
             PROVE  DeliveryInvariant'
  OBVIOUS
<1>1. CASE UNCHANGED Configured!webhookVars
  BY <1>1 DEF Configured!webhookVars, DeliveryInvariant, PostHolds, HookOff, Configured!Runnable, Configured!Idle,
    Configured!Live, Configured!Gone, Configured!Absent
<1>2. ASSUME NEW c \in Admins, Configured!Manage(c) PROVE DeliveryInvariant'
  BY <1>2, ManageDelivers
<1>3. ASSUME NEW k, Configured!Dispatch(k) PROVE DeliveryInvariant'
  BY <1>3, DispatchDelivers
<1>4. CASE Configured!Deliver
  BY <1>4, TakeDelivers, SendDelivers DEF Configured!Deliver
<1> QED
  BY <1>1, <1>2, <1>3, <1>4 DEF Configured!Next

(* What it says of subscribers.                                              *)
LEMMA DeliveryInvariantTells == DeliveryInvariant => Configured!SubscribersHear
BY DEF DeliveryInvariant, PostHolds, Configured!SubscribersHear

(* Any number of events and admins, whatever fails: the job of an endpoint   *)
(* that was subscribed never ends in success unheard but for a webhook that  *)
(* was switched off or deleted, never fails before the endpoint failed, and  *)
(* is heard twice only after a failure.                                      *)
THEOREM SubscribersAreHeard ==
  ASSUME HookConstants
  PROVE  Configured!Init /\ [][Configured!Next]_(Configured!webhookVars) => []Configured!SubscribersHear
<1>1. Configured!Init => HookInvariant /\ DeliveryInvariant
  BY HookInit, DeliveryInit
<1>2. HookInvariant /\ DeliveryInvariant /\ [Configured!Next]_(Configured!webhookVars) =>
        HookInvariant' /\ DeliveryInvariant'
  BY HookPreserved, DeliveryPreserved
<1> QED
  BY <1>1, <1>2, DeliveryInvariantTells, PTL

-----------------------------------------------------------------------------
(* The fan-out of changes.                                                   *)
Fanned == INSTANCE Notifications WITH
  Hooks <- Listeners, MaxAttempts <- MaxTries, MaxClock <- MaxSeconds, MaxFaults <- MaxFailures

(* The candidate of an application is no member of the company.              *)
FanoutConstants == Candidate \notin Staff

(* Jobs keep what they are of.                                               *)
MailJobs == [of : Mutations \X Fanned!Recipients, status : JobStates, tries : Nat]
PostJobs == [of : Mutations, status : JobStates, tries : Nat]

(* The key of a post is that of the change.                                  *)
KeyOf(m, k) == k = <<k[1], <<EventOf[m], EntityOf[m], ContentOf[m], k[2][4]>>>>

(* The producer of a change, while it tells the staff, is at one of them and *)
(* has others left.                                                          *)
ProducerTyped(m) ==
  /\ prod[m].pc \in {"new", "staff", "next", "note", "email", "hooks", "post", "done", "lost"}
  /\ prod[m].to \in Fanned!Recipients
  /\ prod[m].pc \in {"next", "note", "email"} => prod[m].todo \subseteq Staff
  /\ prod[m].pc \in {"note", "email"} => prod[m].to \notin prod[m].todo
  /\ prod[m].pc = "email" => <<m, prod[m].to>> \in notes
  /\ prod[m].pc = "post" => \A k \in prod[m].todo : KeyOf(m, k)

FanoutTypes ==
  /\ DOMAIN prod = Mutations /\ \A m \in Mutations : ProducerTyped(m)
  /\ notes \subseteq Mutations \X Fanned!Recipients
  /\ mailed \in [Mutations \X Fanned!Recipients -> Nat]
  /\ faults \in Nat /\ edits \in Nat
  /\ \A k \in DOMAIN emails : emails[k] \in MailJobs
  /\ \A k \in DOMAIN posts : posts[k] \in PostJobs

(* An e-mail job is of a notification, under the key of its event, entity    *)
(* and recipient, and was sent once if it succeeded, but for failures.       *)
MailHolds(k) ==
  LET n == emails[k].of IN
  /\ n \in notes /\ k = Fanned!EmailKey(n[1], n[2]) /\ Fanned!EmailEligible(EventOf[n[1]], n[2])
  /\ mailed[n] =< IF emails[k].status = "succeeded" THEN faults + 1 ELSE faults

MailsHold ==
  /\ \A k \in DOMAIN emails : MailHolds(k)
  /\ \A n \in Mutations \X Fanned!Recipients :
       mailed[n] > 0 => \E k \in DOMAIN emails : emails[k].of = n

(* The key of a post is that of its change.                                  *)
PostsHold == \A k \in DOMAIN posts : KeyOf(posts[k].of, k)

(* Who is to hear of a change, and who is still to be told.                  *)
Hears(m, r) ==
  IF r = Candidate THEN Fanned!TellsCandidate(EventOf[m])
  ELSE IF EventOf[m] \in Fanned!Interviews THEN r = Interviewer
  ELSE RoleOf[r] \in Fanned!StaffRoles(EventOf[m])

Awaits(m, r) ==
  \/ prod[m].pc = "new"
  \/ r # Candidate /\ (prod[m].pc = "staff" \/ (prod[m].pc \in {"note", "email"} /\ prod[m].to = Candidate))
  \/ prod[m].pc \in {"next", "note", "email"} /\ r \in prod[m].todo
  \/ prod[m].pc = "note" /\ r = prod[m].to

(* Everybody who is to hear of it and was told has a notification, and an    *)
(* e-mail job where the event is mailed to them ...                          *)
StaffTold(m) ==
  /\ prod[m].pc \in {"note", "email"} => Hears(m, prod[m].to)
  /\ prod[m].pc \in {"next", "note", "email"} => \A s \in prod[m].todo : Hears(m, s)
  /\ \A r \in Fanned!Recipients : <<m, r>> \in notes <=> (Hears(m, r) /\ ~Awaits(m, r))
  /\ \A r \in Fanned!Recipients :
       <<m, r>> \in notes /\ Fanned!EmailEligible(EventOf[m], r) =>
         (prod[m].pc = "email" /\ prod[m].to = r) \/ Fanned!EmailKey(m, r) \in DOMAIN emails

(* ... and every webhook has its job or is about to get it.                  *)
HooksTold(m) ==
  prod[m].pc \in {"post", "done"} /\ Fanned!WebhookEligible(EventOf[m]) =>
       \A h \in Listeners :
         \/ prod[m].pc = "post" /\ \E k \in prod[m].todo : k[1] = h
         \/ \E k \in DOMAIN posts : k[1] = h /\ KeyOf(m, k)

Unedited ==
  /\ \A s \in Staff : active[s]
  /\ emailOn = Fanned!Recipients
  /\ \A h \in Listeners : hook[h] = "on"

AllTold == \A m \in Mutations : prod[m].pc # "lost" => StaffTold(m) /\ HooksTold(m)

(* The inductive invariant.                                                  *)
FanoutInvariant ==
  /\ FanoutTypes /\ MailsHold /\ PostsHold
  /\ edits = 0 => Unedited /\ AllTold

LEMMA FanoutInit == ASSUME FanoutConstants PROVE Fanned!Init => FanoutInvariant
<1> SUFFICES ASSUME Fanned!Init PROVE FanoutInvariant
  OBVIOUS
<1>1. DOMAIN emails = {} /\ DOMAIN posts = {}
  BY DEF Fanned!Init
<1>2. FanoutTypes
  BY <1>1 DEF Fanned!Init, FanoutTypes, ProducerTyped, Fanned!Recipients
<1>3. MailsHold /\ PostsHold
  BY <1>1 DEF Fanned!Init, MailsHold, PostsHold
<1>4. Unedited
  BY DEF Fanned!Init, Unedited
<1>5. AllTold
  BY DEF Fanned!Init, AllTold, StaffTold, HooksTold, Awaits
<1> QED
  BY <1>2, <1>3, <1>4, <1>5 DEF FanoutInvariant

(* A change nobody works on stays told.                                      *)
LEMMA StaysTold ==
  ASSUME NEW m \in Mutations, prod'[m] = prod[m],
         \A r \in Fanned!Recipients : <<m, r>> \in notes' <=> <<m, r>> \in notes,
         DOMAIN emails \subseteq DOMAIN emails', DOMAIN posts \subseteq DOMAIN posts'
  PROVE  /\ StaffTold(m) => StaffTold(m)'
         /\ HooksTold(m) => HooksTold(m)'
<1>1. StaffTold(m) => StaffTold(m)'
  BY DEF StaffTold, Awaits
<1>2. HooksTold(m) => HooksTold(m)'
  BY DEF HooksTold
<1> QED
  BY <1>1, <1>2

(* What a step of a producer leaves alone.                                   *)
ProducerSteps(m) ==
  /\ DOMAIN prod' = Mutations /\ \A x \in Mutations \ {m} : prod'[x] = prod[x]
  /\ prod[m].pc # "lost"
  /\ UNCHANGED <<active, emailOn, hook, mailed, faults, edits>>
  /\ notes \subseteq notes' /\ \A n \in notes' \ notes : n[1] = m
  /\ DOMAIN emails \subseteq DOMAIN emails' /\ DOMAIN posts \subseteq DOMAIN posts'
  /\ \A k \in DOMAIN emails : emails'[k] = emails[k]
  /\ \A k \in DOMAIN posts : posts'[k] = posts[k]

(* It keeps the invariant if what it adds holds.                             *)
LEMMA ProducerKeeps ==
  ASSUME FanoutInvariant, NEW m \in Mutations, ProducerSteps(m), ProducerTyped(m)',
         notes' \subseteq Mutations \X Fanned!Recipients,
         \A k \in DOMAIN emails' \ DOMAIN emails :
           /\ emails'[k] \in MailJobs /\ emails'[k].of \in notes' /\ emails'[k].status = "pending"
           /\ k = Fanned!EmailKey(emails'[k].of[1], emails'[k].of[2])
           /\ Fanned!EmailEligible(EventOf[emails'[k].of[1]], emails'[k].of[2])
           /\ mailed[emails'[k].of] = 0,
         \A k \in DOMAIN posts' \ DOMAIN posts : posts'[k] \in PostJobs /\ KeyOf(posts'[k].of, k),
         edits = 0 /\ Unedited /\ StaffTold(m) /\ HooksTold(m) /\ prod'[m].pc # "lost" =>
           StaffTold(m)' /\ HooksTold(m)'
  PROVE  FanoutInvariant'
<1>1. FanoutTypes'
  <2>1. \A x \in Mutations \ {m} : ProducerTyped(x)'
    BY DEF ProducerSteps, FanoutInvariant, FanoutTypes, ProducerTyped
  <2>2. \A x \in Mutations : ProducerTyped(x)'
    BY <2>1
  <2>3. \A k \in DOMAIN emails' : emails'[k] \in MailJobs
    BY DEF ProducerSteps, FanoutInvariant, FanoutTypes
  <2>4. \A k \in DOMAIN posts' : posts'[k] \in PostJobs
    BY DEF ProducerSteps, FanoutInvariant, FanoutTypes
  <2> QED
    BY <2>2, <2>3, <2>4 DEF ProducerSteps, FanoutInvariant, FanoutTypes
<1>2. MailsHold'
  <2>1. ASSUME NEW k \in DOMAIN emails PROVE MailHolds(k)'
    BY <2>1 DEF ProducerSteps, FanoutInvariant, MailsHold, MailHolds
  <2>2. ASSUME NEW k \in DOMAIN emails' \ DOMAIN emails PROVE MailHolds(k)'
    BY <2>2 DEF ProducerSteps, FanoutInvariant, FanoutTypes, MailHolds
  <2>3. \A n \in Mutations \X Fanned!Recipients :
          mailed'[n] > 0 => \E k \in DOMAIN emails' : emails'[k].of = n
    BY DEF ProducerSteps, FanoutInvariant, MailsHold
  <2> QED
    BY <2>1, <2>2, <2>3 DEF MailsHold
<1>3. PostsHold'
  BY DEF ProducerSteps, FanoutInvariant, PostsHold
<1>4. ASSUME edits' = 0 PROVE Unedited' /\ AllTold'
  <2>1. edits = 0 /\ Unedited /\ AllTold
    BY <1>4 DEF ProducerSteps, FanoutInvariant
  <2>2. Unedited'
    BY <2>1 DEF Unedited, ProducerSteps
  <2>3. ASSUME NEW x \in Mutations \ {m}, prod'[x].pc # "lost" PROVE StaffTold(x)' /\ HooksTold(x)'
    <3>1. prod'[x] = prod[x] /\ StaffTold(x) /\ HooksTold(x)
      BY <2>1, <2>3 DEF ProducerSteps, AllTold
    <3>2. \A r \in Fanned!Recipients : <<x, r>> \in notes' <=> <<x, r>> \in notes
      BY DEF ProducerSteps
    <3> QED
      BY <3>1, <3>2, StaysTold DEF ProducerSteps
  <2>4. prod'[m].pc # "lost" => StaffTold(m)' /\ HooksTold(m)'
    BY <2>1 DEF ProducerSteps, AllTold
  <2> QED
    BY <2>2, <2>3, <2>4 DEF AllTold
<1> QED
  BY <1>1, <1>2, <1>3, <1>4 DEF FanoutInvariant

(* A producer goes on.                                                       *)
LEMMA GoesOn ==
  ASSUME FanoutInvariant, NEW m \in Mutations, NEW at, NEW rest, NEW to, Fanned!Goes(m, at, rest, to)
  PROVE  /\ DOMAIN prod' = Mutations /\ \A x \in Mutations \ {m} : prod'[x] = prod[x]
         /\ prod'[m].pc = at /\ prod'[m].todo = rest /\ prod'[m].to = to
BY DEF FanoutInvariant, FanoutTypes, Fanned!Goes

(* A step that adds no row and no job.                                       *)
LEMMA QuietStep ==
  ASSUME FanoutInvariant, NEW m \in Mutations, NEW at, NEW rest, NEW to, Fanned!Goes(m, at, rest, to),
         prod[m].pc # "lost", ProducerTyped(m)',
         UNCHANGED <<active, emailOn, hook, mailed, faults, edits, notes, emails, posts>>,
         edits = 0 /\ Unedited /\ StaffTold(m) /\ HooksTold(m) /\ at # "lost" =>
           StaffTold(m)' /\ HooksTold(m)'
  PROVE  FanoutInvariant'
<1>1. ProducerSteps(m)
  BY GoesOn DEF ProducerSteps
<1>2. notes' \subseteq Mutations \X Fanned!Recipients
  BY DEF FanoutInvariant, FanoutTypes
<1>3. prod'[m].pc = at
  BY GoesOn
<1> QED
  BY <1>1, <1>2, <1>3, ProducerKeeps

(* The first step, the staff who are loaded, and the next of them.           *)
LEMMA StaffKeeps ==
  ASSUME FanoutConstants, FanoutInvariant, NEW m \in Mutations,
         Fanned!Begin(m) \/ Fanned!LoadStaff(m) \/ Fanned!NextStaff(m)
  PROVE  FanoutInvariant'
<1>0. ProducerTyped(m) /\ Candidate \in Fanned!Recipients /\ Staff \subseteq Fanned!Recipients
  BY DEF FanoutInvariant, FanoutTypes, Fanned!Recipients
<1>1. CASE Fanned!Begin(m)
  <2> DEFINE at == IF Fanned!TellsCandidate(EventOf[m]) THEN "note" ELSE "staff"
  <2>1. /\ Fanned!Goes(m, at, {}, Candidate) /\ prod[m].pc = "new"
        /\ UNCHANGED <<active, emailOn, hook, mailed, faults, edits, notes, emails, posts>>
    BY <1>1 DEF Fanned!Begin, Fanned!DbSame
  <2>2. prod'[m].pc = at /\ prod'[m].todo = {} /\ prod'[m].to = Candidate
    BY <2>1, GoesOn
  <2>3. ProducerTyped(m)'
    BY <1>0, <2>2 DEF ProducerTyped
  <2>4. StaffTold(m) => StaffTold(m)'
    BY <2>1, <2>2 DEF StaffTold, Awaits, Hears
  <2>5. HooksTold(m)'
    BY <2>2 DEF HooksTold
  <2> QED
    BY <2>1, <2>3, <2>4, <2>5, QuietStep
<1>2. CASE Fanned!LoadStaff(m)
  <2> DEFINE rest == Fanned!Audience(EventOf[m])
  <2>1. /\ Fanned!Goes(m, "next", rest, Candidate) /\ prod[m].pc = "staff"
        /\ UNCHANGED <<active, emailOn, hook, mailed, faults, edits, notes, emails, posts>>
    BY <1>2 DEF Fanned!LoadStaff, Fanned!DbSame
  <2>2. prod'[m].pc = "next" /\ prod'[m].todo = rest /\ prod'[m].to = Candidate
    BY <2>1, GoesOn
  <2>3. ProducerTyped(m)'
    BY <1>0, <2>2 DEF ProducerTyped, Fanned!Audience
  <2>4. Unedited => \A r \in Fanned!Recipients : r \in rest <=> r # Candidate /\ Hears(m, r)
    BY DEF Unedited, Fanned!Audience, Fanned!Recipients, Hears, FanoutConstants
  <2>5. Unedited /\ StaffTold(m) => StaffTold(m)'
    <3> SUFFICES ASSUME Unedited, StaffTold(m) PROVE StaffTold(m)'
      OBVIOUS
    <3> HIDE DEF rest
    <3>1. \A r \in Fanned!Recipients : Hears(m, r) => (Awaits(m, r) <=> Awaits(m, r)')
      BY <2>1, <2>2, <2>4 DEF Awaits
    <3>2. \A s \in prod'[m].todo : Hears(m, s)
      BY <1>0, <2>2, <2>3, <2>4 DEF ProducerTyped
    <3> QED
      BY <2>1, <2>2, <3>1, <3>2 DEF StaffTold
  <2>6. HooksTold(m)'
    BY <2>2 DEF HooksTold
  <2> QED
    BY <2>1, <2>3, <2>5, <2>6, QuietStep
<1>3. CASE Fanned!NextStaff(m)
  <2>1. /\ prod[m].pc = "next"
        /\ UNCHANGED <<active, emailOn, hook, mailed, faults, edits, notes, emails, posts>>
    BY <1>3 DEF Fanned!NextStaff, Fanned!DbSame
  <2>2. CASE prod[m].todo = {}
    <3>1. Fanned!Goes(m, "hooks", {}, Candidate)
      BY <1>3, <2>2 DEF Fanned!NextStaff
    <3>2. prod'[m].pc = "hooks" /\ prod'[m].todo = {} /\ prod'[m].to = Candidate
      BY <3>1, GoesOn
    <3>3. ProducerTyped(m)'
      BY <1>0, <3>2 DEF ProducerTyped
    <3>4. StaffTold(m) => StaffTold(m)'
      BY <2>1, <2>2, <3>2 DEF StaffTold, Awaits
    <3>5. HooksTold(m)'
      BY <3>2 DEF HooksTold
    <3> QED
      BY <2>1, <3>1, <3>3, <3>4, <3>5, QuietStep
  <2>3. ASSUME NEW s \in prod[m].todo, Fanned!Goes(m, "note", prod[m].todo \ {s}, s) PROVE FanoutInvariant'
    <3>2. prod'[m].pc = "note" /\ prod'[m].todo = prod[m].todo \ {s} /\ prod'[m].to = s
      BY <2>3, GoesOn
    <3>3. s \in Staff /\ s # Candidate
      BY <1>0, <2>1 DEF ProducerTyped, FanoutConstants
    <3>4. ProducerTyped(m)'
      BY <1>0, <2>1, <3>2, <3>3 DEF ProducerTyped
    <3>5. StaffTold(m) => StaffTold(m)'
      <4>1. \A r : Awaits(m, r)' <=> Awaits(m, r)
        BY <2>1, <3>2, <3>3 DEF Awaits
      <4> QED
        BY <2>1, <3>2, <4>1 DEF StaffTold
    <3>6. HooksTold(m)'
      BY <3>2 DEF HooksTold
    <3> QED
      BY <2>1, <2>3, <3>4, <3>5, <3>6, QuietStep
  <2> QED
    BY <1>3, <2>2, <2>3 DEF Fanned!NextStaff
<1> QED
  BY <1>1, <1>2, <1>3

(* The notification of the recipient at hand.                                *)
LEMMA ToldKeeps ==
  ASSUME FanoutConstants, FanoutInvariant, NEW m \in Mutations, Fanned!CreateNote(m)
  PROVE  FanoutInvariant'
<1>1. /\ ProducerTyped(m) /\ prod[m].pc = "note" /\ notes' = notes \cup {<<m, prod[m].to>>}
      /\ Fanned!Goes(m, "email", prod[m].todo, prod[m].to)
      /\ UNCHANGED <<active, emailOn, hook, mailed, faults, edits, emails, posts>>
  BY DEF FanoutInvariant, FanoutTypes, Fanned!CreateNote, Fanned!DbSame
<1>2. prod'[m].pc = "email" /\ prod'[m].todo = prod[m].todo /\ prod'[m].to = prod[m].to
  BY <1>1, GoesOn
<1>3. ProducerTyped(m)'
  BY <1>1, <1>2 DEF ProducerTyped
<1>4. ProducerSteps(m)
  BY <1>1, GoesOn DEF ProducerSteps
<1>5. notes' \subseteq Mutations \X Fanned!Recipients
  BY <1>1 DEF FanoutInvariant, FanoutTypes, ProducerTyped
<1>6. StaffTold(m) => StaffTold(m)'
  <2> SUFFICES ASSUME StaffTold(m) PROVE StaffTold(m)'
    OBVIOUS
  <2>1. ASSUME NEW r \in Fanned!Recipients
        PROVE  <<m, r>> \in notes' <=> (Hears(m, r) /\ ~Awaits(m, r)')
    <3>1. CASE r = prod[m].to
      <4>1. Hears(m, r) /\ ~Awaits(m, r)'
        BY <1>1, <1>2, <3>1 DEF StaffTold, Awaits, ProducerTyped
      <4> QED
        BY <1>1, <3>1, <4>1
    <3>2. CASE r # prod[m].to
      <4>1. Awaits(m, r)' <=> Awaits(m, r)
        BY <1>1, <1>2, <3>2 DEF Awaits
      <4> QED
        BY <1>1, <3>2, <4>1 DEF StaffTold
    <3> QED
      BY <3>1, <3>2
  <2>2. ASSUME NEW r \in Fanned!Recipients, <<m, r>> \in notes', Fanned!EmailEligible(EventOf[m], r)
        PROVE  prod'[m].to = r \/ Fanned!EmailKey(m, r) \in DOMAIN emails'
    BY <1>1, <1>2, <2>2 DEF StaffTold
  <2> QED
    BY <1>1, <1>2, <2>1, <2>2 DEF StaffTold
<1>7. HooksTold(m)'
  BY <1>2 DEF HooksTold
<1> QED
  BY <1>1, <1>3, <1>4, <1>5, <1>6, <1>7, ProducerKeeps

(* Its e-mail job, where there is to be one and there is none yet.           *)
LEMMA EmailKeeps ==
  ASSUME FanoutConstants, FanoutInvariant, NEW m \in Mutations, Fanned!EnqueueEmail(m)
  PROVE  FanoutInvariant'
<1> DEFINE r == prod[m].to
           key == Fanned!EmailKey(m, r)
           due == Fanned!EmailEligible(EventOf[m], r) /\ r \in emailOn
           at == Fanned!AfterRecipient(m)
<1>1. /\ ProducerTyped(m) /\ prod[m].pc = "email"
      /\ emails' = IF due THEN Fanned!Add(emails, key, Fanned!NewJob(<<m, r>>)) ELSE emails
      /\ Fanned!Goes(m, at, prod[m].todo, r)
      /\ UNCHANGED <<active, emailOn, hook, mailed, faults, edits, notes, posts>>
  BY DEF FanoutInvariant, FanoutTypes, Fanned!EnqueueEmail, Fanned!DbSame
<1>2. prod'[m].pc = at /\ prod'[m].todo = prod[m].todo /\ prod'[m].to = r
  BY <1>1, GoesOn
<1>3. at = IF r = Candidate THEN "staff" ELSE "next"
  BY DEF Fanned!AfterRecipient
<1>4. ProducerTyped(m)'
  BY <1>1, <1>2, <1>3 DEF ProducerTyped
<1>5. /\ DOMAIN emails \subseteq DOMAIN emails' /\ DOMAIN emails' \subseteq DOMAIN emails \cup {key}
      /\ \A k \in DOMAIN emails : emails'[k] = emails[k]
      /\ due => key \in DOMAIN emails'
      /\ key \in DOMAIN emails' \ DOMAIN emails => due /\ emails'[key] = Fanned!NewJob(<<m, r>>)
  <2>1. CASE due
    BY <1>1, <2>1 DEF Fanned!Add
  <2>2. CASE ~due
    BY <1>1, <2>2
  <2> QED
    BY <2>1, <2>2
<1>6. ProducerSteps(m)
  BY <1>1, <1>5, GoesOn DEF ProducerSteps
<1>7. ASSUME NEW k \in DOMAIN emails' \ DOMAIN emails
      PROVE  /\ emails'[k] \in MailJobs /\ emails'[k].of \in notes' /\ emails'[k].status = "pending"
             /\ k = Fanned!EmailKey(emails'[k].of[1], emails'[k].of[2])
             /\ Fanned!EmailEligible(EventOf[emails'[k].of[1]], emails'[k].of[2])
             /\ mailed[emails'[k].of] = 0
  <2>1. k = key /\ due /\ emails'[k] = Fanned!NewJob(<<m, r>>)
    BY <1>5
  <2>2. emails'[k] = [of |-> <<m, r>>, status |-> "pending", tries |-> 0]
    BY <2>1 DEF Fanned!NewJob
  <2>3. r \in Fanned!Recipients /\ <<m, r>> \in notes /\ <<m, r>> \in Mutations \X Fanned!Recipients
    BY <1>1 DEF ProducerTyped
  <2>4. emails'[k] \in MailJobs
    BY <2>2, <2>3 DEF MailJobs, JobStates
  <2>5. mailed[<<m, r>>] = 0
    <3>1. \A q \in DOMAIN emails : emails[q].of = <<m, r>> => q = key
      BY DEF FanoutInvariant, MailsHold, MailHolds
    <3>2. ~(mailed[<<m, r>>] > 0)
      BY <2>1, <2>3, <3>1 DEF FanoutInvariant, MailsHold
    <3>3. mailed[<<m, r>>] \in Nat
      BY <2>3 DEF FanoutInvariant, FanoutTypes
    <3> QED
      BY <3>2, <3>3
  <2> QED
    BY <1>1, <2>1, <2>2, <2>3, <2>4, <2>5
<1>8. Unedited /\ StaffTold(m) => StaffTold(m)'
  <2> SUFFICES ASSUME Unedited, StaffTold(m) PROVE StaffTold(m)'
    OBVIOUS
  <2> HIDE DEF at, due, key
  <2>1. \A q \in Fanned!Recipients : Awaits(m, q)' <=> Awaits(m, q)
    BY <1>1, <1>2, <1>3 DEF Awaits, ProducerTyped, FanoutConstants
  <2>2. ASSUME NEW q \in Fanned!Recipients, <<m, q>> \in notes', Fanned!EmailEligible(EventOf[m], q)
        PROVE  Fanned!EmailKey(m, q) \in DOMAIN emails'
    <3>1. CASE q = r
      BY <1>5, <2>2, <3>1 DEF due, key, Unedited
    <3>2. CASE q # r
      BY <1>1, <1>5, <2>2, <3>2 DEF StaffTold
    <3> QED
      BY <3>1, <3>2
  <2>3. prod'[m].pc \in {"next", "note", "email"} => \A s \in prod'[m].todo : Hears(m, s)
    BY <1>1, <1>2 DEF StaffTold
  <2>4. prod'[m].pc \notin {"note", "email"}
    BY <1>2, <1>3
  <2> QED
    BY <1>1, <2>1, <2>2, <2>3, <2>4 DEF StaffTold
<1>9. HooksTold(m)'
  BY <1>2, <1>3 DEF HooksTold
<1>10. notes' \subseteq Mutations \X Fanned!Recipients
  BY <1>1 DEF FanoutInvariant, FanoutTypes
<1> HIDE DEF at, due, key, r
<1> QED
  BY <1>1, <1>4, <1>6, <1>7, <1>8, <1>9, <1>10, ProducerKeeps

(* The webhooks that are subscribed, and the job of one of them.             *)
LEMMA HooksKeep ==
  ASSUME FanoutInvariant, NEW m \in Mutations, Fanned!LoadHooks(m) \/ Fanned!EnqueuePost(m)
  PROVE  FanoutInvariant'
<1>0. ProducerTyped(m) /\ Candidate \in Fanned!Recipients
  BY DEF FanoutInvariant, FanoutTypes, Fanned!Recipients
<1>1. CASE Fanned!LoadHooks(m)
  <2> DEFINE rest == {<<h, Fanned!EventId(m)>> : h \in Fanned!Subscribed(EventOf[m])}
  <2>1. /\ Fanned!Goes(m, "post", rest, Candidate) /\ prod[m].pc = "hooks"
        /\ UNCHANGED <<active, emailOn, hook, mailed, faults, edits, notes, emails, posts>>
    BY <1>1 DEF Fanned!LoadHooks, Fanned!DbSame, Fanned!Goes
  <2>2. prod'[m].pc = "post" /\ prod'[m].todo = rest /\ prod'[m].to = Candidate
    BY <2>1, GoesOn
  <2>3. ProducerTyped(m)'
    BY <1>0, <2>2 DEF ProducerTyped, KeyOf, Fanned!EventId
  <2>4. StaffTold(m) => StaffTold(m)'
    BY <2>1, <2>2 DEF StaffTold, Awaits
  <2>5. Unedited => HooksTold(m)'
    <3> SUFFICES ASSUME Unedited PROVE HooksTold(m)'
      OBVIOUS
    <3>1. ASSUME NEW h \in Listeners, Fanned!WebhookEligible(EventOf[m]) PROVE \E k \in rest : k[1] = h
      <4>1. h \in Fanned!Subscribed(EventOf[m])
        BY <3>1 DEF Unedited, Fanned!Subscribed
      <4>2. <<h, Fanned!EventId(m)>> \in rest /\ <<h, Fanned!EventId(m)>>[1] = h
        BY <4>1
      <4> QED
        BY <4>2
    <3> HIDE DEF rest
    <3> QED
      BY <2>2, <3>1 DEF HooksTold
  <2> QED
    BY <2>1, <2>3, <2>4, <2>5, QuietStep
<1>2. CASE Fanned!EnqueuePost(m)
  <2>1. /\ prod[m].pc = "post"
        /\ UNCHANGED <<active, emailOn, hook, mailed, faults, edits, notes, emails>>
    BY <1>2 DEF Fanned!EnqueuePost, Fanned!DbSame
  <2>2. CASE prod[m].todo = {}
    <3>1. Fanned!Goes(m, "done", {}, Candidate) /\ posts' = posts
      BY <1>2, <2>2 DEF Fanned!EnqueuePost
    <3>2. prod'[m].pc = "done" /\ prod'[m].todo = {} /\ prod'[m].to = Candidate
      BY <3>1, GoesOn
    <3>3. ProducerTyped(m)'
      BY <1>0, <3>2 DEF ProducerTyped
    <3>4. StaffTold(m) => StaffTold(m)'
      BY <2>1, <3>2 DEF StaffTold, Awaits
    <3>5. HooksTold(m) => HooksTold(m)'
      BY <2>1, <2>2, <3>1, <3>2 DEF HooksTold
    <3> QED
      BY <2>1, <3>1, <3>3, <3>4, <3>5, QuietStep
  <2>3. ASSUME NEW k \in prod[m].todo, posts' = Fanned!Add(posts, k, Fanned!NewJob(m)),
               Fanned!Goes(m, "post", prod[m].todo \ {k}, Candidate)
        PROVE  FanoutInvariant'
    <3>1. prod'[m].pc = "post" /\ prod'[m].todo = prod[m].todo \ {k} /\ prod'[m].to = Candidate
      BY <2>3, GoesOn
    <3>2. /\ DOMAIN posts' = DOMAIN posts \cup {k} /\ \A x \in DOMAIN posts : posts'[x] = posts[x]
          /\ k \notin DOMAIN posts => posts'[k] = Fanned!NewJob(m)
      BY <2>3 DEF Fanned!Add
    <3>3. ProducerTyped(m)'
      BY <1>0, <2>1, <3>1 DEF ProducerTyped
    <3>4. ProducerSteps(m)
      BY <2>1, <2>3, <3>2, GoesOn DEF ProducerSteps
    <3>7. KeyOf(m, k)
      BY <1>0, <2>1, <2>3 DEF ProducerTyped
    <3>8. \A x \in DOMAIN posts' \ DOMAIN posts : posts'[x] \in PostJobs /\ KeyOf(posts'[x].of, x)
      BY <3>2, <3>7 DEF PostJobs, JobStates, Fanned!NewJob
    <3>9. notes' \subseteq Mutations \X Fanned!Recipients
      BY <2>1 DEF FanoutInvariant, FanoutTypes
    <3>5. StaffTold(m) => StaffTold(m)'
      BY <2>1, <3>1 DEF StaffTold, Awaits
    <3>6. HooksTold(m) => HooksTold(m)'
      <4> SUFFICES ASSUME HooksTold(m) PROVE HooksTold(m)'
        OBVIOUS
      <4>1. ASSUME NEW h \in Listeners, Fanned!WebhookEligible(EventOf[m])
            PROVE  \/ \E x \in prod'[m].todo : x[1] = h
                   \/ \E x \in DOMAIN posts' : x[1] = h /\ KeyOf(m, x)
        <5>1. CASE \E x \in prod[m].todo : x[1] = h
          BY <3>1, <3>2, <3>7, <5>1
        <5>2. CASE \E x \in DOMAIN posts : x[1] = h /\ KeyOf(m, x)
          BY <3>2, <5>2
        <5> QED
          BY <2>1, <4>1, <5>1, <5>2 DEF HooksTold
      <4> QED
        BY <3>1, <4>1 DEF HooksTold
    <3> QED
      BY <2>1, <2>3, <3>2, <3>3, <3>4, <3>5, <3>6, <3>8, <3>9, ProducerKeeps
  <2> QED
    BY <1>2, <2>2, <2>3 DEF Fanned!EnqueuePost
<1> QED
  BY <1>1, <1>2

(* A producer whose session breaks, or whose process dies.                   *)
LEMMA LossKeeps ==
  ASSUME FanoutInvariant, NEW m \in Mutations, Fanned!Lose(m)
  PROVE  FanoutInvariant'
<1>1. /\ Fanned!Goes(m, "lost", {}, Candidate) /\ prod[m].pc # "lost"
      /\ UNCHANGED <<active, emailOn, hook, mailed, faults, edits, notes, emails, posts>>
  BY DEF Fanned!Lose
<1>2. ProducerTyped(m)'
  <2>1. prod'[m].pc = "lost" /\ prod'[m].to = Candidate
    BY <1>1, GoesOn
  <2> QED
    BY <2>1 DEF ProducerTyped, Fanned!Recipients
<1> QED
  BY <1>1, <1>2, QuietStep

(* A job ended keeps what it is of.                                          *)
LEMMA EndedJob ==
  ASSUME NEW Ofs, NEW j \in [of : Ofs, status : JobStates, tries : Nat],
         NEW outcome \in {"ok", "skipped", "retryable", "permanent", "lost"}
  PROVE  /\ Fanned!Ended(j, outcome) \in [of : Ofs, status : JobStates, tries : Nat]
         /\ Fanned!Ended(j, outcome).of = j.of
         /\ outcome \in {"retryable", "lost"} /\ Fanned!Runnable(j) =>
              Fanned!Ended(j, outcome).status # "succeeded"
<1>1. CASE outcome \in {"ok", "skipped"}
  BY <1>1 DEF Fanned!Ended, JobStates
<1>2. CASE outcome = "retryable"
  <2> DEFINE s == IF j.tries + 1 >= MaxTries THEN "failed" ELSE "retryable"
  <2>1. Fanned!Ended(j, outcome) = [j EXCEPT !.tries = @ + 1, !.status = s]
    BY <1>2 DEF Fanned!Ended
  <2>2. s \in {"failed", "retryable"}
    OBVIOUS
  <2> HIDE DEF s
  <2>3. Fanned!Ended(j, outcome) = [of |-> j.of, status |-> s, tries |-> j.tries + 1]
    BY <2>1
  <2> QED
    BY <1>2, <2>2, <2>3 DEF JobStates
<1>3. CASE outcome = "lost"
  BY <1>3 DEF Fanned!Ended, Fanned!Runnable
<1>4. CASE outcome = "permanent"
  BY <1>4 DEF Fanned!Ended, JobStates
<1> QED
  BY <1>1, <1>2, <1>3, <1>4

(* An e-mail job is run: sent once more only at the cost of a failure, if    *)
(* the job does not succeed with it.                                         *)
LEMMA MailRunKeeps ==
  ASSUME FanoutInvariant, NEW k \in DOMAIN emails, NEW o \in Fanned!MailOutcomes, Fanned!RunEmail(k, o)
  PROVE  FanoutInvariant'
<1> DEFINE n == emails[k].of
<1>1. /\ emails[k] \in MailJobs /\ n \in Mutations \X Fanned!Recipients /\ MailHolds(k)
      /\ mailed[n] \in Nat /\ faults \in Nat
  BY DEF FanoutInvariant, FanoutTypes, MailsHold, MailJobs
<1>2. /\ o \in {"ok", "skipped", "retryable", "permanent", "lost"} /\ Fanned!Runnable(emails[k])
      /\ faults' = (IF o \in {"ok", "skipped"} THEN faults ELSE faults + 1)
      /\ emails' = [emails EXCEPT ![k] = Fanned!Ended(emails[k], o)]
      /\ mailed' = IF o \in {"ok", "lost"} THEN [mailed EXCEPT ![n] = @ + 1] ELSE mailed
      /\ UNCHANGED <<active, emailOn, hook, prod, notes, posts, edits>>
  BY DEF Fanned!RunEmail, Fanned!MailOutcomes
<1>3. /\ emails'[k] \in MailJobs /\ emails'[k].of = n /\ DOMAIN emails' = DOMAIN emails
      /\ \A x \in DOMAIN emails \ {k} : emails'[x] = emails[x]
      /\ o \in {"retryable", "lost"} => emails'[k].status # "succeeded"
  <2>1. /\ Fanned!Ended(emails[k], o) \in MailJobs /\ Fanned!Ended(emails[k], o).of = n
        /\ o \in {"retryable", "lost"} => Fanned!Ended(emails[k], o).status # "succeeded"
    <3> DEFINE Ofs == Mutations \X Fanned!Recipients
    <3>1. emails[k] \in [of : Ofs, status : JobStates, tries : Nat] /\ o \in {"ok", "skipped", "retryable", "permanent", "lost"}
      BY <1>1, <1>2 DEF MailJobs
    <3>2. MailJobs = [of : Ofs, status : JobStates, tries : Nat]
      BY DEF MailJobs
    <3> HIDE DEF Ofs
    <3> QED
      BY <1>2, <3>1, <3>2, EndedJob
  <2> QED
    BY <1>2, <2>1
<1>4. /\ mailed' \in [Mutations \X Fanned!Recipients -> Nat]
      /\ mailed'[n] = (IF o \in {"ok", "lost"} THEN mailed[n] + 1 ELSE mailed[n])
      /\ \A x \in (Mutations \X Fanned!Recipients) \ {n} : mailed'[x] = mailed[x]
  BY <1>1, <1>2 DEF FanoutInvariant, FanoutTypes
<1>5. faults' \in Nat /\ faults =< faults'
  BY <1>1, <1>2
<1>6. FanoutTypes'
  <2>1. \A x \in DOMAIN emails' : emails'[x] \in MailJobs
    BY <1>3 DEF FanoutInvariant, FanoutTypes
  <2>2. \A x \in Mutations : ProducerTyped(x)'
    BY <1>2 DEF FanoutInvariant, FanoutTypes, ProducerTyped
  <2> QED
    BY <1>2, <1>4, <1>5, <2>1, <2>2 DEF FanoutInvariant, FanoutTypes
<1>7. MailsHold'
  <2>1. MailHolds(k)'
    <3>1. emails[k].status # "succeeded" /\ mailed[n] =< faults
      BY <1>1, <1>2 DEF Fanned!Runnable, MailHolds
    <3>2. mailed'[n] =< IF emails'[k].status = "succeeded" THEN faults' + 1 ELSE faults'
      <4>1. CASE o = "ok"
        <5>1. emails'[k].status = "succeeded"
          BY <1>1, <1>2, <4>1 DEF Fanned!Ended, MailJobs
        <5> QED
          BY <1>1, <1>2, <1>4, <3>1, <4>1, <5>1
      <4>2. CASE o \in {"skipped", "permanent"}
        BY <1>1, <1>2, <1>4, <1>5, <3>1, <4>2
      <4>3. CASE o \in {"retryable", "lost"}
        BY <1>1, <1>2, <1>3, <1>4, <3>1, <4>3
      <4> QED
        BY <1>2, <4>1, <4>2, <4>3
    <3> QED
      BY <1>1, <1>2, <1>3, <3>2 DEF MailHolds
  <2>2. ASSUME NEW x \in DOMAIN emails \ {k} PROVE MailHolds(x)'
    <3>1. MailHolds(x) /\ emails[x] \in MailJobs /\ emails[x].of # n
      BY <1>1 DEF FanoutInvariant, FanoutTypes, MailsHold, MailHolds
    <3>2. emails'[x] = emails[x] /\ mailed'[emails[x].of] = mailed[emails[x].of] /\ mailed[emails[x].of] \in Nat
      BY <1>3, <1>4, <3>1 DEF MailJobs, FanoutInvariant, FanoutTypes
    <3>3. mailed'[emails[x].of] =< IF emails'[x].status = "succeeded" THEN faults' + 1 ELSE faults'
      BY <1>1, <1>5, <3>1, <3>2 DEF MailHolds
    <3> QED
      BY <1>2, <3>1, <3>2, <3>3 DEF MailHolds
  <2>3. ASSUME NEW x \in Mutations \X Fanned!Recipients, mailed'[x] > 0
        PROVE  \E q \in DOMAIN emails' : emails'[q].of = x
    <3>1. CASE x = n
      BY <1>3, <3>1
    <3>2. CASE x # n
      BY <1>3, <1>4, <2>3, <3>2 DEF FanoutInvariant, MailsHold
    <3> QED
      BY <3>1, <3>2
  <2> QED
    BY <1>3, <2>1, <2>2, <2>3 DEF MailsHold
<1>8. PostsHold'
  BY <1>2 DEF FanoutInvariant, PostsHold
<1>9. edits' = 0 => Unedited' /\ AllTold'
  <2>1. \A x \in Mutations : (StaffTold(x) => StaffTold(x)') /\ (HooksTold(x) => HooksTold(x)')
    BY <1>2, <1>3, StaysTold
  <2> QED
    BY <1>2, <2>1 DEF FanoutInvariant, Unedited, AllTold
<1> QED
  BY <1>6, <1>7, <1>8, <1>9 DEF FanoutInvariant

(* A webhook job is run.                                                     *)
LEMMA PostRunKeeps ==
  ASSUME FanoutInvariant, NEW k \in DOMAIN posts, NEW o \in Fanned!PostOutcomes, Fanned!RunPost(k, o)
  PROVE  FanoutInvariant'
<1>1. /\ faults' \in Nat /\ faults =< faults'
      /\ \E out \in Fanned!PostOutcomes : posts' = [posts EXCEPT ![k] = Fanned!Ended(posts[k], out)]
      /\ UNCHANGED <<active, emailOn, hook, prod, notes, emails, mailed, edits>>
  <2>1. /\ faults' = (IF o = "ok" THEN faults ELSE faults + 1)
        /\ UNCHANGED <<active, emailOn, hook, prod, notes, emails, mailed, edits>>
    BY DEF Fanned!RunPost
  <2>2. PICK out : /\ out = IF hook[k[1]] = "deleted" THEN "permanent" ELSE o
                   /\ posts' = [posts EXCEPT ![k] = Fanned!Ended(posts[k], out)]
    BY DEF Fanned!RunPost
  <2>3. out \in Fanned!PostOutcomes
    BY <2>2 DEF Fanned!PostOutcomes
  <2>4. faults \in Nat
    BY DEF FanoutInvariant, FanoutTypes
  <2>5. faults' \in Nat /\ faults =< faults'
    BY <2>1, <2>4
  <2> QED
    BY <2>1, <2>2, <2>3, <2>5
<1>2. /\ posts'[k] \in PostJobs /\ posts'[k].of = posts[k].of /\ DOMAIN posts' = DOMAIN posts
      /\ \A x \in DOMAIN posts \ {k} : posts'[x] = posts[x]
  <2>1. PICK out \in Fanned!PostOutcomes : posts' = [posts EXCEPT ![k] = Fanned!Ended(posts[k], out)]
    BY <1>1
  <2>2. posts[k] \in PostJobs
    BY DEF FanoutInvariant, FanoutTypes
  <2>3. Fanned!Ended(posts[k], out) \in PostJobs /\ Fanned!Ended(posts[k], out).of = posts[k].of
    BY <2>2, EndedJob DEF PostJobs, Fanned!PostOutcomes
  <2>4. posts'[k] = Fanned!Ended(posts[k], out)
    BY <2>1
  <2> QED
    BY <2>1, <2>3, <2>4
<1>3. FanoutTypes'
  <2>1. \A x \in DOMAIN posts' : posts'[x] \in PostJobs
    BY <1>2 DEF FanoutInvariant, FanoutTypes
  <2>2. \A x \in Mutations : ProducerTyped(x)'
    BY <1>1 DEF FanoutInvariant, FanoutTypes, ProducerTyped
  <2> QED
    BY <1>1, <2>1, <2>2 DEF FanoutInvariant, FanoutTypes
<1>4. MailsHold'
  <2>1. ASSUME NEW x \in DOMAIN emails PROVE MailHolds(x)'
    <3>1. MailHolds(x) /\ mailed[emails[x].of] \in Nat /\ faults \in Nat
      BY DEF FanoutInvariant, FanoutTypes, MailsHold, MailJobs
    <3> QED
      BY <1>1, <3>1 DEF MailHolds
  <2> QED
    BY <1>1, <2>1 DEF FanoutInvariant, MailsHold
<1>5. PostsHold'
  BY <1>2 DEF FanoutInvariant, PostsHold
<1>6. edits' = 0 => Unedited' /\ AllTold'
  <2>1. \A x \in Mutations : (StaffTold(x) => StaffTold(x)') /\ (HooksTold(x) => HooksTold(x)')
    BY <1>1, <1>2, StaysTold
  <2> QED
    BY <1>1, <2>1 DEF FanoutInvariant, Unedited, AllTold
<1> QED
  BY <1>3, <1>4, <1>5, <1>6 DEF FanoutInvariant

(* Members, preferences and webhooks change, mail is read, and time passes.  *)
LEMMA ManageKeeps ==
  ASSUME FanoutInvariant, Fanned!Manage \/ Fanned!Tick \/ UNCHANGED Fanned!vars
  PROVE  FanoutInvariant'
<1>1. /\ UNCHANGED <<prod, notes, emails, posts, mailed, faults>>
      /\ edits' = edits + 1 \/ UNCHANGED <<edits, active, emailOn, hook>>
  BY DEF Fanned!Manage, Fanned!Tick, Fanned!vars, Fanned!SetMember, Fanned!UpdatePreference, Fanned!MarkAll,
    Fanned!SetHook, Fanned!Mark, Fanned!Edit
<1>2. edits' \in Nat /\ (edits' = 0 => UNCHANGED <<edits, active, emailOn, hook>>)
  BY <1>1 DEF FanoutInvariant, FanoutTypes
<1>3. FanoutTypes'
  <2>1. \A x \in Mutations : ProducerTyped(x)'
    BY <1>1 DEF FanoutInvariant, FanoutTypes, ProducerTyped
  <2> QED
    BY <1>1, <1>2, <2>1 DEF FanoutInvariant, FanoutTypes
<1>4. MailsHold' /\ PostsHold'
  BY <1>1 DEF FanoutInvariant, MailsHold, MailHolds, PostsHold
<1>5. edits' = 0 => Unedited' /\ AllTold'
  <2>1. \A x \in Mutations : (StaffTold(x) => StaffTold(x)') /\ (HooksTold(x) => HooksTold(x)')
    BY <1>1, StaysTold
  <2> QED
    BY <1>1, <1>2, <2>1 DEF FanoutInvariant, Unedited, AllTold
<1> QED
  BY <1>2, <1>3, <1>4, <1>5 DEF FanoutInvariant

(* Every step keeps it.                                                      *)
LEMMA FanoutPreserved ==
  ASSUME FanoutConstants PROVE FanoutInvariant /\ [Fanned!Next]_(Fanned!vars) => FanoutInvariant'
<1> SUFFICES ASSUME FanoutInvariant, [Fanned!Next]_(Fanned!vars) PROVE FanoutInvariant'
  OBVIOUS
<1>1. ASSUME NEW m \in Mutations, Fanned!Produce(m) PROVE FanoutInvariant'
  BY <1>1, StaffKeeps, ToldKeeps, EmailKeeps, HooksKeep DEF Fanned!Produce
<1>2. ASSUME NEW m \in Mutations, Fanned!Lose(m) PROVE FanoutInvariant'
  BY <1>2, LossKeeps
<1>3. CASE Fanned!Handle
  BY <1>3, MailRunKeeps, PostRunKeeps DEF Fanned!Handle
<1>4. CASE Fanned!Manage \/ Fanned!Tick \/ UNCHANGED Fanned!vars
  BY <1>4, ManageKeeps
<1> QED
  BY <1>1, <1>2, <1>3, <1>4 DEF Fanned!Next

(* What it says of who was told.                                             *)
LEMMA FanoutInvariantTells == FanoutInvariant => Fanned!FanoutIsComplete
<1> SUFFICES ASSUME FanoutInvariant, edits = 0, NEW m \in Mutations
             PROVE  /\ prod[m].pc \in {"hooks", "post", "done"} =>
                         \A r \in Fanned!Recipients :
                           /\ <<m, r>> \in notes <=> Hears(m, r)
                           /\ (<<m, r>> \in notes /\ Fanned!EmailEligible(EventOf[m], r)) =>
                                \E n \in {emails[k].of : k \in DOMAIN emails} :
                                  n[2] = r /\ EventOf[n[1]] = EventOf[m] /\ EntityOf[n[1]] = EntityOf[m]
                    /\ (prod[m].pc = "done" /\ Fanned!WebhookEligible(EventOf[m])) =>
                         \A h \in Listeners : \E k \in DOMAIN posts :
                           /\ k[1] = h /\ EventOf[posts[k].of] = EventOf[m]
                           /\ EntityOf[posts[k].of] = EntityOf[m] /\ ContentOf[posts[k].of] = ContentOf[m]
  BY DEF Fanned!FanoutIsComplete, Hears
<1>1. prod[m].pc # "lost" => StaffTold(m) /\ HooksTold(m)
  BY DEF FanoutInvariant, AllTold
<1>2. ASSUME prod[m].pc \in {"hooks", "post", "done"}, NEW r \in Fanned!Recipients
      PROVE  /\ <<m, r>> \in notes <=> Hears(m, r)
             /\ <<m, r>> \in notes /\ Fanned!EmailEligible(EventOf[m], r) =>
                  Fanned!EmailKey(m, r) \in DOMAIN emails
  BY <1>1, <1>2 DEF StaffTold, Awaits
<1>3. ASSUME NEW r \in Fanned!Recipients, Fanned!EmailKey(m, r) \in DOMAIN emails
      PROVE  \E n \in {emails[k].of : k \in DOMAIN emails} :
               n[2] = r /\ EventOf[n[1]] = EventOf[m] /\ EntityOf[n[1]] = EntityOf[m]
  <2> DEFINE k == Fanned!EmailKey(m, r)
             n == emails[k].of
  <2>1. k = Fanned!EmailKey(n[1], n[2])
    BY <1>3 DEF FanoutInvariant, MailsHold, MailHolds
  <2>2. n[2] = r /\ EventOf[n[1]] = EventOf[m] /\ EntityOf[n[1]] = EntityOf[m]
    BY <2>1 DEF Fanned!EmailKey
  <2> QED
    BY <1>3, <2>2
<1>4. ASSUME prod[m].pc = "done", Fanned!WebhookEligible(EventOf[m]), NEW h \in Listeners
      PROVE  \E k \in DOMAIN posts :
               /\ k[1] = h /\ EventOf[posts[k].of] = EventOf[m]
               /\ EntityOf[posts[k].of] = EntityOf[m] /\ ContentOf[posts[k].of] = ContentOf[m]
  <2>1. PICK k \in DOMAIN posts : k[1] = h /\ KeyOf(m, k)
    BY <1>1, <1>4 DEF HooksTold
  <2>2. KeyOf(posts[k].of, k)
    BY DEF FanoutInvariant, PostsHold
  <2>3. /\ k[2] = <<EventOf[m], EntityOf[m], ContentOf[m], k[2][4]>>
        /\ k[2] = <<EventOf[posts[k].of], EntityOf[posts[k].of], ContentOf[posts[k].of], k[2][4]>>
    BY <2>1, <2>2 DEF KeyOf
  <2> QED
    BY <2>1, <2>3
<1> QED
  BY <1>2, <1>3, <1>4

(* What it says of mails.                                                    *)
LEMMA FanoutInvariantMails == FanoutInvariant => Fanned!OneMailPerEvent /\ Fanned!MailFollowsNote
<1> SUFFICES ASSUME FanoutInvariant PROVE Fanned!OneMailPerEvent /\ Fanned!MailFollowsNote
  OBVIOUS
<1>1. ASSUME NEW n \in Mutations \X Fanned!Recipients, mailed[n] > 0
      PROVE  /\ n \in notes /\ Fanned!EmailEligible(EventOf[n[1]], n[2]) /\ mailed[n] =< 1 + faults
             /\ Fanned!EmailKey(n[1], n[2]) \in DOMAIN emails
             /\ emails[Fanned!EmailKey(n[1], n[2])].of = n
  <2>1. PICK k \in DOMAIN emails : emails[k].of = n
    BY <1>1 DEF FanoutInvariant, MailsHold
  <2>2. MailHolds(k) /\ faults \in Nat /\ mailed[n] \in Nat
    BY DEF FanoutInvariant, FanoutTypes, MailsHold
  <2> QED
    BY <2>1, <2>2 DEF MailHolds
<1>2. Fanned!MailFollowsNote
  <2>1. \A n \in (Mutations \X Fanned!Recipients) \ notes : mailed[n] \in Nat
    BY DEF FanoutInvariant, FanoutTypes
  <2> QED
    BY <1>1, <2>1 DEF Fanned!MailFollowsNote, FanoutInvariant, FanoutTypes, MailsHold, MailHolds
<1>3. Fanned!OneMailPerEvent
  <2> SUFFICES ASSUME NEW r \in Fanned!Recipients, NEW e \in {EventOf[m] : m \in Mutations},
                      NEW x \in {EntityOf[m] : m \in Mutations}
               PROVE  LET ns == {n \in Mutations \X {r} : EventOf[n[1]] = e /\ EntityOf[n[1]] = x /\ mailed[n] > 0} IN
                      Fanned!Cardinality(ns) =< 1 /\ \A n \in ns : mailed[n] =< 1 + faults
    BY DEF Fanned!OneMailPerEvent
  <2> DEFINE ns == {n \in Mutations \X {r} : EventOf[n[1]] = e /\ EntityOf[n[1]] = x /\ mailed[n] > 0}
             one == emails[<<e, x, r>>].of
  <2>1. ASSUME NEW n \in ns PROVE n = one /\ mailed[n] =< 1 + faults
    <3>1. n \in Mutations \X Fanned!Recipients /\ n[2] = r /\ mailed[n] > 0 /\ EventOf[n[1]] = e /\ EntityOf[n[1]] = x
      OBVIOUS
    <3>2. Fanned!EmailKey(n[1], n[2]) = <<e, x, r>>
      BY <3>1 DEF Fanned!EmailKey
    <3> QED
      BY <1>1, <3>1, <3>2
  <2> HIDE DEF ns, one
  <2>2. Cardinality({one}) = 1 /\ IsFiniteSet({one})
    BY FS_Singleton
  <2>3. Cardinality(ns) =< 1
    <3>1. ns \subseteq {one}
      BY <2>1
    <3> QED
      BY <2>2, <3>1, FS_Subset
  <2>4. Fanned!Cardinality(ns) = Cardinality(ns)
    BY DEF Fanned!Cardinality, Cardinality, Fanned!IsFiniteSet, IsFiniteSet
  <2> QED
    BY <2>1, <2>3, <2>4 DEF ns
<1> QED
  BY <1>2, <1>3

(* Any number of changes, producers and workers, whatever is lost or fails:  *)
(* while nobody edits members, preferences or webhooks, a change whose       *)
(* producer lived to its end has told everybody it concerns, has a mail job  *)
(* where it is mailed, and a job for each webhook.                           *)
THEOREM ChangesAreTold ==
  ASSUME FanoutConstants
  PROVE  Fanned!Init /\ [][Fanned!Next]_(Fanned!vars) => []Fanned!FanoutIsComplete
<1>1. Fanned!Init => FanoutInvariant
  BY FanoutInit
<1>2. FanoutInvariant /\ [Fanned!Next]_(Fanned!vars) => FanoutInvariant'
  BY FanoutPreserved
<1> QED
  BY <1>1, <1>2, FanoutInvariantTells, PTL

(* However often a change is reported and its job is run: a recipient gets   *)
(* one mail of it, but for workers that died between sending and committing, *)
(* and none without a notification.                                          *)
THEOREM ChangesAreMailedOnce ==
  ASSUME FanoutConstants
  PROVE  Fanned!Init /\ [][Fanned!Next]_(Fanned!vars) =>
           [](Fanned!OneMailPerEvent /\ Fanned!MailFollowsNote)
<1>1. Fanned!Init => FanoutInvariant
  BY FanoutInit
<1>2. FanoutInvariant /\ [Fanned!Next]_(Fanned!vars) => FanoutInvariant'
  BY FanoutPreserved
<1> QED
  BY <1>1, <1>2, FanoutInvariantMails, PTL

-----------------------------------------------------------------------------
(* A request to an AI pipeline.                                              *)
Piped == INSTANCE AIPipeline WITH
  key <- apiKey, MaxAttempts <- PipelineAttempts, Scores <- ProviderScores, Items <- ItemNumbers

(* Its settings.                                                             *)
PipeConstants ==
  PipelineAttempts \in Nat \ {0} /\ ProviderScores \subseteq Int /\ ItemNumbers \subseteq Nat

(* The inductive invariant: a request is sent while it may be, and what was  *)
(* given up is given up for a reason.                                        *)
PipeInvariant ==
  /\ kind \in Piped!Kinds /\ apiKey \in BOOLEAN
  /\ phase \in {"ask", "sleep", "check", "failed", "done"}
  /\ calls \in 0..PipelineAttempts
  /\ phase \in {"ask", "sleep"} => calls < PipelineAttempts /\ reply = Piped!NoReply
  /\ phase = "check" =>
       calls > 0 /\ reply \in Piped!Replies \cup {Piped!Nothing} /\ (apiKey \/ reply = Piped!Nothing)
  /\ phase = "failed" =>
       calls = PipelineAttempts \/ (reply # Piped!NoReply /\ ~Piped!Accepted(kind, reply))
  /\ Piped!AnswerIsUsable

(* It holds of a request as it arrives.                                      *)
LEMMA PipeInit == PipeConstants /\ Piped!Init => PipeInvariant
BY DEF PipeConstants, Piped!Init, PipeInvariant, Piped!AnswerIsUsable

(* Every step keeps it.                                                      *)
LEMMA PipePreserved ==
  PipeConstants /\ PipeInvariant /\ [Piped!Next]_(Piped!vars) => PipeInvariant'
<1> SUFFICES ASSUME PipeConstants, PipeInvariant, [Piped!Next]_(Piped!vars) PROVE PipeInvariant'
  OBVIOUS
<1>0. PipelineAttempts \in Nat \ {0} /\ calls \in Nat
  BY DEF PipeConstants, PipeInvariant
<1>1. CASE Piped!Answered
  BY <1>0, <1>1 DEF Piped!Answered, PipeInvariant, Piped!AnswerIsUsable
<1>2. CASE Piped!Failed
  BY <1>0, <1>2 DEF Piped!Failed, PipeInvariant, Piped!AnswerIsUsable
<1>3. CASE Piped!Backoff
  BY <1>0, <1>3 DEF Piped!Backoff, PipeInvariant, Piped!AnswerIsUsable
<1>4. CASE Piped!Check
  <2>1. /\ phase = "check" /\ UNCHANGED <<kind, apiKey, calls, reply>>
        /\ reply \in Piped!Replies \cup {Piped!Nothing} /\ (apiKey \/ reply = Piped!Nothing)
    BY <1>4 DEF Piped!Check, PipeInvariant
  <2>2. /\ reply # Piped!NoReply /\ reply.score \in Int /\ reply.items = reply.items
        /\ Piped!Valid(reply) => apiKey
    <3>1. Piped!Nothing = [body |-> "object", complete |-> FALSE, lists |-> FALSE, score |-> 0, items |-> 0]
      BY DEF Piped!Nothing
    <3>2. Piped!NoReply.body = "none"
      BY <3>1 DEF Piped!NoReply
    <3>3. reply.body \in {"list", "object"} /\ reply.score \in Int
      <4>1. CASE reply = Piped!Nothing
        BY <3>1, <4>1
      <4>2. CASE reply \in Piped!Replies
        BY <4>2 DEF Piped!Replies, PipeConstants
      <4> QED
        BY <2>1, <4>1, <4>2
    <3>4. Piped!Valid(reply) => reply # Piped!Nothing
      BY <3>1 DEF Piped!Valid
    <3> QED
      BY <2>1, <3>2, <3>3, <3>4
  <2>3. CASE Piped!Accepted(kind, reply)
    <3>1. phase' = "done" /\ answer' = [source |-> "ai", score |-> Piped!Clamped(reply.score), items |-> reply.items]
      BY <1>4, <2>3 DEF Piped!Check
    <3>2. answer'.score \in 0..100 /\ answer'.items = reply.items /\ answer'.source = "ai"
      BY <2>2, <3>1 DEF Piped!Clamped
    <3>3. /\ kind = "assessment" => reply.items >= 1
          /\ kind = "interview" => reply.items >= 3
          /\ Piped!Valid(reply) /\ apiKey
      <4>1. Piped!Valid(reply) => reply.items \in ItemNumbers
        BY <2>1 DEF Piped!Replies, Piped!Valid, Piped!Nothing
      <4>2. Piped!Valid(reply) => reply.items \in Nat
        BY <4>1 DEF PipeConstants
      <4>3. kind = "assessment" => Piped!Valid(reply) /\ reply.items > 0
        BY <2>3 DEF Piped!Accepted
      <4>4. kind = "interview" => Piped!Valid(reply) /\ reply.items >= 3
        BY <2>3 DEF Piped!Accepted
      <4>5. Piped!Valid(reply)
        BY <2>3 DEF Piped!Accepted
      <4> QED
        BY <2>2, <4>2, <4>3, <4>4, <4>5
    <3>4. Piped!AnswerIsUsable'
      BY <1>0, <2>1, <3>1, <3>2, <3>3 DEF Piped!AnswerIsUsable, PipeInvariant, Piped!Valid
    <3> QED
      BY <2>1, <3>1, <3>4 DEF PipeInvariant
  <2>4. CASE ~Piped!Accepted(kind, reply)
    <3>1. phase' = "failed"
      BY <1>4, <2>4 DEF Piped!Check
    <3> QED
      BY <2>1, <2>2, <2>4, <3>1 DEF PipeInvariant, Piped!AnswerIsUsable, Piped!Accepted, Piped!Valid, Piped!NoReply, Piped!Nothing
  <2> QED
    BY <2>3, <2>4
<1>5. CASE Piped!Fallback
  <2>1. phase = "failed" /\ phase' = "done" /\ UNCHANGED <<kind, apiKey, calls, reply>>
    BY <1>5 DEF Piped!Fallback
  <2>2. PICK s \in 0..100 : answer' = [source |-> "fallback", score |-> s, items |-> Piped!Bank[kind]]
    BY <1>5 DEF Piped!Fallback
  <2>3. (kind = "assessment" => answer'.items = 5) /\ (kind = "interview" => answer'.items = 4)
    BY <2>2 DEF Piped!Bank
  <2> QED
    BY <1>0, <2>1, <2>2, <2>3 DEF PipeInvariant, Piped!AnswerIsUsable, Piped!Accepted, Piped!Valid, Piped!NoReply, Piped!Nothing
<1>6. CASE UNCHANGED Piped!vars
  BY <1>6 DEF Piped!vars, PipeInvariant, Piped!AnswerIsUsable, Piped!Accepted, Piped!Valid, Piped!NoReply, Piped!Nothing
<1> QED
  BY <1>1, <1>2, <1>3, <1>4, <1>5, <1>6 DEF Piped!Next

(* Whatever the provider answers or fails to, for any number of attempts and *)
(* any scores: the caller gets a score that is one or enough questions, from *)
(* no more requests than are allowed, and the fallback only for a reason.    *)
THEOREM PipelinesAnswer ==
  ASSUME PipeConstants
  PROVE  Piped!Init /\ [][Piped!Next]_(Piped!vars) => []Piped!AnswerIsUsable
<1>1. PipeInvariant => Piped!AnswerIsUsable
  BY DEF PipeInvariant
<1> QED
  BY <1>1, PipeInit, PipePreserved, PTL

-----------------------------------------------------------------------------
(* The assistant: templates as processes start, comparisons as they are kept.*)
Assisted == INSTANCE Assistant WITH
  clock <- minute, Calls <- Questions, MaxClock <- MaxMinutes, MaxEdits <- MaxRevisions

(* Every question has a process, and every process the template.             *)
AssistantConstants ==
  /\ HomeOf \in [Questions -> Procs]
  /\ Len(Defaults) \in Nat /\ DOMAIN Defaults = 1..Len(Defaults)
  /\ Template \in Assisted!Names
  /\ Cands \in Nat \ {0} /\ TTL \in Nat \ {0}

(* A process knows the templates it has added, and all when it is up.        *)
BootHolds(p) ==
  /\ DOMAIN known[p] \subseteq Assisted!Names
  /\ boot[p].pc \in {"down", "add", "write", "up"}
  /\ boot[p].pc \in {"add", "write"} => boot[p].next \in 1..Len(Defaults) + 1
  /\ boot[p].pc = "add" => \A i \in DOMAIN Defaults : i < boot[p].next => Defaults[i] \in DOMAIN known[p]
  /\ boot[p].pc = "write" =>
       boot[p].next =< Len(Defaults) /\ \A i \in DOMAIN Defaults : i =< boot[p].next => Defaults[i] \in DOMAIN known[p]
  /\ boot[p].pc = "up" => DOMAIN known[p] = Assisted!Names

(* Of the candidates as they were when the request began or later.           *)
ReadSince(seen, from) == \A i \in DOMAIN seen : from[i] =< seen[i] /\ seen[i] =< version[i]

AskFields == {"pc", "from", "read", "prompt", "answer", "at"}

(* A request: what it has read, and its answer.                              *)
AskHolds(c) ==
  LET r == ask[c] IN
  /\ DOMAIN r = AskFields
  /\ r.pc \in {"idle", "load", "render", "look", "ask", "keep", "answered"}
  /\ r.pc # "idle" => boot[HomeOf[c]].pc = "up"
  /\ r.pc # "idle" => r.from \in [1..Cands -> Nat] /\ \A i \in 1..Cands : r.from[i] =< version[i]
  /\ r.pc = "load" => r.read \in Seq(Nat) /\ Len(r.read) < Cands /\ ReadSince(r.read, r.from)
  /\ r.pc = "render" => r.read \in [1..Cands -> Nat] /\ ReadSince(r.read, r.from)
  /\ r.pc \in {"look", "ask", "keep", "answered"} => r.prompt \in [1..Cands -> Nat] /\ ReadSince(r.prompt, r.from)
  /\ r.pc \in {"keep", "answered"} => r.answer.of = r.prompt /\ r.answer.at \in Nat
  /\ r.pc = "keep" => r.answer.at = minute
  /\ r.pc = "answered" => r.at \in Nat /\ r.at - r.answer.at < TTL

(* What is kept is of its prompt and expires a TTL after it was generated.   *)
KeptHolds(p) ==
  \A k \in DOMAIN kept[p] :
    /\ kept[p][k].answer.of = k /\ kept[p][k].answer.at \in Nat
    /\ kept[p][k].expires = kept[p][k].answer.at + TTL

AssistantTypes ==
  /\ DOMAIN store.has \subseteq Assisted!Names
  /\ DOMAIN boot = Procs /\ DOMAIN known = Procs /\ DOMAIN kept = Procs /\ DOMAIN ask = Questions
  /\ version \in [1..Cands -> Nat] /\ minute \in Nat

(* The inductive invariant.                                                  *)
AssistantInvariant ==
  /\ AssistantTypes
  /\ \A p \in Procs : BootHolds(p) /\ KeptHolds(p)
  /\ \A c \in Questions : AskHolds(c)

(* It holds before the processes start.                                      *)
LEMMA AssistantInit == AssistantConstants /\ Assisted!Init => AssistantInvariant
<1> SUFFICES ASSUME AssistantConstants, Assisted!Init PROVE AssistantInvariant
  OBVIOUS
<1>1. AssistantTypes
  BY DEF Assisted!Init, AssistantTypes, AssistantConstants
<1>2. \A p \in Procs : BootHolds(p) /\ KeptHolds(p)
  BY DEF Assisted!Init, Assisted!Down, BootHolds, KeptHolds
<1>3. \A c \in Questions : AskHolds(c)
  BY DEF Assisted!Init, Assisted!Quiet, AskHolds, AskFields
<1> QED
  BY <1>1, <1>2, <1>3 DEF AssistantInvariant

(* A step that leaves a process and the requests it serves alone.            *)
LEMMA LaunchServes ==
  ASSUME AssistantConstants, AssistantInvariant, NEW p \in Procs, UNCHANGED <<version, ask, minute>>,
         \A q \in Procs \ {p} : boot'[q] = boot[q],
         boot[p].pc = "up" => boot'[p].pc = "up" \/ \A c \in Questions : HomeOf[c] = p => ask[c].pc = "idle"
  PROVE  \A c \in Questions : AskHolds(c)'
<1> SUFFICES ASSUME NEW c \in Questions PROVE AskHolds(c)'
  OBVIOUS
<1>1. AskHolds(c)
  BY DEF AssistantInvariant
<1>2. ask[c].pc # "idle" => boot'[HomeOf[c]].pc = "up"
  <2>1. HomeOf[c] \in Procs
    BY DEF AssistantConstants
  <2>2. ask[c].pc # "idle" => boot[HomeOf[c]].pc = "up"
    BY <1>1 DEF AskHolds
  <2> QED
    BY <2>1, <2>2
<1> QED
  BY <1>1, <1>2 DEF AskHolds, ReadSince

(* A process starts, adds a template and writes the store, reads it, stops.  *)
LEMMA LaunchKeeps ==
  ASSUME AssistantConstants, AssistantInvariant, NEW p \in Procs, Assisted!Launch(p)
  PROVE  AssistantInvariant'
<1>0. AssistantTypes /\ BootHolds(p) /\ KeptHolds(p) /\ Len(Defaults) \in Nat /\ DOMAIN Defaults = 1..Len(Defaults)
  BY DEF AssistantInvariant, AssistantConstants
<1>1. UNCHANGED <<version, ask, minute>>
  BY DEF Assisted!Launch, Assisted!Start, Assisted!Add, Assisted!Persist, Assisted!LoadFromStore, Assisted!Stop, Assisted!Served
<1>2. ASSUME DOMAIN store'.has \subseteq Assisted!Names,
             DOMAIN boot' = Procs, DOMAIN known' = Procs, DOMAIN kept' = Procs,
             \A q \in Procs \ {p} : boot'[q] = boot[q] /\ known'[q] = known[q] /\ kept'[q] = kept[q],
             boot[p].pc = "up" => boot'[p].pc = "up" \/ \A c \in Questions : HomeOf[c] = p => ask[c].pc = "idle",
             BootHolds(p)', KeptHolds(p)'
      PROVE  AssistantInvariant'
  <2>1. \A q \in Procs \ {p} : BootHolds(q)' /\ KeptHolds(q)'
    BY <1>1, <1>2 DEF AssistantInvariant, BootHolds, KeptHolds
  <2>2. \A c \in Questions : AskHolds(c)'
    BY <1>1, <1>2, LaunchServes
  <2>3. AssistantTypes'
    BY <1>0, <1>1, <1>2 DEF AssistantTypes
  <2> QED
    BY <1>2, <2>1, <2>2, <2>3 DEF AssistantInvariant
<1>3. CASE Assisted!Start(p)
  <2>1. /\ boot[p].pc = "down" /\ boot' = [boot EXCEPT ![p] = [pc |-> "add", next |-> 1]] /\ store' = store
        /\ known' = [known EXCEPT ![p] = <<>>] /\ kept' = [kept EXCEPT ![p] = <<>>]
    BY <1>3 DEF Assisted!Start, Assisted!Boots
  <2>2. boot'[p] = [pc |-> "add", next |-> 1] /\ known'[p] = <<>> /\ kept'[p] = <<>>
    BY <1>0, <2>1 DEF AssistantTypes
  <2>3. BootHolds(p)' /\ KeptHolds(p)'
    BY <1>0, <2>2 DEF BootHolds, KeptHolds
  <2> QED
    BY <1>0, <1>2, <2>1, <2>3 DEF AssistantTypes
<1>4. CASE Assisted!Add(p)
  <2> DEFINE n == boot[p].next
  <2>1. /\ boot[p].pc = "add" /\ n =< Len(Defaults) /\ kept' = kept
        /\ known' = [known EXCEPT ![p] = Assisted!Put(@, Defaults[n], p)]
        /\ store' = [whole |-> FALSE, has |-> <<>>]
        /\ boot' = [boot EXCEPT ![p] = [pc |-> "write", next |-> n]]
    BY <1>4 DEF Assisted!Add, Assisted!Boots, Assisted!Served
  <2>2. boot'[p] = [pc |-> "write", next |-> n] /\ DOMAIN known'[p] = DOMAIN known[p] \cup {Defaults[n]}
    BY <1>0, <2>1 DEF AssistantTypes, Assisted!Put
  <2>3. n \in 1..Len(Defaults) /\ Defaults[n] \in Assisted!Names
    BY <1>0, <2>1 DEF BootHolds, Assisted!Names
  <2>4. BootHolds(p)' /\ KeptHolds(p)'
    BY <1>0, <2>1, <2>2, <2>3 DEF BootHolds, KeptHolds
  <2> QED
    BY <1>0, <1>2, <2>1, <2>4 DEF AssistantTypes
<1>5. CASE Assisted!Persist(p)
  <2>1. /\ boot[p].pc = "write" /\ kept' = kept /\ known' = known
        /\ store' = [whole |-> TRUE, has |-> known[p]]
        /\ boot' = [boot EXCEPT ![p] = [pc |-> "add", next |-> boot[p].next + 1]]
    BY <1>5 DEF Assisted!Persist, Assisted!Boots, Assisted!Served
  <2>2. boot'[p] = [pc |-> "add", next |-> boot[p].next + 1]
    BY <1>0, <2>1 DEF AssistantTypes
  <2>3. BootHolds(p)' /\ KeptHolds(p)'
    BY <1>0, <2>1, <2>2 DEF BootHolds, KeptHolds
  <2> QED
    BY <1>0, <1>2, <2>1, <2>3 DEF AssistantTypes, BootHolds
<1>6. CASE Assisted!LoadFromStore(p)
  <2>1. /\ boot[p].pc = "add" /\ boot[p].next > Len(Defaults) /\ kept' = kept /\ store' = store
        /\ DOMAIN known' = DOMAIN known /\ \A q \in Procs \ {p} : known'[q] = known[q]
        /\ DOMAIN known'[p] = DOMAIN known[p] \cup DOMAIN store.has
        /\ boot' = [boot EXCEPT ![p] = [pc |-> "up", next |-> 0]]
    BY <1>0, <1>6 DEF Assisted!LoadFromStore, Assisted!Boots, Assisted!Served, AssistantTypes
  <2>2. boot'[p] = [pc |-> "up", next |-> 0]
    BY <1>0, <2>1 DEF AssistantTypes
  <2>3. Assisted!Names \subseteq DOMAIN known[p]
    BY <1>0, <2>1 DEF BootHolds, Assisted!Names
  <2>4. BootHolds(p)' /\ KeptHolds(p)'
    BY <1>0, <2>1, <2>2, <2>3 DEF BootHolds, KeptHolds, AssistantTypes
  <2> QED
    BY <1>0, <1>2, <2>1, <2>4 DEF AssistantTypes
<1>7. CASE Assisted!Stop(p)
  <2>1. /\ boot' = [boot EXCEPT ![p] = [pc |-> "down", next |-> 0]] /\ UNCHANGED <<kept, known, store>>
        /\ \A c \in Questions : HomeOf[c] = p => ask[c].pc = "idle"
    BY <1>7 DEF Assisted!Stop, Assisted!Boots, Assisted!Served
  <2>2. boot'[p] = [pc |-> "down", next |-> 0]
    BY <1>0, <2>1 DEF AssistantTypes
  <2>3. BootHolds(p)' /\ KeptHolds(p)'
    BY <1>0, <2>1, <2>2 DEF BootHolds, KeptHolds
  <2> QED
    BY <1>0, <1>2, <2>1, <2>3 DEF AssistantTypes
<1> QED
  BY <1>3, <1>4, <1>5, <1>6, <1>7 DEF Assisted!Launch

(* A request steps, and what it keeps is of its prompt.                      *)
LEMMA CompareKeeps ==
  ASSUME AssistantConstants, AssistantInvariant, NEW c \in Questions, Assisted!Compare(c)
  PROVE  AssistantInvariant'
<1>0. /\ AssistantTypes /\ AskHolds(c) /\ HomeOf[c] \in Procs /\ BootHolds(HomeOf[c]) /\ KeptHolds(HomeOf[c])
      /\ Cands \in Nat \ {0} /\ TTL \in Nat \ {0}
  BY DEF AssistantInvariant, AssistantConstants
<1>1. UNCHANGED <<store, boot, known, version, minute>>
  BY DEF Assisted!Compare, Assisted!Begin, Assisted!LoadCandidate, Assisted!Render, Assisted!Look, Assisted!Generate,
    Assisted!Keep, Assisted!Return, Assisted!StoreSame
<1>2. ASSUME NEW r, ask' = [ask EXCEPT ![c] = r], AskHolds(c)', \A p \in Procs : KeptHolds(p)', DOMAIN kept' = Procs
      PROVE  AssistantInvariant'
  <2>1. \A d \in Questions \ {c} : AskHolds(d)'
    BY <1>1, <1>2 DEF AssistantInvariant, AssistantTypes, AskHolds, ReadSince
  <2>2. \A p \in Procs : BootHolds(p)'
    BY <1>1 DEF AssistantInvariant, BootHolds
  <2> QED
    BY <1>0, <1>1, <1>2, <2>1, <2>2 DEF AssistantInvariant, AssistantTypes
<1>3. kept' = kept => DOMAIN kept' = Procs /\ \A p \in Procs : KeptHolds(p)'
  BY DEF AssistantInvariant, AssistantTypes, KeptHolds
<1>4. \A r : Assisted!Goes(c, r) => ask' = [ask EXCEPT ![c] = r] /\ ask'[c] = r
  BY <1>0 DEF Assisted!Goes, AssistantTypes
<1>5. CASE Assisted!Begin(c)
  <2> DEFINE r == [Assisted!Quiet EXCEPT !.pc = "load", !.from = version]
  <2>1. kept' = kept /\ boot[HomeOf[c]].pc = "up" /\ Assisted!Goes(c, r)
    BY <1>5 DEF Assisted!Begin
  <2>2. DOMAIN r = AskFields /\ r.pc = "load" /\ r.from = version /\ r.read = <<>>
    BY DEF Assisted!Quiet, AskFields
  <2> HIDE DEF r
  <2>3. <<>> \in Seq(Nat) /\ Len(<<>>) < Cands /\ DOMAIN <<>> = {}
    BY <1>0
  <2>4. version' = version /\ version \in [1..Cands -> Nat]
    BY <1>0, <1>1 DEF AssistantTypes
  <2>5. ask'[c] = r /\ boot' = boot
    BY <1>1, <1>4, <2>1
  <2>6. AskHolds(c)'
    <3>1. version' \in [1..Cands -> Nat] /\ \A i \in 1..Cands : version[i] =< version'[i]
      <4>1. \A i \in 1..Cands : version[i] \in Nat
        BY <2>4
      <4> QED
        BY <2>4, <4>1
    <3>2. boot'[HomeOf[c]].pc = "up"
      BY <2>1, <2>5
    <3>3. ReadSince(<<>>, version)'
      BY DEF ReadSince
    <3>4. ReadSince(ask[c].read, ask[c].from)'
      BY <2>2, <2>5, <3>3 DEF ReadSince
    <3> QED
      BY <2>2, <2>3, <2>4, <2>5, <3>1, <3>2, <3>4 DEF AskHolds
  <2> QED
    BY <1>2, <1>3, <1>4, <2>1, <2>6
<1>6. CASE Assisted!LoadCandidate(c)
  <2> DEFINE seen == Append(ask[c].read, version[Len(ask[c].read) + 1])
             at == IF Len(seen) = Cands THEN "render" ELSE "load"
             r == [ask[c] EXCEPT !.read = seen, !.pc = at]
  <2>1. kept' = kept /\ ask[c].pc = "load" /\ Assisted!Goes(c, r)
    BY <1>6 DEF Assisted!LoadCandidate
  <2>2. ask[c].read \in Seq(Nat) /\ Len(ask[c].read) < Cands /\ ReadSince(ask[c].read, ask[c].from)
    BY <1>0, <2>1 DEF AskHolds
  <2>3. Len(ask[c].read) + 1 \in 1..Cands /\ version[Len(ask[c].read) + 1] \in Nat
    BY <1>0, <2>2 DEF AssistantTypes
  <2>4. /\ seen \in Seq(Nat) /\ Len(seen) = Len(ask[c].read) + 1 /\ DOMAIN seen = 1..Len(seen)
        /\ seen[Len(seen)] = version[Len(seen)]
        /\ \A i \in 1..Len(ask[c].read) : seen[i] = ask[c].read[i]
    BY <2>2, <2>3
  <2>5. ReadSince(seen, ask[c].from)
    <3>1. \A i \in 1..Cands : ask[c].from[i] =< version[i] /\ version[i] \in Nat /\ ask[c].from[i] \in Nat
      BY <1>0, <2>1 DEF AskHolds, AssistantTypes
    <3>2. \A i \in DOMAIN seen : i \in 1..Len(ask[c].read) \/ i = Len(seen)
      BY <2>2, <2>4
    <3>3. \A i \in 1..Len(ask[c].read) : i \in DOMAIN ask[c].read
      BY <2>2
    <3> HIDE DEF seen
    <3>4. ASSUME NEW i \in DOMAIN seen, i \in 1..Len(ask[c].read)
          PROVE  ask[c].from[i] =< seen[i] /\ seen[i] =< version[i]
      BY <2>2, <2>4, <3>3, <3>4 DEF ReadSince
    <3>5. ASSUME NEW i \in DOMAIN seen, i = Len(seen)
          PROVE  ask[c].from[i] =< seen[i] /\ seen[i] =< version[i]
      <4>1. i \in 1..Cands /\ seen[i] = version[i]
        BY <2>3, <2>4, <3>5
      <4> QED
        BY <3>1, <4>1
    <3> QED
      BY <3>2, <3>4, <3>5 DEF ReadSince
  <2> HIDE DEF seen
  <2>6. at = "render" => seen \in [1..Cands -> Nat]
    <3>1. seen \in [1..Len(seen) -> Nat]
      BY <2>4
    <3> QED
      BY <3>1
  <2>7. at = "load" => Len(seen) < Cands
    <3>1. Len(ask[c].read) \in Nat
      BY <2>2
    <3> QED
      BY <1>0, <2>2, <2>4, <3>1
  <2> HIDE DEF at
  <2>8. DOMAIN r = AskFields /\ r.pc = at /\ r.read = seen /\ r.from = ask[c].from
    BY <1>0 DEF AskHolds, AskFields
  <2>9. at \in {"render", "load"}
    BY DEF at
  <2> HIDE DEF r
  <2>10. ask'[c] = r
    BY <1>4, <2>1
  <2>11. AskHolds(c)'
    BY <1>0, <1>1, <2>1, <2>4, <2>5, <2>6, <2>7, <2>8, <2>9, <2>10 DEF AskHolds, ReadSince
  <2> QED
    BY <1>2, <1>3, <1>4, <2>1, <2>11
<1>7. CASE Assisted!Render(c)
  <2>1. kept' = kept /\ ask[c].pc = "render" /\ Template \in DOMAIN known[HomeOf[c]]
    BY <1>0, <1>7 DEF Assisted!Render, AskHolds, BootHolds, AssistantConstants
  <2> DEFINE r == [ask[c] EXCEPT !.pc = "look", !.prompt = ask[c].read]
  <2>2. Assisted!Goes(c, r)
    BY <1>7, <2>1 DEF Assisted!Render
  <2>3. DOMAIN r = AskFields /\ r.pc = "look" /\ r.prompt = ask[c].read /\ r.from = ask[c].from
    BY <1>0 DEF AskHolds, AskFields
  <2> HIDE DEF r
  <2>4. AskHolds(c)'
    BY <1>0, <1>1, <1>4, <2>1, <2>2, <2>3 DEF AskHolds, ReadSince
  <2> QED
    BY <1>2, <1>3, <1>4, <2>1, <2>2, <2>4
<1>8. CASE Assisted!Look(c)
  <2> DEFINE p == HomeOf[c]
             hit == [ask[c] EXCEPT !.pc = "answered", !.answer = kept[p][ask[c].prompt].answer, !.at = minute]
             miss == [ask[c] EXCEPT !.pc = "ask"]
  <2>1. kept' = kept /\ ask[c].pc = "look"
    BY <1>8 DEF Assisted!Look
  <2>2. CASE Assisted!Hit(p, ask[c].prompt)
    <3>1. Assisted!Goes(c, hit)
      BY <1>8, <2>2 DEF Assisted!Look
    <3>2. /\ DOMAIN hit = AskFields /\ hit.pc = "answered" /\ hit.prompt = ask[c].prompt /\ hit.from = ask[c].from
          /\ hit.answer = kept[p][ask[c].prompt].answer /\ hit.at = minute
      BY <1>0 DEF AskHolds, AskFields
    <3>3. /\ hit.answer.of = ask[c].prompt /\ hit.answer.at \in Nat /\ minute \in Nat
          /\ minute < hit.answer.at + TTL
      BY <1>0, <2>2, <3>2 DEF KeptHolds, Assisted!Hit, AssistantTypes
    <3> HIDE DEF hit
    <3>4. hit.at \in Nat /\ hit.at - hit.answer.at < TTL
      BY <1>0, <3>2, <3>3
    <3>5. AskHolds(c)'
      BY <1>0, <1>1, <1>4, <2>1, <3>1, <3>2, <3>3, <3>4 DEF AskHolds, ReadSince
    <3> QED
      BY <1>2, <1>3, <1>4, <2>1, <3>1, <3>5
  <2>3. CASE ~Assisted!Hit(p, ask[c].prompt)
    <3>1. Assisted!Goes(c, miss)
      BY <1>8, <2>3 DEF Assisted!Look
    <3>2. DOMAIN miss = AskFields /\ miss.pc = "ask" /\ miss.prompt = ask[c].prompt /\ miss.from = ask[c].from
      BY <1>0 DEF AskHolds, AskFields
    <3> HIDE DEF miss
    <3>3. AskHolds(c)'
      BY <1>0, <1>1, <1>4, <2>1, <3>1, <3>2 DEF AskHolds, ReadSince
    <3> QED
      BY <1>2, <1>3, <1>4, <2>1, <3>1, <3>3
  <2> QED
    BY <2>2, <2>3
<1>9. ASSUME NEW out, Assisted!Generate(c, out) PROVE AssistantInvariant'
  <2> DEFINE a == [of |-> ask[c].prompt, out |-> out, at |-> minute]
             r == [ask[c] EXCEPT !.pc = "keep", !.answer = a]
  <2>1. kept' = kept /\ ask[c].pc = "ask" /\ Assisted!Goes(c, r)
    BY <1>9 DEF Assisted!Generate
  <2>2. /\ DOMAIN r = AskFields /\ r.pc = "keep" /\ r.prompt = ask[c].prompt /\ r.from = ask[c].from
        /\ r.answer.of = ask[c].prompt /\ r.answer.at = minute
    BY <1>0 DEF AskHolds, AskFields
  <2> HIDE DEF r
  <2>3. AskHolds(c)'
    BY <1>0, <1>1, <1>4, <2>1, <2>2 DEF AskHolds, ReadSince, AssistantTypes
  <2> QED
    BY <1>2, <1>3, <1>4, <2>1, <2>3
<1>10. CASE Assisted!Keep(c)
  <2> DEFINE p == HomeOf[c]
             e == [answer |-> ask[c].answer, expires |-> minute + TTL]
             r == [ask[c] EXCEPT !.pc = "answered", !.at = minute]
  <2>1. /\ ask[c].pc = "keep" /\ kept' = [kept EXCEPT ![p] = Assisted!Put(@, ask[c].prompt, e)]
        /\ Assisted!Goes(c, r)
    BY <1>10 DEF Assisted!Keep
  <2>2. ask[c].answer.of = ask[c].prompt /\ ask[c].answer.at = minute /\ minute \in Nat
    BY <1>0, <2>1 DEF AskHolds, AssistantTypes
  <2>3. /\ DOMAIN r = AskFields /\ r.pc = "answered" /\ r.prompt = ask[c].prompt /\ r.from = ask[c].from
        /\ r.answer = ask[c].answer /\ r.at = minute
    BY <1>0 DEF AskHolds, AskFields
  <2> HIDE DEF r
  <2>4. r.at \in Nat /\ r.at - r.answer.at < TTL
    BY <1>0, <2>2, <2>3
  <2>5. AskHolds(c)'
    BY <1>0, <1>1, <1>4, <2>1, <2>2, <2>3, <2>4 DEF AskHolds, ReadSince
  <2>6. \A q \in Procs : KeptHolds(q)'
    <3>1. \A q \in Procs \ {p} : KeptHolds(q)'
      BY <1>0, <2>1 DEF AssistantInvariant, AssistantTypes, KeptHolds
    <3>2. kept'[p] = Assisted!Put(kept[p], ask[c].prompt, e)
      BY <1>0, <2>1 DEF AssistantTypes
    <3>3. \A q \in Procs : q = p => KeptHolds(q)'
      BY <1>0, <2>2, <3>2 DEF KeptHolds, Assisted!Put
    <3> QED
      BY <3>1, <3>3
  <2>7. DOMAIN kept' = Procs
    BY <1>0, <2>1 DEF AssistantTypes
  <2> QED
    BY <1>2, <1>4, <2>1, <2>5, <2>6, <2>7
<1>11. CASE Assisted!Return(c)
  <2>1. kept' = kept /\ Assisted!Goes(c, Assisted!Quiet)
    BY <1>11 DEF Assisted!Return
  <2>2. DOMAIN Assisted!Quiet = AskFields /\ Assisted!Quiet.pc = "idle"
    BY DEF Assisted!Quiet, AskFields
  <2>3. AskHolds(c)'
    BY <1>4, <2>1, <2>2 DEF AskHolds
  <2> QED
    BY <1>2, <1>3, <1>4, <2>1, <2>3
<1> QED
  BY <1>5, <1>6, <1>7, <1>8, <1>9, <1>10, <1>11 DEF Assisted!Compare

(* Every step keeps it.                                                      *)
LEMMA AssistantPreserved ==
  AssistantConstants /\ AssistantInvariant /\ [Assisted!Next]_(Assisted!assistantVars) => AssistantInvariant'
<1> SUFFICES ASSUME AssistantConstants, AssistantInvariant, [Assisted!Next]_(Assisted!assistantVars)
             PROVE  AssistantInvariant'
  OBVIOUS
<1>1. ASSUME NEW p \in Procs, Assisted!Launch(p) PROVE AssistantInvariant'
  BY <1>1, LaunchKeeps
<1>2. ASSUME NEW c \in Questions, Assisted!Compare(c) PROVE AssistantInvariant'
  BY <1>2, CompareKeeps
<1>3. ASSUME NEW i \in 1..Cands, Assisted!EditCandidate(i) PROVE AssistantInvariant'
  <2>1. version' = [version EXCEPT ![i] = @ + 1] /\ UNCHANGED <<store, boot, known, kept, ask, minute>>
    BY <1>3 DEF Assisted!EditCandidate, Assisted!StoreSame
  <2>2. version' \in [1..Cands -> Nat] /\ \A j \in 1..Cands : version[j] =< version'[j] /\ version[j] \in Nat
    BY <2>1 DEF AssistantInvariant, AssistantTypes
  <2>3. \A c \in Questions : AskHolds(c)'
    <3> SUFFICES ASSUME NEW c \in Questions PROVE AskHolds(c)'
      OBVIOUS
    <3>1. AskHolds(c) /\ Cands \in Nat
      BY DEF AssistantInvariant, AssistantConstants
    <3>2. \A x, y : y \in [1..Cands -> Nat] /\ x \in [1..Cands -> Nat] /\ ReadSince(x, y) => ReadSince(x, y)'
      BY <2>2 DEF ReadSince
    <3>3. ASSUME NEW x \in Seq(Nat), NEW y \in [1..Cands -> Nat], Len(x) < Cands, ReadSince(x, y)
          PROVE  \A j \in DOMAIN x : y[j] =< x[j] /\ x[j] =< version'[j]
      <4>1. \A j \in DOMAIN x : j \in 1..Cands /\ x[j] \in Nat
        BY <3>1, <3>3
      <4> QED
        BY <2>2, <3>3, <4>1 DEF ReadSince
    <3>4. ask[c].pc # "idle" => \A j \in 1..Cands : ask[c].from[j] =< version'[j]
      <4>1. ask[c].pc # "idle" => ask[c].from \in [1..Cands -> Nat] /\ \A j \in 1..Cands : ask[c].from[j] =< version[j]
        BY <3>1 DEF AskHolds
      <4>2. \A j \in 1..Cands : version'[j] \in Nat
        BY <2>2
      <4>3. ASSUME ask[c].pc # "idle", NEW j \in 1..Cands PROVE ask[c].from[j] =< version'[j]
        <5>1. ask[c].from[j] \in Nat /\ version[j] \in Nat /\ version'[j] \in Nat
          BY <2>2, <4>1, <4>2, <4>3
        <5> QED
          BY <2>2, <4>1, <4>3, <5>1
      <4> QED
        BY <4>3
    <3> QED
      BY <2>1, <2>2, <3>1, <3>2, <3>3, <3>4 DEF AskHolds, ReadSince
  <2> QED
    BY <2>1, <2>2, <2>3 DEF AssistantInvariant, AssistantTypes, BootHolds, KeptHolds
<1>4. CASE Assisted!Tick
  <2>1. /\ minute' = minute + 1 /\ \A c \in Questions : ask[c].pc # "keep"
        /\ UNCHANGED <<store, boot, known, kept, version, ask>>
    BY <1>4 DEF Assisted!Tick, Assisted!StoreSame
  <2>2. \A c \in Questions : AskHolds(c)'
    BY <2>1 DEF AssistantInvariant, AskHolds, ReadSince
  <2> QED
    BY <2>1, <2>2 DEF AssistantInvariant, AssistantTypes, BootHolds, KeptHolds
<1>5. CASE UNCHANGED Assisted!assistantVars
  BY <1>5 DEF Assisted!assistantVars, AssistantInvariant, AssistantTypes, BootHolds, KeptHolds, AskHolds, ReadSince
<1> QED
  BY <1>1, <1>2, <1>3, <1>4, <1>5 DEF Assisted!Next

(* What it says of templates and comparisons.                                *)
LEMMA AssistantInvariantTells ==
  AssistantInvariant => Assisted!TemplatesAreKnown /\ Assisted!ComparisonsAreCurrent
<1> SUFFICES ASSUME AssistantInvariant PROVE Assisted!TemplatesAreKnown /\ Assisted!ComparisonsAreCurrent
  OBVIOUS
<1>1. Assisted!TemplatesAreKnown
  BY DEF AssistantInvariant, BootHolds, AskHolds, Assisted!TemplatesAreKnown
<1>2. ASSUME NEW c \in Questions, ask[c].pc = "answered"
      PROVE  /\ \A i \in 1..Cands : ask[c].answer.of[i] \in ask[c].from[i] .. version[i]
             /\ ask[c].at - ask[c].answer.at < TTL
  <2>1. /\ AskHolds(c) /\ ask[c].answer.of = ask[c].prompt /\ ask[c].prompt \in [1..Cands -> Nat]
        /\ ask[c].from \in [1..Cands -> Nat] /\ version \in [1..Cands -> Nat]
        /\ ReadSince(ask[c].prompt, ask[c].from)
    BY <1>2 DEF AssistantInvariant, AssistantTypes, AskHolds
  <2>2. ASSUME NEW i \in 1..Cands PROVE ask[c].answer.of[i] \in ask[c].from[i] .. version[i]
    <3>1. ask[c].prompt[i] \in Nat /\ ask[c].from[i] \in Nat /\ version[i] \in Nat
      BY <2>1
    <3>2. ask[c].from[i] =< ask[c].prompt[i] /\ ask[c].prompt[i] =< version[i]
      BY <2>1 DEF ReadSince
    <3> QED
      BY <2>1, <3>1, <3>2
  <2> QED
    BY <1>2, <2>1, <2>2 DEF AskHolds
<1> QED
  BY <1>1, <1>2 DEF Assisted!ComparisonsAreCurrent

(* Any number of processes that start together and of requests: a process    *)
(* that is up can render every default template, no request raises, and an   *)
(* answer is about the candidates as they were when its request began or     *)
(* later, generated less than a TTL ago.                                     *)
THEOREM AssistantsAnswer ==
  ASSUME AssistantConstants
  PROVE  Assisted!Init /\ [][Assisted!Next]_(Assisted!assistantVars) =>
           [](Assisted!TemplatesAreKnown /\ Assisted!ComparisonsAreCurrent)
<1>1. Assisted!Init => AssistantInvariant
  BY AssistantInit
<1>2. AssistantInvariant /\ [Assisted!Next]_(Assisted!assistantVars) => AssistantInvariant'
  BY AssistantPreserved
<1> QED
  BY <1>1, <1>2, AssistantInvariantTells, PTL

-----------------------------------------------------------------------------
(* The read cache of the reports.                                            *)
Reread == INSTANCE ReadCache WITH
  Keys <- ReportKeys, TTL <- ReportTTL, MaxSize <- ReportMax, MaxClock <- MaxReportTime, MaxWrites <- MaxReportWrites

(* Its settings: it has room for an answer. A key has a company and a view.  *)
ReadCacheConstants == ReportTTL \in Nat /\ ReportMax \in Nat \ {0}

(* Rows that were read, of a version the company had: older than the last    *)
(* announced one only if it was announced since.                             *)
ReadHolds(v, over, k) ==
  /\ k \in ReportKeys
  /\ v \in Nat /\ v =< data[k[1]]
  /\ v < told[k[1]] => over

(* A reader with nothing to read, after a miss, or with the rows.            *)
ReaderHolds(r) ==
  /\ reader[r].pc \in {"idle", "miss", "loaded"}
  /\ DOMAIN reader[r] = {"pc", "key", "value", "over"}
  /\ reader[r].pc # "idle" => reader[r].key \in ReportKeys
  /\ reader[r].pc = "loaded" => ReadHolds(reader[r].value, reader[r].over, reader[r].key)

(* An entry of the cache.                                                    *)
EntryHolds(k) ==
  /\ ReadHolds(cache[k].value, cache[k].over, k)
  /\ cache[k].expires \in Nat /\ cache[k].expires =< now + ReportTTL

(* The inductive invariant: so it is with every reader and every entry.      *)
ReadCacheInvariant ==
  /\ data \in [Reread!Companies -> Nat] /\ told \in [Reread!Companies -> Nat] /\ now \in Nat
  /\ \A c \in Reread!Companies : told[c] =< data[c]
  /\ DOMAIN reader = Readers /\ \A r \in Readers : ReaderHolds(r)
  /\ IsFiniteSet(DOMAIN cache) /\ Cardinality(DOMAIN cache) =< ReportMax
  /\ \A k \in DOMAIN cache : EntryHolds(k)

(* Entries left out of the cache take nothing from the invariant.            *)
LEMMA FewerEntries ==
  ASSUME ReadCacheConstants, ReadCacheInvariant, NEW ks
  PROVE  LET f == Reread!Without(cache, ks) IN
           /\ DOMAIN f = DOMAIN cache \ ks /\ \A k \in DOMAIN f : f[k] = cache[k]
           /\ IsFiniteSet(DOMAIN f) /\ Cardinality(DOMAIN f) =< ReportMax /\ Cardinality(DOMAIN f) \in Nat
<1> DEFINE f == Reread!Without(cache, ks)
<1>1. DOMAIN f = DOMAIN cache \ ks /\ \A k \in DOMAIN f : f[k] = cache[k]
  BY DEF Reread!Without
<1>2. DOMAIN f \in SUBSET DOMAIN cache /\ IsFiniteSet(DOMAIN cache) /\ Cardinality(DOMAIN cache) =< ReportMax
  BY <1>1 DEF ReadCacheInvariant
<1>3. IsFiniteSet(DOMAIN f) /\ Cardinality(DOMAIN f) =< Cardinality(DOMAIN cache)
  BY <1>2, FS_Subset
<1>4. Cardinality(DOMAIN f) \in Nat /\ Cardinality(DOMAIN cache) \in Nat
  BY <1>2, <1>3, FS_CardinalityType
<1>5. Cardinality(DOMAIN f) =< ReportMax
  BY <1>2, <1>3, <1>4 DEF ReadCacheConstants
<1> QED
  BY <1>1, <1>3, <1>4, <1>5

(* Of finitely many entries, and more than none, one expires first.          *)
LEMMA OldestIsThere ==
  ASSUME NEW f, DOMAIN f # {}, \A k \in DOMAIN f : f[k].expires \in Nat
  PROVE  Reread!Oldest(f) \in DOMAIN f
<1> DEFINE T == {f[k].expires : k \in DOMAIN f}
           R == {p \in Nat \X Nat : p[1] < p[2]}
<1>1. T \subseteq Nat /\ T # {}
  OBVIOUS
<1>2. \E x \in T : \A y \in T : ~ (<<y, x>> \in R)
  <2>1. IsWellFoundedOn(R, Nat)
    BY NatLessThanWellFounded DEF OpToRel
  <2> HIDE DEF T, R
  <2> QED
    BY <1>1, <2>1, WFMin
<1>3. PICK x \in T : \A y \in T : ~ (<<y, x>> \in R)
  BY <1>2
<1>4. \A y \in T : x =< y
  <2>1. \A m, n \in Nat : n < m => <<n, m>> \in R
    OBVIOUS
  <2>2. x \in Nat /\ \A y \in T : y \in Nat
    BY <1>1, <1>3
  <2> HIDE DEF T, R
  <2>3. ASSUME NEW y \in T PROVE x =< y
    <3>1. ~ (<<y, x>> \in R)
      BY <1>3
    <3>2. ~ (y < x)
      BY <2>1, <2>2, <3>1
    <3> QED
      BY <2>2, <3>2
  <2> QED
    BY <2>3
<1>5. \E k \in DOMAIN f : \A j \in DOMAIN f : f[k].expires =< f[j].expires
  BY <1>4
<1> QED
  BY <1>5 DEF Reread!Oldest

(* Before an entry is stored the cache has room for it.                      *)
LEMMA RoomIsMade ==
  ASSUME ReadCacheConstants, NEW f, NEW k, IsFiniteSet(DOMAIN f), Cardinality(DOMAIN f) =< ReportMax,
         \A j \in DOMAIN f : f[j].expires \in Nat
  PROVE  LET g == Reread!Roomy(f, k) IN
           /\ DOMAIN g \subseteq DOMAIN f /\ \A j \in DOMAIN g : g[j] = f[j]
           /\ IsFiniteSet(DOMAIN g \cup {k}) /\ Cardinality(DOMAIN g \cup {k}) =< ReportMax
<1> DEFINE g == Reread!Roomy(f, k)
           o == Reread!Oldest(f)
<1>1. ReportMax \in Nat /\ ReportMax > 0 /\ Cardinality(DOMAIN f) \in Nat
  BY FS_CardinalityType DEF ReadCacheConstants
<1>2. CASE Cardinality(DOMAIN f) >= ReportMax /\ k \notin DOMAIN f
  <2>1. g = [j \in DOMAIN f \ {o} |-> f[j]]
    BY <1>2 DEF Reread!Roomy, Reread!Without, Reread!Cardinality, Cardinality
  <2>2. DOMAIN f # {}
    BY <1>1, <1>2, FS_EmptySet
  <2>3. o \in DOMAIN f
    BY <2>2, OldestIsThere
  <2>4. DOMAIN g = DOMAIN f \ {o}
    BY <2>1
  <2> HIDE DEF g, o
  <2>5. IsFiniteSet(DOMAIN g) /\ Cardinality(DOMAIN g) = Cardinality(DOMAIN f) - 1
    BY <2>3, <2>4, FS_RemoveElement
  <2>6. IsFiniteSet(DOMAIN g \cup {k}) /\ Cardinality(DOMAIN g \cup {k}) =< Cardinality(DOMAIN g) + 1
    <3>1. Cardinality(DOMAIN g) \in Int
      BY <1>1, <2>5
    <3>2. /\ IsFiniteSet(DOMAIN g \cup {k})
          /\ Cardinality(DOMAIN g \cup {k}) = IF k \in DOMAIN g THEN Cardinality(DOMAIN g) ELSE Cardinality(DOMAIN g) + 1
      BY <2>5, FS_AddElement, Zenon
    <3> QED
      BY <3>1, <3>2
  <2>7. Cardinality(DOMAIN g \cup {k}) \in Nat
    BY <2>6, FS_CardinalityType
  <2> QED
    BY <1>1, <2>1, <2>4, <2>5, <2>6, <2>7 DEF g
<1>3. CASE ~(Cardinality(DOMAIN f) >= ReportMax /\ k \notin DOMAIN f)
  <2>1. g = f
    BY <1>3 DEF Reread!Roomy, Reread!Cardinality, Cardinality
  <2>2. /\ IsFiniteSet(DOMAIN f \cup {k})
        /\ Cardinality(DOMAIN f \cup {k}) = IF k \in DOMAIN f THEN Cardinality(DOMAIN f) ELSE Cardinality(DOMAIN f) + 1
    BY FS_AddElement, Zenon
  <2>3. Cardinality(DOMAIN f \cup {k}) =< ReportMax
    BY <1>1, <1>3, <2>2
  <2> HIDE DEF g
  <2> SUFFICES /\ DOMAIN g \subseteq DOMAIN f /\ \A j \in DOMAIN g : g[j] = f[j]
               /\ IsFiniteSet(DOMAIN g \cup {k}) /\ Cardinality(DOMAIN g \cup {k}) =< ReportMax
    BY DEF g
  <2> QED
    BY <2>1, <2>2, <2>3
<1> QED
  BY <1>2, <1>3

(* It holds at first.                                                        *)
LEMMA ReadCacheInit == ReadCacheConstants /\ Reread!Init => ReadCacheInvariant
<1> SUFFICES ASSUME ReadCacheConstants, Reread!Init PROVE ReadCacheInvariant
  OBVIOUS
<1>1. DOMAIN cache = {}
  BY DEF Reread!Init
<1>2. IsFiniteSet(DOMAIN cache) /\ Cardinality(DOMAIN cache) = 0
  BY <1>1, FS_EmptySet
<1>3. \A r \in Readers : ReaderHolds(r)
  BY DEF Reread!Init, Reread!Idle, ReaderHolds
<1> QED
  BY <1>1, <1>2, <1>3 DEF Reread!Init, ReadCacheInvariant, ReadCacheConstants

(* Every step keeps it.                                                      *)
LEMMA ReadCachePreserved ==
  ReadCacheConstants /\ ReadCacheInvariant /\ [Reread!Next]_(Reread!vars) => ReadCacheInvariant'
<1> SUFFICES ASSUME ReadCacheConstants, ReadCacheInvariant, [Reread!Next]_(Reread!vars)
             PROVE  ReadCacheInvariant'
  OBVIOUS
<1>0. /\ ReportTTL \in Nat /\ now \in Nat /\ ReportMax \in Nat \ {0}
      /\ \A k \in ReportKeys : k[1] \in Reread!Companies
  BY DEF ReadCacheConstants, ReadCacheInvariant, Reread!Companies
<1>1. ASSUME NEW r \in Readers, NEW k \in ReportKeys, Reread!Get(r, k) PROVE ReadCacheInvariant'
  <2>1. CASE UNCHANGED <<cache, reader>>
    BY <1>1, <2>1 DEF Reread!Get, ReadCacheInvariant, ReaderHolds, EntryHolds, ReadHolds
  <2>2. CASE /\ cache' = Reread!Without(cache, {k})
             /\ reader' = [reader EXCEPT ![r].pc = "miss", ![r].key = k]
    <3>1. UNCHANGED <<data, told, now>>
      BY <1>1 DEF Reread!Get
    <3>2. /\ DOMAIN cache' = DOMAIN cache \ {k} /\ \A j \in DOMAIN cache' : cache'[j] = cache[j]
          /\ IsFiniteSet(DOMAIN cache') /\ Cardinality(DOMAIN cache') =< ReportMax
      BY <2>2, FewerEntries, Zenon
    <3>3. \A q \in Readers : ReaderHolds(q)'
      BY <2>2, <3>1 DEF ReadCacheInvariant, ReaderHolds, ReadHolds
    <3>4. \A j \in DOMAIN cache' : EntryHolds(j)'
      BY <3>1, <3>2 DEF ReadCacheInvariant, EntryHolds, ReadHolds
    <3> QED
      BY <2>2, <3>1, <3>2, <3>3, <3>4 DEF ReadCacheInvariant
  <2> QED
    BY <1>1, <2>1, <2>2 DEF Reread!Get
<1>2. ASSUME NEW r \in Readers, Reread!Load(r) PROVE ReadCacheInvariant'
  <2>1. /\ reader[r].pc = "miss" /\ UNCHANGED <<data, told, cache, now>>
        /\ reader' = [reader EXCEPT ![r].pc = "loaded", ![r].value = data[reader[r].key[1]], ![r].over = FALSE]
    BY <1>2 DEF Reread!Load
  <2>2. reader[r].key \in ReportKeys /\ reader[r].key[1] \in Reread!Companies
    BY <1>0, <2>1 DEF ReadCacheInvariant, ReaderHolds
  <2>3. \A q \in Readers : ReaderHolds(q)'
    <3>1. /\ data[reader[r].key[1]] \in Nat /\ told[reader[r].key[1]] \in Nat
          /\ told[reader[r].key[1]] =< data[reader[r].key[1]]
      BY <2>2 DEF ReadCacheInvariant
    <3>2. ReaderHolds(r)'
      BY <2>1, <2>2, <3>1 DEF ReadCacheInvariant, ReaderHolds, ReadHolds
    <3>3. \A q \in Readers \ {r} : ReaderHolds(q)'
      BY <2>1 DEF ReadCacheInvariant, ReaderHolds, ReadHolds
    <3> QED
      BY <3>2, <3>3
  <2> QED
    BY <2>1, <2>3 DEF ReadCacheInvariant, EntryHolds, ReadHolds
<1>3. ASSUME NEW r \in Readers, Reread!Set(r) PROVE ReadCacheInvariant'
  <2>0. PICK k : k = reader[r].key
    OBVIOUS
  <2> DEFINE e == [value |-> reader[r].value, expires |-> now + ReportTTL, over |-> reader[r].over]
             room == Reread!Roomy(Reread!Kept, k)
  <2>1. /\ reader[r].pc = "loaded" /\ UNCHANGED <<data, told, now>>
        /\ reader' = [reader EXCEPT ![r] = Reread!Idle]
        /\ cache' = [x \in DOMAIN room \cup {k} |-> IF x = k THEN e ELSE room[x]]
    BY <1>3, <2>0 DEF Reread!Set
  <2>2. /\ DOMAIN Reread!Kept \subseteq DOMAIN cache /\ \A j \in DOMAIN Reread!Kept : Reread!Kept[j] = cache[j]
        /\ IsFiniteSet(DOMAIN Reread!Kept) /\ Cardinality(DOMAIN Reread!Kept) =< ReportMax
    BY FewerEntries, Zenon DEF Reread!Kept
  <2>3. \A j \in DOMAIN Reread!Kept : Reread!Kept[j].expires \in Nat
    BY <2>2 DEF ReadCacheInvariant, EntryHolds
  <2>4. /\ DOMAIN room \subseteq DOMAIN Reread!Kept /\ \A j \in DOMAIN room : room[j] = Reread!Kept[j]
        /\ IsFiniteSet(DOMAIN room \cup {k}) /\ Cardinality(DOMAIN room \cup {k}) =< ReportMax
    BY <2>2, <2>3, RoomIsMade, Zenon
  <2>5. ReadHolds(reader[r].value, reader[r].over, k)
    BY <2>0, <2>1 DEF ReadCacheInvariant, ReaderHolds
  <2>6. /\ DOMAIN cache' = DOMAIN room \cup {k} /\ cache'[k] = e
        /\ \A j \in DOMAIN cache' \ {k} : j \in DOMAIN cache /\ cache'[j] = cache[j]
    BY <2>1, <2>2, <2>4
  <2>7. e.value = reader[r].value /\ e.over = reader[r].over /\ e.expires = now + ReportTTL
    OBVIOUS
  <2> HIDE DEF e, room
  <2>8. \A j \in DOMAIN cache' : EntryHolds(j)'
    <3>1. \A j \in DOMAIN cache' \ {k} : EntryHolds(j)'
      BY <2>1, <2>6 DEF ReadCacheInvariant, EntryHolds, ReadHolds
    <3>2. EntryHolds(k)'
      BY <1>0, <2>1, <2>5, <2>6, <2>7 DEF EntryHolds, ReadHolds
    <3> QED
      BY <3>1, <3>2
  <2>9. \A q \in Readers : ReaderHolds(q)'
    <3>1. ReaderHolds(r)'
      BY <2>1 DEF ReadCacheInvariant, ReaderHolds, Reread!Idle
    <3>2. \A q \in Readers \ {r} : ReaderHolds(q)'
      BY <2>1 DEF ReadCacheInvariant, ReaderHolds, ReadHolds
    <3> QED
      BY <3>1, <3>2
  <2> QED
    BY <2>1, <2>4, <2>6, <2>8, <2>9 DEF ReadCacheInvariant
<1>4. ASSUME NEW c \in Reread!Companies, Reread!Write(c) PROVE ReadCacheInvariant'
  <2>1. data' = [data EXCEPT ![c] = @ + 1] /\ UNCHANGED <<told, cache, reader, now>>
    BY <1>4 DEF Reread!Write
  <2>2. data' \in [Reread!Companies -> Nat] /\ \A d \in Reread!Companies : data[d] =< data'[d]
    BY <2>1 DEF ReadCacheInvariant
  <2>3. \A v, over, k : ReadHolds(v, over, k) => ReadHolds(v, over, k)'
    <3>1. ASSUME NEW v, NEW over, NEW k, ReadHolds(v, over, k) PROVE ReadHolds(v, over, k)'
      <4>1. k[1] \in Reread!Companies /\ data[k[1]] \in Nat /\ data'[k[1]] \in Nat /\ data[k[1]] =< data'[k[1]]
        BY <1>0, <2>2, <3>1 DEF ReadHolds, ReadCacheInvariant
      <4> QED
        BY <2>1, <3>1, <4>1 DEF ReadHolds
    <3> QED
      BY <3>1
  <2>4. \A d \in Reread!Companies : told'[d] =< data'[d]
    BY <2>1, <2>2 DEF ReadCacheInvariant
  <2>5. \A r \in Readers : ReaderHolds(r)'
    BY <2>1, <2>3 DEF ReadCacheInvariant, ReaderHolds
  <2>6. \A k \in DOMAIN cache' : EntryHolds(k)'
    BY <2>1, <2>3 DEF ReadCacheInvariant, EntryHolds
  <2> QED
    BY <2>1, <2>2, <2>4, <2>5, <2>6 DEF ReadCacheInvariant
<1>5. ASSUME NEW c \in Reread!Companies, Reread!Invalidate(c) PROVE ReadCacheInvariant'
  <2>1. /\ told' = [told EXCEPT ![c] = data[c]] /\ UNCHANGED <<data, now>>
        /\ cache' = Reread!Without(cache, Reread!Dropped(c))
        /\ reader' = [r \in Readers |-> [reader[r] EXCEPT !.over = @ \/ (reader[r].pc = "loaded" /\ reader[r].key[1] = c)]]
    BY <1>5 DEF Reread!Invalidate
  <2>2. /\ DOMAIN cache' = DOMAIN cache \ Reread!Dropped(c) /\ \A j \in DOMAIN cache' : cache'[j] = cache[j]
        /\ IsFiniteSet(DOMAIN cache') /\ Cardinality(DOMAIN cache') =< ReportMax
    BY <2>1, FewerEntries, Zenon
  <2>3. told' \in [Reread!Companies -> Nat] /\ \A d \in Reread!Companies : told'[d] =< data'[d]
    BY <2>1 DEF ReadCacheInvariant
  <2>4. \A v, over, k : ReadHolds(v, over, k) /\ k[1] # c => ReadHolds(v, over, k)'
    BY <1>0, <2>1 DEF ReadHolds, ReadCacheInvariant
  <2>5. \A v, k : ReadHolds(v, TRUE, k) => ReadHolds(v, TRUE, k)'
    BY <2>1 DEF ReadHolds
  <2>6. \A r \in Readers : ReaderHolds(r)'
    <3> SUFFICES ASSUME NEW r \in Readers PROVE ReaderHolds(r)'
      OBVIOUS
    <3>1. /\ reader'[r].pc = reader[r].pc /\ reader'[r].key = reader[r].key /\ reader'[r].value = reader[r].value
          /\ DOMAIN reader'[r] = DOMAIN reader[r] /\ ReaderHolds(r)
      BY <2>1 DEF ReadCacheInvariant, ReaderHolds
    <3>2. CASE reader[r].pc = "loaded" /\ reader[r].key[1] = c
      <4>1. reader'[r].over = TRUE
        BY <2>1, <3>1, <3>2 DEF ReaderHolds
      <4>2. ReadHolds(reader[r].value, TRUE, reader[r].key)
        BY <3>1, <3>2 DEF ReaderHolds, ReadHolds
      <4>3. ReadHolds(reader[r].value, TRUE, reader[r].key)'
        BY <2>1, <4>2, <3>1 DEF ReadHolds
      <4> QED
        BY <3>1, <3>2, <4>1, <4>3 DEF ReaderHolds
    <3>3. CASE ~(reader[r].pc = "loaded" /\ reader[r].key[1] = c)
      <4>1. reader'[r].over <=> reader[r].over
        BY <2>1, <3>1, <3>3 DEF ReaderHolds
      <4> QED
        BY <1>0, <2>1, <3>1, <3>3, <4>1 DEF ReaderHolds, ReadHolds, ReadCacheInvariant
    <3> QED
      BY <3>2, <3>3
  <2>7. \A k \in DOMAIN cache' : EntryHolds(k)'
    <3> SUFFICES ASSUME NEW k \in DOMAIN cache' PROVE EntryHolds(k)'
      OBVIOUS
    <3>1. k \in DOMAIN cache /\ k[1] # c /\ cache'[k] = cache[k] /\ EntryHolds(k)
      BY <2>2 DEF Reread!Dropped, ReadCacheInvariant
    <3>2. told'[k[1]] = told[k[1]]
      BY <1>0, <2>1, <3>1 DEF ReadCacheInvariant, EntryHolds, ReadHolds
    <3> QED
      BY <2>1, <3>1, <3>2 DEF EntryHolds, ReadHolds
  <2> QED
    BY <2>1, <2>2, <2>3, <2>6, <2>7 DEF ReadCacheInvariant
<1>6. CASE Reread!Tick
  <2>1. now' = now + 1 /\ UNCHANGED <<data, told, cache, reader>>
    BY <1>6 DEF Reread!Tick
  <2>2. \A k \in DOMAIN cache' : EntryHolds(k)'
    BY <1>0, <2>1 DEF ReadCacheInvariant, EntryHolds, ReadHolds
  <2> QED
    BY <1>0, <2>1, <2>2 DEF ReadCacheInvariant, ReaderHolds, ReadHolds
<1>7. CASE UNCHANGED Reread!vars
  BY <1>7 DEF Reread!vars, ReadCacheInvariant, ReaderHolds, EntryHolds, ReadHolds
<1> QED
  BY <1>1, <1>2, <1>3, <1>4, <1>5, <1>6, <1>7 DEF Reread!Next

(* What it says of the answers.                                              *)
LEMMA ReadCacheInvariantTells == ReadCacheInvariant => Reread!StaleOnlyByOverlap
BY DEF ReadCacheInvariant, EntryHolds, ReadHolds, Reread!StaleOnlyByOverlap, Reread!Cardinality, Cardinality

(* Any number of readers, changes and seconds: a kept report older than the  *)
(* last announced change was being loaded while it was announced and expires *)
(* within a TTL, and the cache never holds more than its maximum.            *)
THEOREM ReportsAreFresh ==
  ASSUME ReadCacheConstants
  PROVE  Reread!Init /\ [][Reread!Next]_(Reread!vars) => []Reread!StaleOnlyByOverlap
<1>1. Reread!Init => ReadCacheInvariant
  BY ReadCacheInit
<1>2. ReadCacheInvariant /\ [Reread!Next]_(Reread!vars) => ReadCacheInvariant'
  BY ReadCachePreserved
<1> QED
  BY <1>1, <1>2, ReadCacheInvariantTells, PTL

-----------------------------------------------------------------------------
(* The cache in Redis with copies in the processes, and its lock.            *)
Tiered == INSTANCE TieredCache WITH
  now <- second, rq <- todo, truth <- written, crossed <- raced,
  Procs <- Machines, Keys <- CacheKeys, Locks <- CacheLocks, TTL <- CacheTTL, MaxSize <- CopySize,
  MaxClock <- MaxCacheTime, MaxWrites <- MaxCacheWrites

(* Its settings. A process writes its number under the key of a lock, so no  *)
(* number is the value of an absent key; held says of one lock who holds it. *)
TieredConstants ==
  /\ Machines \subseteq Nat \ {0} /\ IsFiniteSet(CacheKeys) /\ CacheTTL \in Nat /\ CopySize \in Nat
  /\ CacheLocks \subseteq CacheKeys /\ \A j, k \in CacheLocks : j = k

(* An entry: it lives for a TTL at most.                                     *)
CopyTyped(e) ==
  /\ DOMAIN e = {"value", "expires"} /\ e.value \in Nat
  /\ e.expires \in Nat /\ e.expires =< second + CacheTTL

(* What a process still has to do.                                           *)
TodoTyped(p) ==
  \/ todo[p] = Tiered!Idle
  \/ /\ todo[p].op \in {"set", "acquire"}
     /\ \E k \in CacheKeys : todo[p].keys = {k}
     /\ todo[p].value \in Nat \ {0}
  \/ todo[p].op \in {"prefix", "delete", "release"} /\ todo[p].keys \subseteq CacheKeys

(* Types.                                                                    *)
TieredTypes ==
  /\ second \in Nat /\ writes \in Nat /\ up \in BOOLEAN
  /\ DOMAIN redis = CacheKeys /\ \A k \in CacheKeys : CopyTyped(redis[k])
  /\ DOMAIN local = Machines
  /\ \A p \in Machines : DOMAIN local[p] = CacheKeys /\ \A k \in CacheKeys : CopyTyped(local[p][k])
  /\ DOMAIN todo = Machines /\ \A p \in Machines : TodoTyped(p)
  /\ written \in [CacheKeys -> Nat]
  /\ unseen \in [Machines -> [CacheKeys -> Nat]] /\ held \in [Machines -> Nat]

(* Until the call that changed a key ends, its process has the old copy.     *)
Pending(p, k) == todo[p].op \in {"set", "prefix", "delete"} /\ k \in todo[p].keys

(* An entry is of the last value written, or expires before a process has to *)
(* have seen the change.                                                     *)
Known(e, p, k) == e.value \in {0, written[k]} \/ e.expires =< unseen[p][k]

(* The inductive invariant: so it is with Redis for every process, with the  *)
(* copy of a process that has ended its call, and with what it is to store.  *)
TieredInvariant ==
  /\ TieredTypes
  /\ \A p \in Machines, k \in CacheKeys :
       /\ Known(redis[k], p, k)
       /\ ~Pending(p, k) => Known(local[p][k], p, k)
       /\ todo[p].op = "set" /\ k \in todo[p].keys =>
            todo[p].value = written[k] \/ unseen[p][k] >= second + CacheTTL

(* A copy holds no more than it should and one entry.                        *)
CopiesAreBounded == \A p \in Machines : Cardinality(Tiered!Held(local[p])) =< CopySize + 1

(* The lock, as long as no calls for it overlapped and Redis was up: its     *)
(* entry is that of the holder and lasts as long; who is about to acquire it *)
(* found it free, and who is about to release it found no one else's.        *)
LockInvariant ==
  raced \/
    /\ up
    /\ \A p \in Machines :
         /\ held[p] > second => \E k \in CacheLocks : redis[k].value = p /\ redis[k].expires >= held[p]
         /\ todo[p].op \in {"acquire", "release"} =>
              /\ todo[p].keys \subseteq CacheLocks
              /\ \A q \in Machines \ {p} : held[q] =< second /\ todo[q].op \notin {"acquire", "release"}
         /\ todo[p].op = "acquire" => todo[p].value = p

(* Together.                                                                 *)
CacheInvariant == TieredInvariant /\ CopiesAreBounded /\ LockInvariant

(* What may be left of a copy when an entry is to be added.                  *)
LEMMA PrunedKeeps ==
  ASSUME TieredConstants, NEW f, NEW some \in Tiered!Pruned(f), DOMAIN f = CacheKeys
  PROVE  /\ DOMAIN some = CacheKeys
         /\ \A k \in CacheKeys : some[k] \in {f[k], Tiered!None}
         /\ IsFiniteSet(Tiered!Held(some)) /\ Cardinality(Tiered!Held(some)) =< CopySize
<1> DEFINE alive == {k \in CacheKeys : Tiered!Live(f[k]) # 0}
<1>1. \A S : Tiered!Cardinality(S) = Cardinality(S)
  BY DEF Tiered!Cardinality, Cardinality
<1>2. PICK left \in SUBSET alive : Cardinality(left) =< CopySize /\ some = Tiered!Without(f, CacheKeys \ left)
  <2>1. CASE Cardinality(alive) =< CopySize
    BY <1>1, <2>1 DEF Tiered!Pruned
  <2>2. CASE ~(Cardinality(alive) =< CopySize)
    <3>1. PICK left \in SUBSET alive : Cardinality(left) = CopySize /\ some = Tiered!Without(f, CacheKeys \ left)
      BY <1>1, <2>2 DEF Tiered!Pruned
    <3>2. CopySize =< CopySize
      BY DEF TieredConstants
    <3> QED
      BY <3>1, <3>2
  <2> QED
    BY <2>1, <2>2
<1>3. Tiered!Held(some) \subseteq left /\ left \subseteq CacheKeys
  BY <1>2 DEF Tiered!Held, Tiered!Without, Tiered!None
<1>4. IsFiniteSet(left)
  BY <1>3, FS_Subset DEF TieredConstants
<1>5. IsFiniteSet(Tiered!Held(some)) /\ Cardinality(Tiered!Held(some)) =< Cardinality(left)
  BY <1>3, <1>4, FS_Subset
<1>6. Cardinality(Tiered!Held(some)) \in Nat /\ Cardinality(left) \in Nat
  BY <1>4, <1>5, FS_CardinalityType
<1>7. Cardinality(Tiered!Held(some)) =< CopySize
  BY <1>2, <1>5, <1>6 DEF TieredConstants
<1> QED
  BY <1>2, <1>5, <1>7 DEF Tiered!Without

(* All of it holds at first.                                                 *)
LEMMA TieredInit == TieredConstants /\ Tiered!Init => CacheInvariant
<1> SUFFICES ASSUME TieredConstants, Tiered!Init PROVE CacheInvariant
  OBVIOUS
<1>1. TieredTypes
  BY DEF TieredConstants, Tiered!Init, Tiered!None, TieredTypes, CopyTyped, TodoTyped
<1>2. TieredInvariant
  BY <1>1 DEF Tiered!Init, Tiered!None, Tiered!Idle, TieredInvariant, Known, Pending
<1>3. CopiesAreBounded
  <2>1. \A p \in Machines : Tiered!Held(local[p]) = {}
    BY DEF Tiered!Init, Tiered!Held
  <2>2. Cardinality({}) = 0
    BY FS_EmptySet
  <2> QED
    BY <2>1, <2>2 DEF CopiesAreBounded, TieredConstants
<1>4. LockInvariant
  BY DEF Tiered!Init, Tiered!Idle, LockInvariant
<1> QED
  BY <1>2, <1>3, <1>4 DEF CacheInvariant

(* A value written or deleted in Redis by a process with nothing to do, or   *)
(* about to acquire or release the lock, or in the midst of a prefix: keys   *)
(* are the keys it is of, was those the call has deleted before.             *)
LEMMA BackendKeeps ==
  ASSUME TieredConstants, TieredInvariant, NEW p \in Machines, NEW keys \in SUBSET CacheKeys, NEW v \in Nat,
         todo[p].op \in {"idle", "acquire", "release", "prefix"},
         NEW was \in SUBSET CacheKeys, was = Tiered!Before(p),
         up => /\ DOMAIN redis' = CacheKeys
               /\ \A k \in CacheKeys \ keys : redis'[k] = redis[k]
               /\ \A k \in keys : CopyTyped(redis'[k]) /\ redis'[k].value = v,
         ~up => redis' = redis,
         DOMAIN todo' = Machines, \A q \in Machines \ {p} : todo'[q] = todo[q],
         TodoTyped(p)', todo'[p].op \in {"set", "prefix", "delete"}, todo'[p].keys = was \cup keys,
         todo'[p].op = "set" => todo'[p].value = v /\ was = {},
         written' \in [CacheKeys -> Nat],
         \A k \in CacheKeys : written'[k] = IF k \in keys THEN v ELSE written[k],
         unseen' = Tiered!Unseen(p, keys),
         UNCHANGED <<local, up, second>>, writes' \in Nat, held' \in [Machines -> Nat]
  PROVE  TieredInvariant'
<1>0. TieredTypes /\ second \in Nat /\ CacheTTL \in Nat
  BY DEF TieredInvariant, TieredTypes, TieredConstants
<1>1. /\ unseen' \in [Machines -> [CacheKeys -> Nat]]
      /\ \A q \in Machines, k \in CacheKeys :
           unseen'[q][k] = IF k \in keys /\ (q # p \/ ~up) THEN second + CacheTTL ELSE unseen[q][k]
  BY <1>0 DEF TieredTypes, Tiered!Unseen
<1>2. DOMAIN redis' = CacheKeys /\ \A k \in CacheKeys : CopyTyped(redis[k]) /\ CopyTyped(redis'[k])
  BY <1>0 DEF TieredTypes, CopyTyped
<1>3. TieredTypes'
  <2>1. \A q \in Machines \ {p} : TodoTyped(q)'
    <3>1. ASSUME NEW q \in Machines \ {p} PROVE TodoTyped(q)'
      <4>1. TodoTyped(q) /\ todo'[q] = todo[q]
        BY <1>0 DEF TieredTypes
      <4> QED
        BY <4>1, Zenon DEF TodoTyped, Tiered!Idle
    <3> QED
      BY <3>1
  <2> QED
    BY <1>0, <1>1, <1>2, <2>1 DEF TieredTypes, CopyTyped
<1>4. ASSUME NEW q \in Machines, NEW k \in CacheKeys
      PROVE  /\ Known(redis[k], q, k)'
             /\ ~Pending(q, k)' => Known(local[q][k], q, k)'
             /\ todo'[q].op = "set" /\ k \in todo'[q].keys =>
                  todo'[q].value = written'[k] \/ unseen'[q][k] >= second' + CacheTTL
  <2>1. CASE k \notin keys
    <3>1. /\ redis'[k] = redis[k] /\ written'[k] = written[k] /\ unseen'[q][k] = unseen[q][k]
          /\ local'[q][k] = local[q][k] /\ second' = second
      BY <1>1, <2>1
    <3>2. ~Pending(q, k)' => ~Pending(q, k)
      BY <2>1 DEF Pending, Tiered!Before
    <3>3. todo'[q].op = "set" /\ k \in todo'[q].keys => todo'[q] = todo[q]
      BY <2>1
    <3> QED
      BY <3>1, <3>2, <3>3 DEF TieredInvariant, Known
  <2>2. CASE k \in keys /\ (q # p \/ ~up)
    <3>1. unseen'[q][k] = second + CacheTTL /\ second' = second
      BY <1>1, <2>2
    <3>2. CopyTyped(redis'[k]) /\ CopyTyped(local[q][k]) /\ local'[q][k] = local[q][k]
      BY <1>0, <1>2 DEF TieredTypes
    <3>3. Known(redis[k], q, k)' /\ Known(local[q][k], q, k)'
      BY <1>0, <3>1, <3>2 DEF Known, CopyTyped
    <3> QED
      BY <1>0, <3>1, <3>3
  <2>3. CASE k \in keys /\ q = p /\ up
    <3>1. redis'[k].value = v /\ written'[k] = v /\ Pending(q, k)'
      BY <2>3 DEF Pending
    <3> QED
      BY <2>3, <3>1 DEF Known
  <2> QED
    BY <2>1, <2>2, <2>3
<1> QED
  BY <1>3, <1>4 DEF TieredInvariant

(* The copies and the lock are not affected by it.                           *)
LEMMA CopiesKept == CopiesAreBounded /\ UNCHANGED local => CopiesAreBounded'
BY DEF CopiesAreBounded, Tiered!Held

(* CacheService.set in Redis.                                                *)
LEMMA SetBackendKeeps ==
  ASSUME TieredConstants, TieredInvariant, NEW p \in Machines, NEW k \in CacheKeys, NEW v \in Nat \ {0},
         todo[p].op \in {"idle", "acquire", "release"}, Tiered!SetBackend(p, k, v),
         UNCHANGED <<local, up, second>>, held' \in [Machines -> Nat]
  PROVE  TieredInvariant'
<1> DEFINE e == [value |-> v, expires |-> second + CacheTTL]
<1>0. TieredTypes /\ second \in Nat /\ CacheTTL \in Nat /\ writes \in Nat
  BY DEF TieredInvariant, TieredTypes, TieredConstants
<1>1. /\ redis' = IF up THEN [redis EXCEPT ![k] = e] ELSE redis
      /\ todo' = [todo EXCEPT ![p] = [op |-> "set", keys |-> {k}, value |-> v]]
      /\ written' = [written EXCEPT ![k] = v] /\ unseen' = Tiered!Unseen(p, {k})
      /\ writes' = writes + 1
  BY DEF Tiered!SetBackend
<1>2. CopyTyped(e) /\ e.value = v
  BY <1>0 DEF CopyTyped
<1> HIDE DEF e
<1>3. up => /\ DOMAIN redis' = CacheKeys
            /\ \A j \in CacheKeys \ {k} : redis'[j] = redis[j]
            /\ \A j \in {k} : CopyTyped(redis'[j]) /\ redis'[j].value = v
  <2>1. up => DOMAIN redis' = CacheKeys /\ redis'[k] = e /\ \A j \in CacheKeys \ {k} : redis'[j] = redis[j]
    BY <1>0, <1>1 DEF TieredTypes
  <2> QED
    BY <1>2, <2>1
<1>4. /\ DOMAIN todo' = Machines /\ \A q \in Machines \ {p} : todo'[q] = todo[q]
      /\ todo'[p].op = "set" /\ todo'[p].keys = {k} /\ todo'[p].value = v
  BY <1>0, <1>1 DEF TieredTypes
<1>5. TodoTyped(p)'
  BY <1>4 DEF TodoTyped
<1>6. /\ written' \in [CacheKeys -> Nat]
      /\ \A j \in CacheKeys : written'[j] = IF j \in {k} THEN v ELSE written[j]
  BY <1>0, <1>1 DEF TieredTypes
<1>7. /\ writes' \in Nat /\ (~up => redis' = redis) /\ v \in Nat /\ {k} \in SUBSET CacheKeys
      /\ {} = Tiered!Before(p) /\ todo'[p].keys = {} \cup {k}
  BY <1>0, <1>1, <1>4 DEF Tiered!Before
<1> QED
  BY <1>1, <1>3, <1>4, <1>5, <1>6, <1>7, BackendKeeps

(* delete, invalidate and the steps of invalidate_prefix in Redis.           *)
LEMMA DeleteBackendKeeps ==
  ASSUME TieredConstants, TieredInvariant, NEW p \in Machines, NEW keys \in SUBSET CacheKeys,
         NEW op \in {"prefix", "delete"},
         todo[p].op \in {"idle", "acquire", "release", "prefix"}, Tiered!DeleteBackend(p, keys, op),
         UNCHANGED <<local, up, second>>, held' \in [Machines -> Nat]
  PROVE  TieredInvariant'
<1>0. TieredTypes /\ second \in Nat /\ CacheTTL \in Nat /\ writes \in Nat
  BY DEF TieredInvariant, TieredTypes, TieredConstants
<1>1. /\ redis' = IF up THEN Tiered!Without(redis, keys) ELSE redis
      /\ todo' = [todo EXCEPT ![p] = [op |-> op, keys |-> Tiered!Before(p) \cup keys, value |-> 0]]
      /\ written' = [j \in CacheKeys |-> IF j \in keys THEN 0 ELSE written[j]] /\ unseen' = Tiered!Unseen(p, keys)
      /\ writes' = writes
  BY DEF Tiered!DeleteBackend
<1>2. up => /\ DOMAIN redis' = CacheKeys
            /\ \A j \in CacheKeys \ keys : redis'[j] = redis[j]
            /\ \A j \in keys : CopyTyped(redis'[j]) /\ redis'[j].value = 0
  BY <1>0, <1>1 DEF Tiered!Without, Tiered!None, CopyTyped
<1>3. /\ DOMAIN todo' = Machines /\ \A q \in Machines \ {p} : todo'[q] = todo[q]
      /\ todo'[p].op = op /\ todo'[p].keys = Tiered!Before(p) \cup keys
  BY <1>0, <1>1 DEF TieredTypes
<1>4. TodoTyped(p)' /\ Tiered!Before(p) \in SUBSET CacheKeys
  <2>1. TodoTyped(p)
    BY <1>0 DEF TieredTypes
  <2>2. Tiered!Before(p) \in SUBSET CacheKeys
    BY <2>1 DEF TodoTyped, Tiered!Before, Tiered!Idle
  <2> QED
    BY <1>3, <2>2 DEF TodoTyped
<1>5. /\ written' \in [CacheKeys -> Nat]
      /\ \A j \in CacheKeys : written'[j] = IF j \in keys THEN 0 ELSE written[j]
  BY <1>0, <1>1 DEF TieredTypes
<1>6. writes' \in Nat /\ (~up => redis' = redis) /\ 0 \in Nat
  BY <1>0, <1>1
<1> QED
  BY <1>1, <1>2, <1>3, <1>4, <1>5, <1>6, BackendKeeps

(* Whatever is deleted, the keys of locks are not.                           *)
LEMMA PrefixKeys ==
  ASSUME NEW p, Tiered!Delete(p) \/ Tiered!InvalidatePrefix(p) \/ Tiered!NextKey(p)
  PROVE  \E keys \in SUBSET (CacheKeys \ CacheLocks), op \in {"prefix", "delete"} :
           Tiered!DeleteBackend(p, keys, op)
<1>1. CASE Tiered!Delete(p)
  BY <1>1 DEF Tiered!Delete
<1>2. CASE Tiered!InvalidatePrefix(p)
  <2> DEFINE op == IF Tiered!Listed = {} THEN "delete" ELSE "prefix"
  <2>1. Tiered!DeleteBackend(p, Tiered!Prefixed \ Tiered!Listed, op) /\ op \in {"prefix", "delete"}
    BY <1>2 DEF Tiered!InvalidatePrefix
  <2> QED
    BY <2>1 DEF Tiered!Prefixed
<1>3. CASE Tiered!NextKey(p)
  <2>1. PICK k \in Tiered!Prefixed \ Tiered!Before(p) :
          Tiered!DeleteBackend(p, {k}, IF Tiered!Prefixed \ Tiered!Before(p) = {k} THEN "delete" ELSE "prefix")
    BY <1>3 DEF Tiered!NextKey
  <2> QED
    BY <2>1 DEF Tiered!Prefixed
<1> QED
  BY <1>1, <1>2, <1>3

(* What each kind of step of a process does, for the proofs to come.         *)
LEMMA IdleOp == \A p : todo[p] = Tiered!Idle => todo[p].op = "idle" /\ todo[p].keys = {}
BY DEF Tiered!Idle

(* The values and the copies, step by step.                                  *)
LEMMA ValuesPreserved ==
  TieredConstants /\ TieredInvariant /\ [Tiered!Next]_(Tiered!vars) => TieredInvariant'
<1> SUFFICES ASSUME TieredConstants, TieredInvariant, [Tiered!Next]_(Tiered!vars) PROVE TieredInvariant'
  OBVIOUS
<1>0. TieredTypes /\ second \in Nat /\ CacheTTL \in Nat /\ writes \in Nat
  BY DEF TieredInvariant, TieredTypes, TieredConstants
<1>1. ASSUME NEW p \in Machines, Tiered!Write(p) PROVE TieredInvariant'
  <2>1. PICK k \in CacheKeys \ CacheLocks : Tiered!SetBackend(p, k, writes + 1)
    BY <1>1 DEF Tiered!Write
  <2>2. todo[p].op = "idle" /\ UNCHANGED <<local, up, second>> /\ held' \in [Machines -> Nat]
    BY <1>0, <1>1, IdleOp DEF Tiered!Write, TieredTypes
  <2>3. writes + 1 \in Nat \ {0}
    BY <1>0
  <2> QED
    BY <2>1, <2>2, <2>3, SetBackendKeeps
<1>2. ASSUME NEW p \in Machines, Tiered!Delete(p) \/ Tiered!InvalidatePrefix(p) \/ Tiered!NextKey(p)
      PROVE  TieredInvariant'
  <2>1. PICK keys \in SUBSET CacheKeys, op \in {"prefix", "delete"} : Tiered!DeleteBackend(p, keys, op)
    BY <1>2, PrefixKeys
  <2>2. /\ todo[p].op \in {"idle", "prefix"} /\ UNCHANGED <<local, up, second>>
        /\ held' \in [Machines -> Nat]
    BY <1>0, <1>2, IdleOp DEF Tiered!Delete, Tiered!InvalidatePrefix, Tiered!NextKey, TieredTypes
  <2> QED
    BY <2>1, <2>2, DeleteBackendKeeps
<1>3. ASSUME NEW p \in Machines, Tiered!Acquire(p) PROVE TieredInvariant'
  <2>1. PICK k \in todo[p].keys : Tiered!SetBackend(p, k, p)
    BY <1>3 DEF Tiered!Acquire
  <2>2. /\ todo[p].op = "acquire" /\ UNCHANGED <<local, up, second>>
        /\ held' = [held EXCEPT ![p] = second + CacheTTL]
    BY <1>3 DEF Tiered!Acquire
  <2>3. TodoTyped(p)
    BY <1>0 DEF TieredTypes
  <2>4. k \in CacheKeys
    <3>1. PICK j \in CacheKeys : todo[p].keys = {j}
      BY <2>2, <2>3, IdleOp DEF TodoTyped
    <3> QED
      BY <2>1, <3>1
  <2>5. p \in Nat \ {0}
    BY DEF TieredConstants
  <2>6. held' \in [Machines -> Nat]
    <3>1. held \in [Machines -> Nat]
      BY <1>0 DEF TieredTypes
    <3>2. second + CacheTTL \in Nat
      BY <1>0
    <3> QED
      BY <2>2, <3>1, <3>2
  <2> QED
    BY <2>1, <2>2, <2>4, <2>5, <2>6, SetBackendKeeps
<1>4. ASSUME NEW p \in Machines, Tiered!Release(p) PROVE TieredInvariant'
  <2>1. /\ todo[p].op = "release" /\ Tiered!DeleteBackend(p, todo[p].keys, "delete") /\ UNCHANGED <<local, up, second>>
        /\ held' = [held EXCEPT ![p] = 0]
    BY <1>4 DEF Tiered!Release
  <2>2. TodoTyped(p)
    BY <1>0 DEF TieredTypes
  <2>3. todo[p].keys \in SUBSET CacheKeys /\ held' \in [Machines -> Nat]
    BY <1>0, <2>1, <2>2 DEF TieredTypes, TodoTyped, Tiered!Idle
  <2> QED
    BY <2>1, <2>3, DeleteBackendKeeps
<1>5. ASSUME NEW p \in Machines, Tiered!SetFallback(p) PROVE TieredInvariant'
  <2> DEFINE e == [value |-> todo[p].value, expires |-> second + CacheTTL]
  <2>1. PICK k \in todo[p].keys, f \in Tiered!Pruned(local[p]) : local' = [local EXCEPT ![p] = [f EXCEPT ![k] = e]]
    BY <1>5 DEF Tiered!SetFallback
  <2>2. /\ todo[p].op = "set" /\ todo' = [todo EXCEPT ![p] = Tiered!Idle]
        /\ UNCHANGED <<redis, up, second, written, unseen, held, raced, writes, outages>>
    BY <1>5 DEF Tiered!SetFallback
  <2>3. todo[p].keys = {k} /\ k \in CacheKeys /\ todo[p].value \in Nat
    <3>1. TodoTyped(p)
      BY <1>0 DEF TieredTypes
    <3> QED
      BY <2>1, <2>2, <3>1 DEF TodoTyped, Tiered!Idle
  <2>4. DOMAIN local[p] = CacheKeys /\ \A j \in CacheKeys : CopyTyped(local[p][j])
    BY <1>0 DEF TieredTypes
  <2>5. DOMAIN f = CacheKeys /\ \A j \in CacheKeys : f[j] \in {local[p][j], Tiered!None}
    BY <2>1, <2>4, PrunedKeeps
  <2>6. /\ DOMAIN local' = Machines /\ \A q \in Machines \ {p} : local'[q] = local[q]
        /\ DOMAIN local'[p] = CacheKeys /\ local'[p][k] = e /\ \A j \in CacheKeys \ {k} : local'[p][j] = f[j]
    BY <1>0, <2>1, <2>3, <2>5 DEF TieredTypes
  <2>7. /\ DOMAIN todo' = Machines /\ todo'[p] = Tiered!Idle /\ \A q \in Machines \ {p} : todo'[q] = todo[q]
    BY <1>0, <2>2 DEF TieredTypes
  <2>8. CopyTyped(e) /\ e.value = todo[p].value /\ e.expires = second + CacheTTL /\ CopyTyped(Tiered!None)
    BY <1>0, <2>3 DEF CopyTyped, Tiered!None
  <2> HIDE DEF e
  <2>9. TieredTypes'
    <3>1. \A q \in Machines : DOMAIN local'[q] = CacheKeys /\ \A j \in CacheKeys : CopyTyped(local'[q][j])
      <4>1. \A j \in CacheKeys : CopyTyped(local'[p][j])
        BY <2>4, <2>5, <2>6, <2>8
      <4> QED
        BY <1>0, <2>6, <4>1 DEF TieredTypes
    <3>2. \A q \in Machines : TodoTyped(q)'
      <4>1. \A q \in Machines \ {p} : TodoTyped(q)'
        <5>1. ASSUME NEW q \in Machines \ {p} PROVE TodoTyped(q)'
          <6>1. TodoTyped(q) /\ todo'[q] = todo[q]
            BY <1>0, <2>7 DEF TieredTypes
          <6> QED
            BY <6>1, Zenon DEF TodoTyped, Tiered!Idle
        <5> QED
          BY <5>1
      <4>2. TodoTyped(p)'
        BY <2>7 DEF TodoTyped, Tiered!Idle
      <4> QED
        BY <4>1, <4>2
    <3>3. \A x : CopyTyped(x) => CopyTyped(x)'
      BY <2>2 DEF CopyTyped
    <3> QED
      BY <1>0, <2>2, <2>6, <2>7, <3>1, <3>2, <3>3 DEF TieredTypes
  <2>10. ASSUME NEW q \in Machines, NEW j \in CacheKeys
         PROVE  /\ Known(redis[j], q, j)'
                /\ ~Pending(q, j)' => Known(local[q][j], q, j)'
                /\ todo'[q].op = "set" /\ j \in todo'[q].keys =>
                     todo'[q].value = written'[j] \/ unseen'[q][j] >= second' + CacheTTL
    <3>1. CASE q # p
      <4>1. todo'[q] = todo[q] /\ local'[q] = local[q]
        BY <2>6, <2>7, <3>1
      <4> QED
        BY <2>2, <4>1 DEF TieredInvariant, Known, Pending
    <3>2. CASE q = p /\ j = k
      <4>1. Known(e, p, k)
        <5>1. todo[p].value = written[k] \/ unseen[p][k] >= second + CacheTTL
          BY <2>2, <2>3 DEF TieredInvariant
        <5>2. unseen[p][k] \in Nat
          BY <1>0, <2>3 DEF TieredTypes
        <5> QED
          BY <1>0, <2>8, <5>1, <5>2 DEF Known
      <4>2. todo'[p].op = "idle"
        BY <2>7 DEF Tiered!Idle
      <4>3. Known(redis[k], p, k)
        BY <3>2 DEF TieredInvariant
      <4> QED
        BY <2>2, <2>6, <3>2, <4>1, <4>2, <4>3 DEF Known
    <3>3. CASE q = p /\ j # k
      <4>1. Known(local[p][j], p, j) /\ Known(redis[j], p, j)
        BY <2>3, <3>3 DEF TieredInvariant, Pending
      <4>2. Known(Tiered!None, p, j)
        BY DEF Known, Tiered!None
      <4>3. Known(f[j], p, j)
        BY <2>5, <4>1, <4>2
      <4>4. todo'[p].op = "idle"
        BY <2>7 DEF Tiered!Idle
      <4> QED
        BY <2>2, <2>6, <3>3, <4>1, <4>3, <4>4 DEF Known
    <3> QED
      BY <3>1, <3>2, <3>3
  <2> QED
    BY <2>9, <2>10 DEF TieredInvariant
<1>6. ASSUME NEW p \in Machines, Tiered!DeleteFallback(p) PROVE TieredInvariant'
  <2>1. /\ todo[p].op = "delete" /\ local' = [local EXCEPT ![p] = Tiered!Without(@, todo[p].keys)]
        /\ todo' = [todo EXCEPT ![p] = Tiered!Idle]
        /\ UNCHANGED <<redis, up, second, written, unseen, held, raced, writes, outages>>
    BY <1>6 DEF Tiered!DeleteFallback
  <2>2. /\ DOMAIN local' = Machines /\ \A q \in Machines \ {p} : local'[q] = local[q]
        /\ DOMAIN local'[p] = CacheKeys
        /\ \A j \in CacheKeys : local'[p][j] = IF j \in todo[p].keys THEN Tiered!None ELSE local[p][j]
    BY <1>0, <2>1 DEF TieredTypes, Tiered!Without
  <2>3. /\ DOMAIN todo' = Machines /\ todo'[p] = Tiered!Idle /\ \A q \in Machines \ {p} : todo'[q] = todo[q]
    BY <1>0, <2>1 DEF TieredTypes
  <2>4. TieredTypes'
    <3>1. \A q \in Machines : DOMAIN local'[q] = CacheKeys /\ \A j \in CacheKeys : CopyTyped(local'[q][j])
      <4>1. CopyTyped(Tiered!None) /\ \A j \in CacheKeys : CopyTyped(local[p][j])
        BY <1>0 DEF CopyTyped, Tiered!None, TieredTypes
      <4>2. \A j \in CacheKeys : CopyTyped(local'[p][j])
        BY <2>2, <4>1
      <4> QED
        BY <1>0, <2>2, <4>2 DEF TieredTypes
    <3>2. \A q \in Machines : TodoTyped(q)'
      <4>1. \A q \in Machines \ {p} : TodoTyped(q)'
        <5>1. ASSUME NEW q \in Machines \ {p} PROVE TodoTyped(q)'
          <6>1. TodoTyped(q) /\ todo'[q] = todo[q]
            BY <1>0, <2>3 DEF TieredTypes
          <6> QED
            BY <6>1, Zenon DEF TodoTyped, Tiered!Idle
        <5> QED
          BY <5>1
      <4>2. TodoTyped(p)'
        BY <2>3 DEF TodoTyped, Tiered!Idle
      <4> QED
        BY <4>1, <4>2
    <3>3. \A x : CopyTyped(x) => CopyTyped(x)'
      BY <2>1 DEF CopyTyped
    <3> QED
      BY <1>0, <2>1, <2>2, <2>3, <3>1, <3>2, <3>3 DEF TieredTypes
  <2>5. ASSUME NEW q \in Machines, NEW j \in CacheKeys
        PROVE  /\ Known(redis[j], q, j)'
               /\ ~Pending(q, j)' => Known(local[q][j], q, j)'
               /\ todo'[q].op = "set" /\ j \in todo'[q].keys =>
                    todo'[q].value = written'[j] \/ unseen'[q][j] >= second' + CacheTTL
    <3>1. CASE q # p
      <4>1. todo'[q] = todo[q] /\ local'[q] = local[q]
        BY <2>2, <2>3, <3>1
      <4> QED
        BY <2>1, <4>1 DEF TieredInvariant, Known, Pending
    <3>2. CASE q = p
      <4>1. j \notin todo[p].keys => Known(local[p][j], p, j)
        BY <3>2 DEF TieredInvariant, Pending
      <4>2. Known(Tiered!None, p, j) /\ Known(redis[j], p, j)
        BY <3>2 DEF Known, Tiered!None, TieredInvariant
      <4>3. todo'[p].op = "idle"
        BY <2>3 DEF Tiered!Idle
      <4>4. Known(local'[p][j], p, j)
        BY <2>2, <4>1, <4>2
      <4> QED
        BY <2>1, <3>2, <4>2, <4>3, <4>4 DEF Known
    <3> QED
      BY <3>1, <3>2
  <2> QED
    BY <2>4, <2>5 DEF TieredInvariant
<1>7. ASSUME NEW p \in Machines, Tiered!Look(p) PROVE TieredInvariant'
  <2>1. PICK k \in CacheLocks :
          \/ todo' = [todo EXCEPT ![p] = [op |-> "acquire", keys |-> {k}, value |-> p]]
          \/ todo' = [todo EXCEPT ![p] = [op |-> "release", keys |-> {k}, value |-> 0]]
    BY <1>7 DEF Tiered!Look
  <2>2. UNCHANGED <<redis, local, up, second, written, unseen, held, writes, outages>> /\ todo[p].op = "idle"
    BY <1>7, IdleOp DEF Tiered!Look
  <2>3. /\ DOMAIN todo' = Machines /\ todo'[p].op \in {"acquire", "release"} /\ todo'[p].keys = {k}
        /\ todo'[p].op = "acquire" => todo'[p].value = p
        /\ \A q \in Machines \ {p} : todo'[q] = todo[q]
    BY <1>0, <2>1 DEF TieredTypes
  <2>4. k \in CacheKeys /\ p \in Nat \ {0}
    BY DEF TieredConstants
  <2>5. \A q \in Machines : TodoTyped(q)'
    <3>1. ASSUME NEW q \in Machines \ {p} PROVE TodoTyped(q)'
      <4>1. TodoTyped(q) /\ todo'[q] = todo[q]
        BY <1>0, <2>3 DEF TieredTypes
      <4> QED
        BY <4>1, Zenon DEF TodoTyped, Tiered!Idle
    <3>2. TodoTyped(p)'
      BY <2>3, <2>4 DEF TodoTyped
    <3> QED
      BY <3>1, <3>2
  <2>6. TieredTypes'
    BY <1>0, <2>2, <2>3, <2>5 DEF TieredTypes, CopyTyped
  <2>7. ASSUME NEW q \in Machines, NEW j \in CacheKeys
        PROVE  /\ ~Pending(q, j)' => ~Pending(q, j)
               /\ todo'[q].op = "set" => todo'[q] = todo[q]
    <3>1. todo'[p].op # "set"
      BY <2>3
    <3> QED
      BY <2>2, <2>3, <3>1 DEF Pending
  <2> QED
    BY <2>2, <2>6, <2>7 DEF TieredInvariant, Known
<1>8. CASE Tiered!Fail \/ Tiered!Recover
  <2>1. up' \in BOOLEAN /\ UNCHANGED <<redis, local, second, todo, written, unseen, held, writes>>
    BY <1>8 DEF Tiered!Fail, Tiered!Recover
  <2>2. TieredTypes'
    BY <1>0, <2>1 DEF TieredTypes, CopyTyped, TodoTyped
  <2> QED
    BY <2>1, <2>2 DEF TieredInvariant, Known, Pending
<1>9. CASE Tiered!Tick
  <2>1. /\ second' = second + 1 /\ \A p \in Machines : todo[p] = Tiered!Idle
        /\ UNCHANGED <<redis, local, up, todo, written, unseen, held, raced, writes, outages>>
    BY <1>9 DEF Tiered!Tick
  <2>2. \A e : CopyTyped(e) => CopyTyped(e)'
    BY <1>0, <2>1 DEF CopyTyped
  <2>3. TieredTypes'
    BY <1>0, <2>1, <2>2 DEF TieredTypes, TodoTyped
  <2>4. \A p \in Machines : todo[p].op = "idle"
    BY <2>1, IdleOp
  <2> QED
    BY <2>1, <2>3, <2>4 DEF TieredInvariant, Known, Pending
<1>10. CASE UNCHANGED Tiered!vars
  BY <1>10 DEF Tiered!vars, TieredInvariant, TieredTypes, CopyTyped, TodoTyped, Known, Pending
<1> QED
  BY <1>1, <1>2, <1>3, <1>4, <1>5, <1>6, <1>7, <1>8, <1>9, <1>10 DEF Tiered!Next

(* The number of entries of the copies.                                      *)
LEMMA CopiesPreserved ==
  TieredConstants /\ TieredInvariant /\ CopiesAreBounded /\ [Tiered!Next]_(Tiered!vars) => CopiesAreBounded'
<1> SUFFICES ASSUME TieredConstants, TieredInvariant, CopiesAreBounded, [Tiered!Next]_(Tiered!vars)
             PROVE  CopiesAreBounded'
  OBVIOUS
<1>0. TieredTypes /\ DOMAIN local = Machines /\ \A p \in Machines : DOMAIN local[p] = CacheKeys
  BY DEF TieredInvariant, TieredTypes
<1>1. ASSUME NEW p \in Machines, NEW f, local' = [local EXCEPT ![p] = f],
             Cardinality(Tiered!Held(f)) =< CopySize + 1
      PROVE  CopiesAreBounded'
  <2>1. \A q \in Machines : Tiered!Held(local[q])' = Tiered!Held(IF q = p THEN f ELSE local[q])
    BY <1>0, <1>1 DEF Tiered!Held
  <2> QED
    BY <1>1, <2>1 DEF CopiesAreBounded
<1>2. ASSUME NEW p \in Machines, Tiered!SetFallback(p) PROVE CopiesAreBounded'
  <2> DEFINE e == [value |-> todo[p].value, expires |-> second + CacheTTL]
  <2>1. PICK k \in todo[p].keys, f \in Tiered!Pruned(local[p]) : local' = [local EXCEPT ![p] = [f EXCEPT ![k] = e]]
    BY <1>2 DEF Tiered!SetFallback
  <2>2. DOMAIN f = CacheKeys /\ IsFiniteSet(Tiered!Held(f)) /\ Cardinality(Tiered!Held(f)) =< CopySize
    BY <1>0, <2>1, PrunedKeeps
  <2>3. Tiered!Held([f EXCEPT ![k] = e]) \subseteq Tiered!Held(f) \cup {k}
    BY <2>2 DEF Tiered!Held
  <2>4. /\ IsFiniteSet(Tiered!Held(f) \cup {k})
        /\ Cardinality(Tiered!Held(f) \cup {k}) =
             IF k \in Tiered!Held(f) THEN Cardinality(Tiered!Held(f)) ELSE Cardinality(Tiered!Held(f)) + 1
    BY <2>2, FS_AddElement, Zenon
  <2>5. Cardinality(Tiered!Held(f)) \in Nat /\ Cardinality(Tiered!Held(f) \cup {k}) \in Nat
    BY <2>2, <2>4, FS_CardinalityType
  <2>6. /\ IsFiniteSet(Tiered!Held([f EXCEPT ![k] = e]))
        /\ Cardinality(Tiered!Held([f EXCEPT ![k] = e])) =< Cardinality(Tiered!Held(f) \cup {k})
    BY <2>3, <2>4, FS_Subset
  <2>7. Cardinality(Tiered!Held([f EXCEPT ![k] = e])) \in Nat
    BY <2>6, FS_CardinalityType
  <2>8. Cardinality(Tiered!Held([f EXCEPT ![k] = e])) =< CopySize + 1
    BY <2>2, <2>4, <2>5, <2>6, <2>7 DEF TieredConstants
  <2> QED
    BY <1>1, <2>1, <2>8
<1>3. ASSUME NEW p \in Machines, Tiered!DeleteFallback(p) PROVE CopiesAreBounded'
  <2> DEFINE f == Tiered!Without(local[p], todo[p].keys)
  <2>1. local' = [local EXCEPT ![p] = f]
    BY <1>0, <1>3 DEF Tiered!DeleteFallback
  <2>2. Tiered!Held(f) \subseteq Tiered!Held(local[p]) /\ Tiered!Held(local[p]) \subseteq CacheKeys
    BY DEF Tiered!Held, Tiered!Without
  <2>3. IsFiniteSet(Tiered!Held(local[p]))
    BY <2>2, FS_Subset DEF TieredConstants
  <2> HIDE DEF f
  <2>4. IsFiniteSet(Tiered!Held(f)) /\ Cardinality(Tiered!Held(f)) =< Cardinality(Tiered!Held(local[p]))
    BY <2>2, <2>3, FS_Subset
  <2>5. Cardinality(Tiered!Held(f)) \in Nat /\ Cardinality(Tiered!Held(local[p])) \in Nat
    BY <2>3, <2>4, FS_CardinalityType
  <2>6. Cardinality(Tiered!Held(f)) =< CopySize + 1
    BY <2>4, <2>5 DEF CopiesAreBounded, TieredConstants
  <2> QED
    BY <1>1, <2>1, <2>6
<1>4. ASSUME NEW p \in Machines,
             \/ Tiered!Write(p) \/ Tiered!Delete(p) \/ Tiered!InvalidatePrefix(p) \/ Tiered!NextKey(p)
             \/ Tiered!Look(p) \/ Tiered!Acquire(p) \/ Tiered!Release(p)
      PROVE  CopiesAreBounded'
  BY <1>4, CopiesKept DEF Tiered!Write, Tiered!Delete, Tiered!InvalidatePrefix, Tiered!NextKey, Tiered!Look, Tiered!Acquire, Tiered!Release
<1>5. CASE Tiered!Fail \/ Tiered!Recover \/ Tiered!Tick \/ UNCHANGED Tiered!vars
  BY <1>5, CopiesKept DEF Tiered!Fail, Tiered!Recover, Tiered!Tick, Tiered!vars
<1> QED
  BY <1>2, <1>3, <1>4, <1>5 DEF Tiered!Next

(* The lock, and who holds it.                                               *)
LEMMA LockPreserved ==
  TieredConstants /\ TieredInvariant /\ LockInvariant /\ [Tiered!Next]_(Tiered!vars) => LockInvariant'
<1> SUFFICES ASSUME TieredConstants, TieredInvariant, LockInvariant, [Tiered!Next]_(Tiered!vars), ~raced'
             PROVE  LockInvariant'
  BY DEF LockInvariant
<1>0. TieredTypes /\ second \in Nat /\ CacheTTL \in Nat /\ held \in [Machines -> Nat]
  BY DEF TieredInvariant, TieredTypes, TieredConstants
<1> DEFINE Deletes(p) == Tiered!Delete(p) \/ Tiered!InvalidatePrefix(p) \/ Tiered!NextKey(p)
<1>1. ASSUME NEW p \in Machines, Tiered!Write(p) \/ Deletes(p) PROVE LockInvariant'
  <2>1. ~raced /\ up /\ UNCHANGED <<up, second, held>> /\ todo[p].op \in {"idle", "prefix"}
    BY <1>1, IdleOp DEF LockInvariant, Tiered!Write, Tiered!Delete, Tiered!InvalidatePrefix, Tiered!NextKey
  <2>2. CASE Tiered!Write(p)
    <3>1. PICK k \in CacheKeys \ CacheLocks : Tiered!SetBackend(p, k, writes + 1)
      BY <2>2 DEF Tiered!Write
    <3>2. \A j \in CacheLocks : redis'[j] = redis[j]
      BY <1>0, <2>1, <3>1 DEF Tiered!SetBackend, TieredTypes, TieredConstants
    <3>3. todo'[p].op = "set" /\ \A q \in Machines \ {p} : todo'[q] = todo[q]
      BY <1>0, <3>1 DEF Tiered!SetBackend, TieredTypes
    <3> QED
      BY <2>1, <3>2, <3>3 DEF LockInvariant
  <2>3. CASE Deletes(p)
    <3>1. PICK keys \in SUBSET (CacheKeys \ CacheLocks), op \in {"prefix", "delete"} :
            Tiered!DeleteBackend(p, keys, op)
      BY <2>3, PrefixKeys
    <3>2. \A j \in CacheLocks : redis'[j] = redis[j]
      BY <1>0, <2>1, <3>1 DEF Tiered!DeleteBackend, Tiered!Without, TieredTypes, TieredConstants
    <3>3. todo'[p].op = op /\ \A q \in Machines \ {p} : todo'[q] = todo[q]
      BY <1>0, <3>1 DEF Tiered!DeleteBackend, TieredTypes
    <3> QED
      BY <2>1, <3>2, <3>3 DEF LockInvariant
  <2> QED
    BY <1>1, <2>2, <2>3
<1>2. ASSUME NEW p \in Machines, Tiered!SetFallback(p) \/ Tiered!DeleteFallback(p) PROVE LockInvariant'
  <2>1. ~raced /\ UNCHANGED <<redis, up, second, held>> /\ todo' = [todo EXCEPT ![p] = Tiered!Idle]
    BY <1>2 DEF LockInvariant, Tiered!SetFallback, Tiered!DeleteFallback
  <2>2. todo'[p].op = "idle" /\ \A q \in Machines \ {p} : todo'[q] = todo[q]
    BY <1>0, <2>1 DEF TieredTypes, Tiered!Idle
  <2> QED
    BY <2>1, <2>2 DEF LockInvariant
<1>3. ASSUME NEW p \in Machines, Tiered!Look(p) PROVE LockInvariant'
  <2>1. /\ ~raced /\ up /\ \A q \in Machines \ {p} : todo[q].op = "idle"
        /\ UNCHANGED <<redis, up, second, held>>
    BY <1>3, IdleOp DEF LockInvariant, Tiered!Look, Tiered!Busy
  <2>2. PICK k \in CacheLocks :
          \/ Tiered!Get(p, k) = 0 /\ todo' = [todo EXCEPT ![p] = [op |-> "acquire", keys |-> {k}, value |-> p]]
          \/ Tiered!Get(p, k) = p /\ todo' = [todo EXCEPT ![p] = [op |-> "release", keys |-> {k}, value |-> 0]]
    BY <1>3 DEF Tiered!Look
  <2>3. /\ DOMAIN todo' = Machines /\ todo'[p].op \in {"acquire", "release"} /\ todo'[p].keys = {k}
        /\ todo'[p].op = "acquire" => todo'[p].value = p
        /\ \A q \in Machines \ {p} : todo'[q] = todo[q]
    BY <1>0, <2>2 DEF TieredTypes
  <2>4. ASSUME NEW q \in Machines \ {p} PROVE held[q] =< second
    <3>1. Tiered!Get(p, k) \in {0, p} /\ k \in CacheKeys /\ q \in Nat \ {0} /\ p \in Nat \ {0}
      BY <2>2 DEF TieredConstants
    <3>2. CASE held[q] > second
      <4>1. redis[k].value = q /\ redis[k].expires >= held[q]
        <5>1. PICK j \in CacheLocks : redis[j].value = q /\ redis[j].expires >= held[q]
          BY <2>1, <3>2 DEF LockInvariant
        <5>2. j = k
          BY <2>2, <5>1 DEF TieredConstants
        <5> QED
          BY <5>1, <5>2
      <4>2. redis[k].expires \in Nat /\ held[q] \in Nat
        BY <1>0, <3>1 DEF TieredTypes, CopyTyped
      <4>3. Tiered!Live(redis[k]) = q
        BY <1>0, <3>2, <4>1, <4>2 DEF Tiered!Live
      <4>4. Tiered!Get(p, k) = q
        BY <2>1, <3>1, <4>3 DEF Tiered!Get
      <4> QED
        BY <3>1, <4>4
    <3> QED
      BY <1>0, <3>2
  <2> QED
    BY <2>1, <2>3, <2>4 DEF LockInvariant
<1>4. ASSUME NEW p \in Machines, Tiered!Acquire(p) PROVE LockInvariant'
  <2>1. /\ ~raced /\ up /\ todo[p].op = "acquire" /\ todo[p].keys \subseteq CacheLocks
        /\ \A q \in Machines \ {p} : held[q] =< second /\ todo[q].op \notin {"acquire", "release"}
        /\ held' = [held EXCEPT ![p] = second + CacheTTL] /\ UNCHANGED <<up, second>>
    BY <1>4 DEF LockInvariant, Tiered!Acquire
  <2>2. PICK k \in todo[p].keys : Tiered!SetBackend(p, k, p)
    BY <1>4 DEF Tiered!Acquire
  <2>3. redis'[k].value = p /\ redis'[k].expires = second + CacheTTL /\ k \in CacheLocks
    BY <1>0, <2>1, <2>2 DEF Tiered!SetBackend, TieredTypes, TieredConstants
  <2>4. todo'[p].op = "set" /\ \A q \in Machines \ {p} : todo'[q] = todo[q]
    BY <1>0, <2>2 DEF Tiered!SetBackend, TieredTypes
  <2>5. held'[p] = second + CacheTTL /\ \A q \in Machines \ {p} : held'[q] = held[q] /\ held[q] \in Nat
    BY <1>0, <2>1
  <2> QED
    BY <1>0, <2>1, <2>3, <2>4, <2>5 DEF LockInvariant
<1>5. ASSUME NEW p \in Machines, Tiered!Release(p) PROVE LockInvariant'
  <2>1. /\ ~raced /\ up /\ todo[p].op = "release"
        /\ \A q \in Machines \ {p} : held[q] =< second /\ todo[q].op \notin {"acquire", "release"}
        /\ held' = [held EXCEPT ![p] = 0] /\ UNCHANGED <<up, second>>
        /\ Tiered!DeleteBackend(p, todo[p].keys, "delete")
    BY <1>5 DEF LockInvariant, Tiered!Release
  <2>2. todo'[p].op = "delete" /\ \A q \in Machines \ {p} : todo'[q] = todo[q]
    BY <1>0, <2>1 DEF Tiered!DeleteBackend, TieredTypes
  <2>3. \A q \in Machines : held'[q] =< second
    BY <1>0, <2>1
  <2> QED
    BY <1>0, <2>1, <2>2, <2>3 DEF LockInvariant
<1>6. CASE Tiered!Fail \/ Tiered!Recover
  BY <1>6 DEF Tiered!Fail, Tiered!Recover, LockInvariant
<1>7. CASE Tiered!Tick
  <2>1. /\ ~raced /\ second' = second + 1 /\ UNCHANGED <<redis, up, todo, held>>
        /\ \A p \in Machines : todo[p].op = "idle"
    BY <1>7, IdleOp DEF LockInvariant, Tiered!Tick
  <2>2. \A p \in Machines : held[p] > second' => held[p] > second
    BY <1>0, <2>1
  <2> QED
    BY <2>1, <2>2 DEF LockInvariant
<1>8. CASE UNCHANGED Tiered!vars
  BY <1>8 DEF Tiered!vars, LockInvariant
<1> QED
  BY <1>1, <1>2, <1>3, <1>4, <1>5, <1>6, <1>7, <1>8 DEF Tiered!Next

(* Every step keeps all of it.                                               *)
LEMMA TieredPreserved ==
  TieredConstants /\ CacheInvariant /\ [Tiered!Next]_(Tiered!vars) => CacheInvariant'
BY ValuesPreserved, CopiesPreserved, LockPreserved DEF CacheInvariant

(* What it says of reads, copies and the lock.                               *)
LEMMA CacheInvariantTells ==
  TieredConstants /\ CacheInvariant =>
    Tiered!StaleOnlyIfUnseen /\ Tiered!SizeIsBounded /\ Tiered!OneHolder
<1> SUFFICES ASSUME TieredConstants, CacheInvariant
             PROVE  Tiered!StaleOnlyIfUnseen /\ Tiered!SizeIsBounded /\ Tiered!OneHolder
  OBVIOUS
<1>0. /\ TieredInvariant /\ TieredTypes /\ second \in Nat
      /\ \A S : Tiered!Cardinality(S) = Cardinality(S)
  BY DEF CacheInvariant, TieredInvariant, TieredTypes, Tiered!Cardinality, Cardinality
<1>1. ASSUME NEW p \in Machines, todo[p] = Tiered!Idle, NEW k \in CacheKeys
      PROVE  Tiered!Get(p, k) \in {0, written[k]} \/ second < unseen[p][k]
  <2>1. Known(redis[k], p, k) /\ Known(local[p][k], p, k)
    <3>1. ~Pending(p, k)
      BY <1>1, IdleOp DEF Pending
    <3> QED
      BY <1>0, <3>1 DEF TieredInvariant
  <2>2. redis[k].expires \in Nat /\ local[p][k].expires \in Nat /\ unseen[p][k] \in Nat
    BY <1>0 DEF TieredTypes, CopyTyped
  <2>3. \A e : Known(e, p, k) /\ e.expires \in Nat =>
          Tiered!Live(e) \in {0, written[k]} \/ second < unseen[p][k]
    BY <1>0, <2>2 DEF Known, Tiered!Live
  <2> QED
    BY <2>1, <2>2, <2>3 DEF Tiered!Get
<1>2. Tiered!SizeIsBounded
  BY <1>0 DEF CacheInvariant, CopiesAreBounded, Tiered!SizeIsBounded
<1>3. Tiered!OneHolder
  <2> SUFFICES ASSUME ~raced PROVE Cardinality({p \in Machines : held[p] > second}) =< 1
    BY <1>0 DEF Tiered!OneHolder
  <2>1. \A p, q \in Machines : held[p] > second /\ held[q] > second => p = q
    BY DEF CacheInvariant, LockInvariant, TieredConstants
  <2>2. CASE {p \in Machines : held[p] > second} = {}
    <3>1. Cardinality({}) = 0
      BY FS_EmptySet
    <3> QED
      BY <2>2, <3>1
  <2>3. CASE {p \in Machines : held[p] > second} # {}
    <3>1. PICK q \in Machines : held[q] > second
      BY <2>3
    <3>2. {p \in Machines : held[p] > second} = {q}
      BY <2>1, <3>1
    <3>3. Cardinality({q}) = 1
      BY FS_Singleton
    <3> QED
      BY <3>2, <3>3
  <2> QED
    BY <2>2, <2>3
<1> QED
  BY <1>1, <1>2, <1>3 DEF Tiered!StaleOnlyIfUnseen

(* Any number of processes, keys and outages: what a read returns was last   *)
(* written under the key, unless its process may not have seen the change    *)
(* yet, which it may for a TTL; no copy outgrows its maximum by more than    *)
(* one; and a lock has one holder at a time while Redis is up and no two     *)
(* calls for it overlap.                                                     *)
THEOREM CacheIsCoherent ==
  ASSUME TieredConstants
  PROVE  Tiered!Init /\ [][Tiered!Next]_(Tiered!vars) =>
           [](Tiered!StaleOnlyIfUnseen /\ Tiered!SizeIsBounded /\ Tiered!OneHolder)
<1>1. Tiered!Init => CacheInvariant
  BY TieredInit
<1>2. CacheInvariant /\ [Tiered!Next]_(Tiered!vars) => CacheInvariant'
  BY TieredPreserved
<1>3. CacheInvariant => Tiered!StaleOnlyIfUnseen /\ Tiered!SizeIsBounded /\ Tiered!OneHolder
  BY CacheInvariantTells
<1> QED
  BY <1>1, <1>2, <1>3, PTL

-----------------------------------------------------------------------------
(* A job and the intelligence made of its text.                              *)
JobRows == INSTANCE JobRecords WITH
  call <- editor, faults <- died, Calls <- PostCalls, MaxFaults <- MaxEditFaults

(* Intelligence: none, or of a text; of none only by a match noted alone.    *)
IntelTyped(i) ==
  \/ i = JobRows!NoIntel
  \/ "match" \in DOMAIN i /\ i.of \in Nat /\ (i.of = 0 => i.match = TRUE)

(* The row.                                                                  *)
PostTyped ==
  \/ post = JobRows!NoJob
  \/ post = [text |-> post.text, intel |-> post.intel] /\ post.text \in Nat \ {0} /\ IntelTyped(post.intel)

(* A call under way: what it builds is of a text, and what it noted of the   *)
(* column when it was empty makes it hold nothing until an edit alone.       *)
EditorTyped(c) ==
  \/ editor[c] = JobRows!Idle
  \/ /\ DOMAIN editor[c] = {"kind", "pc", "text", "intel"}
     /\ editor[c].kind \in {"edit", "other", "match"}
     /\ editor[c].pc \in (IF editor[c].kind = "match" THEN {"match"} ELSE {"refresh", "store"})
     /\ editor[c].pc = "store" => editor[c].text \in Nat \ {0}
     /\ IntelTyped(editor[c].intel)

(* The intelligence i is of the text of the row.                             *)
CurrentIntel(i) == i # JobRows!NoIntel /\ i.of = post.text

(* The inductive invariant: while nothing went wrong, one call at a time     *)
(* runs, and it is an edit that builds from the present text or it leaves a  *)
(* current intelligence current.                                             *)
PostInvariant ==
  /\ PostTyped /\ DOMAIN editor = PostCalls /\ \A c \in PostCalls : EditorTyped(c)
  /\ post # JobRows!NoJob => made
  /\ ~loose =>
       /\ \A c, d \in PostCalls : editor[c] # JobRows!Idle /\ editor[d] # JobRows!Idle => c = d
       /\ JobRows!Exists =>
            /\ (\A c \in PostCalls : editor[c].kind # "edit") => CurrentIntel(post.intel)
            /\ \A c \in PostCalls :
                 /\ editor[c].kind = "edit" /\ editor[c].pc = "store" => editor[c].text = post.text
                 /\ editor[c].kind = "other" => editor[c].pc = "refresh"
                 /\ editor[c].kind = "match" => editor[c].intel = post.intel

(* A record of a call that is not touched.                                   *)
LEMMA EditorKept ==
  ASSUME NEW c, EditorTyped(c), editor'[c] = editor[c]
  PROVE  EditorTyped(c)'
BY Zenon DEF EditorTyped, IntelTyped, JobRows!Idle, JobRows!NoIntel

(* It holds at first.                                                        *)
LEMMA PostInit == JobRows!Init => PostInvariant
BY DEF JobRows!Init, JobRows!Idle, JobRows!Exists, PostInvariant, PostTyped, EditorTyped

(* A call that begins, of a row that is there.                               *)
LEMMA PostStarts ==
  ASSUME PostInvariant, NEW c \in PostCalls, NEW q, JobRows!Starts(c, q),
         \/ q.kind = "edit" /\ q.pc = "refresh" /\ q.intel = JobRows!NoIntel
         \/ q.kind = "other" /\ q.pc = "refresh" /\ q.intel = JobRows!NoIntel /\ post' = post
         \/ q.kind = "match" /\ q.pc = "match" /\ q.intel = post.intel /\ post' = post /\ JobRows!Exists,
         PostTyped', made'
  PROVE  PostInvariant'
<1> DEFINE e == [JobRows!Idle EXCEPT !.kind = q.kind, !.pc = q.pc, !.intel = q.intel]
<1>1. /\ editor[c] = JobRows!Idle /\ editor' = [editor EXCEPT ![c] = e]
      /\ loose' = (~JobRows!Quiet \/ (loose /\ q.kind # "edit"))
  BY DEF JobRows!Starts
<1>2. DOMAIN e = {"kind", "pc", "text", "intel"} /\ e.kind = q.kind /\ e.pc = q.pc /\ e.intel = q.intel
  BY DEF JobRows!Idle
<1> HIDE DEF e
<1>3. DOMAIN editor' = PostCalls /\ editor'[c] = e /\ \A d \in PostCalls \ {c} : editor'[d] = editor[d]
  BY <1>1 DEF PostInvariant
<1>4. EditorTyped(c)'
  <2>1. IntelTyped(e.intel)
    BY <1>2 DEF IntelTyped, PostInvariant, PostTyped, JobRows!Exists
  <2> QED
    BY <1>2, <1>3, <2>1 DEF EditorTyped, IntelTyped
<1>5. \A d \in PostCalls \ {c} : EditorTyped(d)'
  BY <1>3, EditorKept DEF PostInvariant
<1>6. ASSUME ~loose'
      PROVE  /\ \A a, d \in PostCalls : editor'[a] # JobRows!Idle /\ editor'[d] # JobRows!Idle => a = d
             /\ JobRows!Exists' =>
                  /\ (\A d \in PostCalls : editor'[d].kind # "edit") => CurrentIntel(post.intel)'
                  /\ \A d \in PostCalls :
                       /\ editor'[d].kind = "edit" /\ editor'[d].pc = "store" => editor'[d].text = post'.text
                       /\ editor'[d].kind = "other" => editor'[d].pc = "refresh"
                       /\ editor'[d].kind = "match" => editor'[d].intel = post'.intel
  <2>1. \A d \in PostCalls \ {c} : editor'[d] = JobRows!Idle
    BY <1>1, <1>3, <1>6 DEF JobRows!Quiet
  <2>2. \A d \in PostCalls \ {c} : editor'[d].kind = "-"
    BY <2>1 DEF JobRows!Idle
  <2>3. q.kind # "edit" => post' = post /\ ~loose /\ (\A d \in PostCalls : editor[d].kind # "edit")
    <3>1. \A d \in PostCalls : editor[d].kind # "edit"
      <4>1. JobRows!Idle.kind # "edit"
        BY DEF JobRows!Idle
      <4>2. JobRows!Quiet
        BY <1>1, <1>6
      <4> QED
        BY <4>1, <4>2 DEF JobRows!Quiet
    <3>2. q.kind # "edit" => post' = post
      OBVIOUS
    <3>3. q.kind # "edit" => ~loose
      BY <1>1, <1>6
    <3> QED
      BY <3>1, <3>2, <3>3
  <2>4. q.kind # "edit" /\ JobRows!Exists' => CurrentIntel(post.intel)'
    BY <2>3 DEF PostInvariant, JobRows!Exists, CurrentIntel, JobRows!NoIntel
  <2>5. q.kind # "match" => editor'[c].kind = q.kind /\ editor'[c].pc = "refresh"
    BY <1>2, <1>3
  <2>6. q.kind = "match" => editor'[c].intel = post'.intel
    BY <1>2, <1>3
  <2> QED
    BY <1>2, <1>3, <2>1, <2>2, <2>4, <2>5, <2>6
<1> QED
  BY <1>3, <1>4, <1>5, <1>6 DEF PostInvariant

(* A call that ends, having left the row as it was or put intelligence i     *)
(* there.                                                                    *)
LEMMA PostEnds ==
  ASSUME PostInvariant, NEW c \in PostCalls, NEW i, JobRows!Done(c), loose' = loose, made' = made,
         IntelTyped(i), JobRows!Exists => post' = [post EXCEPT !.intel = i], ~JobRows!Exists => post' = post,
         editor[c] # JobRows!Idle, ~loose /\ JobRows!Exists => CurrentIntel(i)
  PROVE  PostInvariant'
<1>1. DOMAIN editor' = PostCalls /\ editor'[c] = JobRows!Idle /\ \A d \in PostCalls \ {c} : editor'[d] = editor[d]
  BY DEF PostInvariant, JobRows!Done
<1>2. CASE JobRows!Exists
  <2>1. /\ post' = [text |-> post'.text, intel |-> post'.intel] /\ post'.text = post.text /\ post'.intel = i /\ made
        /\ post.text \in Nat \ {0}
    BY <1>2 DEF PostInvariant, PostTyped, JobRows!Exists
  <2>2. PostTyped'
    BY <2>1 DEF PostTyped, IntelTyped
  <2>3. \A d \in PostCalls : EditorTyped(d)'
    BY <1>1, EditorKept DEF PostInvariant, EditorTyped
  <2>4. ~loose => CurrentIntel(i) /\ \A d \in PostCalls : editor'[d] = JobRows!Idle
    BY <1>1, <1>2 DEF PostInvariant
  <2>5. ~loose => /\ \A d \in PostCalls : editor'[d].kind = "-"
                  /\ CurrentIntel(post.intel)'
    BY <2>1, <2>4 DEF JobRows!Idle, CurrentIntel
  <2> QED
    BY <1>1, <2>1, <2>2, <2>3, <2>4, <2>5 DEF PostInvariant
<1>3. CASE ~JobRows!Exists
  <2>1. post' = post /\ ~JobRows!Exists'
    BY <1>3 DEF JobRows!Exists
  <2>2. \A d \in PostCalls : EditorTyped(d)'
    BY <1>1, EditorKept DEF PostInvariant, EditorTyped
  <2>3. PostTyped'
    BY <2>1 DEF PostInvariant, PostTyped, IntelTyped
  <2>4. ~loose => \A d \in PostCalls : editor'[d] = JobRows!Idle
    BY <1>1 DEF PostInvariant
  <2> QED
    BY <1>1, <2>1, <2>2, <2>3, <2>4 DEF PostInvariant
<1> QED
  BY <1>2, <1>3

(* Every step keeps it.                                                      *)
LEMMA PostPreserved == PostInvariant /\ [JobRows!Next]_(JobRows!vars) => PostInvariant'
<1> SUFFICES ASSUME PostInvariant, [JobRows!Next]_(JobRows!vars) PROVE PostInvariant'
  OBVIOUS
<1>0. PostTyped /\ DOMAIN editor = PostCalls
  BY DEF PostInvariant
<1>1. ASSUME NEW c \in PostCalls, JobRows!Create(c) \/ JobRows!Edit(c) PROVE PostInvariant'
  <2> DEFINE q == [kind |-> "edit", pc |-> "refresh", intel |-> JobRows!NoIntel]
  <2>1. JobRows!Starts(c, q) /\ made'
    BY <1>1 DEF JobRows!Create, JobRows!Edit, PostInvariant, JobRows!Exists
  <2>2. PostTyped'
    <3>1. CASE JobRows!Create(c)
      <4>1. PICK t \in 1..MaxText : post' = [text |-> t, intel |-> JobRows!NoIntel]
        BY <3>1 DEF JobRows!Create
      <4>2. t \in Nat \ {0}
        BY <4>1
      <4> QED
        BY <4>1, <4>2 DEF PostTyped, IntelTyped
    <3>2. CASE JobRows!Edit(c)
      <4>1. post' = [post EXCEPT !.text = @ + 1] /\ JobRows!Exists
        BY <3>2 DEF JobRows!Edit
      <4>2. post' = [text |-> post'.text, intel |-> post'.intel] /\ post'.text = post.text + 1 /\ post'.intel = post.intel
        BY <1>0, <4>1 DEF PostTyped, JobRows!Exists
      <4>3. post.text \in Nat /\ IntelTyped(post.intel)
        BY <1>0, <4>1 DEF PostTyped, JobRows!Exists
      <4> QED
        BY <4>2, <4>3 DEF PostTyped, IntelTyped
    <3> QED
      BY <1>1, <3>1, <3>2
  <2>3. q.kind = "edit" /\ q.pc = "refresh" /\ q.intel = JobRows!NoIntel
    OBVIOUS
  <2> HIDE DEF q
  <2> QED
    BY <2>1, <2>2, <2>3, PostStarts
<1>2. ASSUME NEW c \in PostCalls, JobRows!Update(c) PROVE PostInvariant'
  <2> DEFINE q == [kind |-> "other", pc |-> "refresh", intel |-> JobRows!NoIntel]
  <2>1. JobRows!Starts(c, q) /\ made' /\ post' = post
    BY <1>2 DEF JobRows!Update, PostInvariant, JobRows!Exists
  <2>2. PostTyped'
    BY <1>0, <2>1 DEF PostTyped, IntelTyped
  <2>3. q.kind = "other" /\ q.pc = "refresh" /\ q.intel = JobRows!NoIntel
    OBVIOUS
  <2> HIDE DEF q
  <2> QED
    BY <2>1, <2>2, <2>3, PostStarts
<1>3. ASSUME NEW c \in PostCalls, JobRows!Match(c) PROVE PostInvariant'
  <2> DEFINE q == [kind |-> "match", pc |-> "match", intel |-> post.intel]
  <2>1. JobRows!Starts(c, q) /\ made' /\ post' = post /\ JobRows!Exists
    BY <1>3 DEF JobRows!Match, PostInvariant, JobRows!Exists
  <2>2. PostTyped'
    BY <1>0, <2>1 DEF PostTyped, IntelTyped
  <2>3. q.kind = "match" /\ q.pc = "match" /\ q.intel = post.intel
    OBVIOUS
  <2> HIDE DEF q
  <2> QED
    BY <2>1, <2>2, <2>3, PostStarts
<1>4. ASSUME NEW c \in PostCalls, JobRows!Refresh(c) PROVE PostInvariant'
  <2>1. editor[c].pc = "refresh" /\ UNCHANGED <<post, made, loose>> /\ editor[c] # JobRows!Idle /\ EditorTyped(c)
    BY <1>4 DEF JobRows!Refresh, JobRows!Idle, PostInvariant
  <2>2. CASE JobRows!Exists /\ JobRows!Rebuilds(c)
    <3>1. editor' = [editor EXCEPT ![c].pc = "store", ![c].text = post.text]
      BY <1>4, <2>2 DEF JobRows!Refresh
    <3>2. /\ DOMAIN editor' = PostCalls /\ \A d \in PostCalls \ {c} : editor'[d] = editor[d]
          /\ editor'[c] = [editor[c] EXCEPT !.pc = "store", !.text = post.text]
      BY <1>0, <3>1
    <3>3. /\ DOMAIN editor'[c] = {"kind", "pc", "text", "intel"} /\ editor'[c].kind = editor[c].kind
          /\ editor'[c].pc = "store" /\ editor'[c].text = post.text /\ editor'[c].intel = editor[c].intel
          /\ editor[c].kind \in {"edit", "other"} /\ IntelTyped(editor[c].intel)
      BY <2>1, <3>2 DEF EditorTyped
    <3>4. post.text \in Nat \ {0}
      BY <1>0, <2>2 DEF PostTyped, JobRows!Exists
    <3>5. EditorTyped(c)'
      BY <3>3, <3>4 DEF EditorTyped, IntelTyped
    <3>6. \A d \in PostCalls \ {c} : EditorTyped(d)'
      BY <3>2, EditorKept DEF PostInvariant
    <3>7. PostTyped'
      BY <1>0, <2>1 DEF PostTyped, IntelTyped
    <3>8. \A d \in PostCalls : editor'[d] # JobRows!Idle => editor[d] # JobRows!Idle
      BY <2>1, <3>2
    <3>9. \A d \in PostCalls : editor'[d].kind = editor[d].kind /\ editor'[d].intel = editor[d].intel
      BY <3>2, <3>3
    <3>10. ~loose => editor[c].kind = "edit"
      <4>1. ASSUME ~loose, editor[c].kind # "edit" PROVE FALSE
        <5>1. \A d \in PostCalls \ {c} : editor[d] = JobRows!Idle
          BY <2>1, <4>1 DEF PostInvariant
        <5>2. \A d \in PostCalls : editor[d].kind # "edit"
          BY <4>1, <5>1 DEF JobRows!Idle
        <5>3. CurrentIntel(post.intel)
          BY <2>2, <4>1, <5>2 DEF PostInvariant
        <5> QED
          BY <2>2, <4>1, <5>3 DEF JobRows!Rebuilds, CurrentIntel
      <4> QED
        BY <4>1
    <3>11. ~loose => \A d \in PostCalls \ {c} : editor'[d] = JobRows!Idle
      BY <2>1, <3>2 DEF PostInvariant
    <3>12. ~loose => \A d \in PostCalls \ {c} : editor'[d].kind = "-"
      BY <3>11 DEF JobRows!Idle
    <3>13. ~loose => \A d \in PostCalls \ {c} :
                       editor'[d].kind # "edit" /\ editor'[d].kind # "other" /\ editor'[d].kind # "match"
      BY <3>12
    <3>14. ~loose => /\ editor'[c].kind = "edit" /\ editor'[c].text = post'.text
                     /\ \A a, d \in PostCalls : editor'[a] # JobRows!Idle /\ editor'[d] # JobRows!Idle => a = d
      BY <2>1, <3>3, <3>10, <3>11
    <3>15. (post # JobRows!NoJob => made)' /\ \A d \in PostCalls : EditorTyped(d)'
      BY <2>1, <3>5, <3>6 DEF PostInvariant
    <3>16. ~loose' => ~loose
      BY <2>1
    <3> QED
      BY <3>2, <3>7, <3>13, <3>14, <3>15, <3>16 DEF PostInvariant
  <2>3. CASE ~(JobRows!Exists /\ JobRows!Rebuilds(c))
    <3>1. JobRows!Done(c)
      BY <1>4, <2>3 DEF JobRows!Refresh
    <3>2. CASE JobRows!Exists
      <4>1. IntelTyped(post.intel) /\ post = [post EXCEPT !.intel = post.intel]
        BY <1>0, <3>2 DEF PostTyped, JobRows!Exists
      <4>2. ~loose => CurrentIntel(post.intel)
        <5>1. editor[c].kind # "edit"
          BY <2>3, <3>2 DEF JobRows!Rebuilds
        <5>2. ~loose => \A d \in PostCalls \ {c} : editor[d] = JobRows!Idle
          BY <2>1 DEF PostInvariant
        <5>3. ~loose => \A d \in PostCalls : editor[d].kind # "edit"
          BY <5>1, <5>2 DEF JobRows!Idle
        <5> QED
          BY <3>2, <5>3 DEF PostInvariant
      <4> QED
        BY <2>1, <3>1, <3>2, <4>1, <4>2, PostEnds
    <3>3. CASE ~JobRows!Exists
      <4>1. IntelTyped(JobRows!NoIntel)
        BY DEF IntelTyped
      <4> QED
        BY <2>1, <3>1, <3>3, <4>1, PostEnds
    <3> QED
      BY <3>2, <3>3
  <2> QED
    BY <2>2, <2>3
<1>5. ASSUME NEW c \in PostCalls, JobRows!Store(c) PROVE PostInvariant'
  <2>1. /\ editor[c].pc = "store" /\ UNCHANGED <<made, loose>> /\ JobRows!Done(c)
        /\ editor[c] # JobRows!Idle /\ EditorTyped(c)
    BY <1>5 DEF JobRows!Store, JobRows!Idle, PostInvariant
  <2>2. editor[c].text \in Nat \ {0} /\ editor[c].kind \in {"edit", "other"}
    BY <2>1 DEF EditorTyped
  <2>3. CASE JobRows!Exists
    <3>1. PICK r : post' = [post EXCEPT !.intel = JobRows!Built(editor[c].text, r)]
      BY <1>5, <2>3 DEF JobRows!Store
    <3> DEFINE i == JobRows!Built(editor[c].text, r)
    <3>2. "match" \in DOMAIN i /\ i.of = editor[c].text
      BY DEF JobRows!Built
    <3> HIDE DEF i
    <3>3. IntelTyped(i) /\ i # JobRows!NoIntel
      BY <2>2, <3>2 DEF IntelTyped, JobRows!NoIntel
    <3>4. ~loose => editor[c].kind = "edit"
      BY <2>1, <2>2, <2>3 DEF PostInvariant
    <3>5. ~loose => CurrentIntel(i)
      BY <2>1, <2>3, <3>2, <3>3, <3>4 DEF PostInvariant, CurrentIntel
    <3>6. post' = [post EXCEPT !.intel = i]
      BY <3>1 DEF i
    <3> QED
      BY <2>1, <2>3, <3>3, <3>5, <3>6, PostEnds
  <2>4. CASE ~JobRows!Exists
    <3>1. post' = post /\ IntelTyped(JobRows!NoIntel)
      BY <1>5, <2>4 DEF JobRows!Store, IntelTyped
    <3> QED
      BY <2>1, <2>4, <3>1, PostEnds
  <2> QED
    BY <2>3, <2>4
<1>6. ASSUME NEW c \in PostCalls, JobRows!NoteMatch(c) PROVE PostInvariant'
  <2> DEFINE i == JobRows!Noted(editor[c].intel)
  <2>1. /\ editor[c].pc = "match" /\ UNCHANGED <<made, loose>> /\ JobRows!Done(c)
        /\ editor[c] # JobRows!Idle /\ EditorTyped(c)
        /\ IF JobRows!Exists THEN post' = [post EXCEPT !.intel = i] ELSE UNCHANGED post
    BY <1>6 DEF JobRows!NoteMatch, JobRows!Idle, PostInvariant
  <2>2. IntelTyped(editor[c].intel) /\ editor[c].kind = "match"
    BY <2>1 DEF EditorTyped
  <2>3. /\ "match" \in DOMAIN i /\ i.match = TRUE
        /\ i.of = (IF editor[c].intel = JobRows!NoIntel THEN 0 ELSE editor[c].intel.of)
    BY <2>2 DEF JobRows!Noted, IntelTyped
  <2>4. i.of \in Nat
    BY <2>2, <2>3 DEF IntelTyped
  <2> HIDE DEF i
  <2>5. IntelTyped(i) /\ i # JobRows!NoIntel
    BY <2>3, <2>4 DEF IntelTyped, JobRows!NoIntel
  <2>6. ~loose /\ JobRows!Exists => CurrentIntel(i)
    <3> SUFFICES ASSUME ~loose, JobRows!Exists PROVE i.of = post.text
      BY <2>5 DEF CurrentIntel
    <3>1. \A d \in PostCalls \ {c} : editor[d] = JobRows!Idle
      BY <2>1 DEF PostInvariant
    <3>2. \A d \in PostCalls : editor[d].kind # "edit"
      BY <2>2, <3>1 DEF JobRows!Idle
    <3>3. CurrentIntel(post.intel) /\ editor[c].intel = post.intel
      BY <2>2, <3>2 DEF PostInvariant
    <3> QED
      BY <2>3, <3>3 DEF CurrentIntel
  <2> QED
    BY <2>1, <2>5, <2>6, PostEnds
<1>7. ASSUME NEW c \in PostCalls, JobRows!Delete(c) PROVE PostInvariant'
  <2>1. post' = JobRows!NoJob /\ UNCHANGED <<made, editor, loose>> /\ ~JobRows!Exists'
    BY <1>7 DEF JobRows!Delete, JobRows!Exists
  <2>2. PostTyped' /\ \A d \in PostCalls : EditorTyped(d)'
    BY <2>1, Zenon DEF PostInvariant, PostTyped, EditorTyped, IntelTyped
  <2> QED
    BY <2>1, <2>2 DEF PostInvariant
<1>8. ASSUME NEW c \in PostCalls, JobRows!Die(c) PROVE PostInvariant'
  <2>1. loose' = TRUE /\ UNCHANGED <<post, made>> /\ editor' = [editor EXCEPT ![c] = JobRows!Idle]
    BY <1>8 DEF JobRows!Die, JobRows!Done
  <2>2. DOMAIN editor' = PostCalls /\ editor'[c] = JobRows!Idle /\ \A d \in PostCalls \ {c} : editor'[d] = editor[d]
    BY <1>0, <2>1
  <2>3. \A d \in PostCalls : EditorTyped(d)'
    BY <2>2, EditorKept DEF PostInvariant, EditorTyped
  <2>4. PostTyped'
    BY <1>0, <2>1 DEF PostTyped, IntelTyped
  <2> QED
    BY <2>1, <2>2, <2>3, <2>4 DEF PostInvariant
<1>9. CASE UNCHANGED JobRows!vars
  <2>1. UNCHANGED <<post, made, editor, loose>>
    BY <1>9 DEF JobRows!vars
  <2> QED
    BY <2>1 DEF PostInvariant, PostTyped, EditorTyped, IntelTyped, CurrentIntel, JobRows!Exists
<1> QED
  BY <1>1, <1>2, <1>3, <1>4, <1>5, <1>6, <1>7, <1>8, <1>9 DEF JobRows!Next

(* What it says between calls.                                               *)
LEMMA PostInvariantTells == PostInvariant => JobRows!IntelligenceIsCurrent /\ JobRows!OnlyMatchesHideIt
<1> SUFFICES ASSUME PostInvariant PROVE JobRows!IntelligenceIsCurrent /\ JobRows!OnlyMatchesHideIt
  OBVIOUS
<1>1. ASSUME JobRows!Quiet, JobRows!Exists, ~loose PROVE CurrentIntel(post.intel)
  <2>1. \A c \in PostCalls : editor[c].kind # "edit"
    BY <1>1 DEF JobRows!Quiet, JobRows!Idle
  <2> QED
    BY <1>1, <2>1 DEF PostInvariant
<1>2. ASSUME JobRows!Quiet, JobRows!Exists, post.intel # JobRows!NoIntel, post.intel.of = 0
      PROVE  post.intel.match = TRUE /\ loose
  <2>1. IntelTyped(post.intel) /\ post.text \in Nat \ {0}
    BY <1>2 DEF PostInvariant, PostTyped, JobRows!Exists
  <2> QED
    BY <1>1, <1>2, <2>1 DEF IntelTyped, CurrentIntel
<1> QED
  BY <1>1, <1>2 DEF CurrentIntel, JobRows!IntelligenceIsCurrent, JobRows!OnlyMatchesHideIt

(* Any number of calls: between calls the intelligence of a job is of its    *)
(* present text, unless calls overlapped or one died since it was last       *)
(* edited alone; one of no text at all has a match noted in it, and then     *)
(* something went wrong.                                                     *)
THEOREM IntelligenceFollowsText ==
  JobRows!Init /\ [][JobRows!Next]_(JobRows!vars) => [](JobRows!IntelligenceIsCurrent /\ JobRows!OnlyMatchesHideIt)
<1> QED
  BY PostInit, PostPreserved, PostInvariantTells, PTL

-----------------------------------------------------------------------------
(* The rate limiter.                                                         *)
Limited == INSTANCE RateLimiter WITH Clients <- Addresses, MaxTime <- MaxLimitTime

(* Its settings.                                                             *)
LimitConstants == Limit \in Nat /\ Window \in Nat

(* The indexes of the requests let through in the window that ends at t.     *)
WindowOf(s, t) == {i \in DOMAIN s : s[i] > t - Window /\ s[i] =< t}

(* Requests of one client are let through in the order of time, up to now.   *)
InOrder(s) ==
  /\ s \in Seq(Nat)
  /\ \A i \in 1..Len(s) : s[i] =< time
  /\ \A i, j \in 1..Len(s) : i =< j => s[i] =< s[j]

(* The deque is the end of what was let through; the rest has left the       *)
(* window.                                                                   *)
EndOf(b, s) ==
  /\ b \in Seq(Nat) /\ Len(b) =< Len(s)
  /\ \A i \in 1..Len(b) : b[i] = s[Len(s) - Len(b) + i]
  /\ \A i \in 1..(Len(s) - Len(b)) : s[i] =< time - Window

(* What is shown for one client.                                             *)
ClientInLimit(s, r) ==
  /\ \A t \in 0..time : Cardinality(WindowOf(s, t)) =< Limit
  /\ \A t \in r : t \in 0..time /\ Cardinality(WindowOf(s, t)) = Limit

(* The inductive invariant.                                                  *)
LimitInvariant ==
  /\ time \in Nat
  /\ DOMAIN bucket = Addresses /\ DOMAIN passed = Addresses /\ DOMAIN refused = Addresses
  /\ \A c \in Addresses :
       /\ InOrder(passed[c])
       /\ EndOf(bucket[c], passed[c])
       /\ ClientInLimit(passed[c], refused[c])

(* The loop ends: where the first that is not stale is, or the deque.        *)
LEMMA LoopEnds ==
  ASSUME LimitConstants, LimitInvariant, NEW c \in Addresses
  PROVE  LET n == Limited!Popped(bucket[c]) IN
         /\ n \in 0..Len(bucket[c])
         /\ \A i \in 1..n : bucket[c][i] =< time - Window
         /\ n < Len(bucket[c]) => bucket[c][n + 1] > time - Window
<1> DEFINE b == bucket[c]
           T == {n \in 0..Len(b) : n < Len(b) => ~Limited!Stale(b[n + 1])}
           R == {p \in Nat \X Nat : p[1] < p[2]}
<1>0. b \in Seq(Nat) /\ time \in Nat /\ Window \in Nat /\ Len(b) \in Nat
  BY DEF LimitInvariant, EndOf, LimitConstants
<1>1. T \subseteq Nat /\ T # {}
  <2>1. Len(b) \in T
    BY <1>0
  <2> QED
    BY <2>1
<1>2. \E n \in T : \A m \in T : ~ (<<m, n>> \in R)
  <2>1. IsWellFoundedOn(R, Nat)
    BY NatLessThanWellFounded DEF OpToRel
  <2> HIDE DEF T, R
  <2> QED
    BY <1>1, <2>1, WFMin
<1>3. PICK n \in T : \A m \in T : ~ (<<m, n>> \in R)
  BY <1>2
<1>4. n \in Nat /\ \A m \in T : n =< m
  <2>1. \A x, y \in Nat : x < y => <<x, y>> \in R
    OBVIOUS
  <2>2. n \in Nat /\ \A m \in T : m \in Nat
    BY <1>1, <1>3
  <2> HIDE DEF T, R
  <2>3. ASSUME NEW m \in T PROVE n =< m
    <3>1. ~ (<<m, n>> \in R)
      BY <1>3
    <3>2. ~ (m < n)
      BY <2>1, <2>2, <3>1
    <3> QED
      BY <2>2, <3>2
  <2> QED
    BY <2>2, <2>3
<1>5. \A i \in 1..n : Limited!Stale(b[i])
  <2> SUFFICES ASSUME NEW i \in 1..n, ~Limited!Stale(b[i]) PROVE FALSE
    OBVIOUS
  <2>1. n \in 0..Len(b)
    BY <1>3
  <2>2. i - 1 \in 0..Len(b) /\ (i - 1) + 1 = i
    BY <1>0, <2>1
  <2>3. i - 1 \in T
    BY <2>2
  <2>4. n =< i - 1
    BY <1>4, <2>3
  <2> HIDE DEF T, b
  <2> QED
    BY <1>4, <2>4
<1>6. LET k == Limited!Popped(b) IN
        /\ k \in 0..Len(b)
        /\ \A i \in 1..k : Limited!Stale(b[i])
        /\ k < Len(b) => ~Limited!Stale(b[k + 1])
  BY <1>3, <1>5, Zenon DEF Limited!Popped
<1>7. \A t \in Nat : Limited!Stale(t) <=> t =< time - Window
  BY DEF Limited!Stale
<1>8. \A i \in 1..Len(b) : b[i] \in Nat
  BY <1>0
<1> HIDE DEF b
<1>9. LET k == Limited!Popped(b) IN
         /\ k \in 0..Len(b)
         /\ \A i \in 1..k : b[i] =< time - Window
         /\ k < Len(b) => b[k + 1] > time - Window
  <2> DEFINE k == Limited!Popped(b)
  <2>1. k \in 0..Len(b) /\ \A i \in 1..k : Limited!Stale(b[i])
    BY <1>6
  <2>2. k < Len(b) => ~Limited!Stale(b[k + 1])
    BY <1>6
  <2> HIDE DEF k
  <2>3. \A i \in 1..k : b[i] =< time - Window
    BY <1>0, <1>7, <1>8, <2>1
  <2>4. k < Len(b) => b[k + 1] > time - Window
    <3> HAVE k < Len(b)
    <3>1. k + 1 \in 1..Len(b)
      BY <1>0, <2>1
    <3>2. b[k + 1] \in Nat
      BY <1>8, <3>1
    <3> QED
      BY <1>0, <1>7, <2>2, <3>2
  <2> QED
    BY <2>1, <2>3, <2>4 DEF k
<1> QED
  BY <1>9 DEF b

(* What is left after the loop is the window that ends now.                  *)
LEMMA LoopCounts ==
  ASSUME LimitConstants, LimitInvariant, NEW c \in Addresses
  PROVE  /\ EndOf(Limited!Pruned(c), passed[c])
         /\ Len(Limited!Pruned(c)) = Cardinality(WindowOf(passed[c], time))
<1> DEFINE b == bucket[c]
           s == passed[c]
           n == Limited!Popped(b)
           q == Limited!Pruned(c)
           f == Len(s) - Len(b) + n
<1>0. /\ time \in Nat /\ Window \in Nat
      /\ b \in Seq(Nat) /\ s \in Seq(Nat) /\ Len(b) \in Nat /\ Len(s) \in Nat /\ Len(b) =< Len(s)
      /\ \A i \in 1..Len(s) : s[i] \in Nat /\ s[i] =< time
      /\ \A i, j \in 1..Len(s) : i =< j => s[i] =< s[j]
      /\ \A i \in 1..Len(b) : b[i] = s[Len(s) - Len(b) + i]
      /\ \A i \in 1..(Len(s) - Len(b)) : s[i] =< time - Window
  BY DEF LimitInvariant, InOrder, EndOf, LimitConstants
<1>1. /\ n \in 0..Len(b)
      /\ \A i \in 1..n : b[i] =< time - Window
      /\ n < Len(b) => b[n + 1] > time - Window
  BY LoopEnds
<1>2. q = SubSeq(b, n + 1, Len(b))
  BY DEF Limited!Pruned
<1> HIDE DEF n, q
<1>3. \A i \in n + 1..Len(b) : b[i] \in Nat
  <2>1. \A i \in n + 1..Len(b) : i \in 1..Len(b)
    BY <1>0, <1>1
  <2> QED
    BY <1>0, <2>1
<1>4. /\ q \in Seq(Nat) /\ Len(q) = Len(b) - n
      /\ \A i \in 1..Len(b) - n : q[i] = b[n + i]
  <2> HIDE DEF b
  <2>1. n + 1 \in Int /\ Len(b) \in Int /\ n =< Len(b) /\ n \in Nat
    BY <1>0, <1>1
  <2>2. /\ SubSeq(b, n + 1, Len(b)) \in Seq(Nat)
        /\ Len(SubSeq(b, n + 1, Len(b))) = IF n + 1 =< Len(b) THEN Len(b) - (n + 1) + 1 ELSE 0
        /\ \A i \in 1..Len(b) - (n + 1) + 1 : SubSeq(b, n + 1, Len(b))[i] = b[n + 1 + i - 1]
    BY <1>3, <2>1, SubSeqProperties
  <2>3. /\ q \in Seq(Nat)
        /\ Len(q) = IF n + 1 =< Len(b) THEN Len(b) - (n + 1) + 1 ELSE 0
        /\ \A i \in 1..Len(b) - (n + 1) + 1 : q[i] = b[n + 1 + i - 1]
    BY <1>2, <2>2
  <2>4. Len(q) = Len(b) - n /\ Len(b) - (n + 1) + 1 = Len(b) - n
    BY <2>1, <2>3
  <2>5. \A i \in 1..Len(b) - n : n + 1 + i - 1 = n + i
    BY <2>1
  <2> QED
    BY <2>3, <2>4, <2>5
<1> HIDE DEF b, s
<1>5. f \in 0..Len(s) /\ Len(s) - Len(q) = f /\ Len(q) =< Len(s) /\ Len(q) \in Nat
  BY <1>0, <1>1, <1>4
<1>6. \A i \in 1..Len(q) : q[i] = s[Len(s) - Len(q) + i]
  <2> TAKE i \in 1..Len(q)
  <2>1. i \in 1..Len(b) - n /\ n + i \in 1..Len(b) /\ Len(s) - Len(b) + (n + i) = Len(s) - Len(q) + i
    BY <1>0, <1>1, <1>4, <1>5
  <2> QED
    BY <1>0, <1>4, <2>1
<1>7. \A i \in 1..f : s[i] =< time - Window
  <2> TAKE i \in 1..f
  <2>1. CASE i =< Len(s) - Len(b)
    BY <1>0, <1>1, <1>5, <2>1
  <2>2. CASE i > Len(s) - Len(b)
    <3>0. /\ n \in Nat /\ n =< Len(b) /\ Len(b) \in Nat /\ Len(s) \in Nat /\ Len(b) =< Len(s)
          /\ i \in Int /\ i =< Len(s) - Len(b) + n
      BY <1>0, <1>1, <1>5
    <3>1. i - (Len(s) - Len(b)) \in 1..n /\ i - (Len(s) - Len(b)) \in 1..Len(b)
          /\ Len(s) - Len(b) + (i - (Len(s) - Len(b))) = i
      BY <2>2, <3>0
    <3>2. b[i - (Len(s) - Len(b))] =< time - Window
      BY <1>1, <3>1
    <3>3. b[i - (Len(s) - Len(b))] = s[Len(s) - Len(b) + (i - (Len(s) - Len(b)))]
      BY <1>0, <3>1
    <3>4. b[i - (Len(s) - Len(b))] = s[i]
      BY <3>1, <3>3
    <3> QED
      BY <3>2, <3>4
  <2> QED
    BY <1>0, <1>5, <2>1, <2>2
<1>8. \A i \in f + 1..Len(s) : s[i] > time - Window
  <2> TAKE i \in f + 1..Len(s)
  <2>0. n \in 0..Len(b) /\ Len(b) \in Nat /\ Len(s) \in Nat /\ Len(b) =< Len(s)
    BY <1>0, <1>1
  <2>1. n < Len(b) /\ n + 1 \in 1..Len(b) /\ Len(s) - Len(b) + (n + 1) = f + 1 /\ f + 1 \in 1..Len(s)
        /\ i \in 1..Len(s) /\ f + 1 =< i
    BY <2>0
  <2>2. b[n + 1] = s[Len(s) - Len(b) + (n + 1)] /\ b[n + 1] > time - Window
    BY <1>0, <1>1, <2>1
  <2>3. s[f + 1] =< s[i] /\ s[f + 1] \in Nat /\ s[i] \in Nat
    BY <1>0, <2>1
  <2>4. b[n + 1] = s[f + 1]
    BY <2>1, <2>2
  <2> HIDE DEF f
  <2> QED
    BY <1>0, <2>2, <2>3, <2>4
<1>9. WindowOf(s, time) = f + 1..Len(s)
  <2>1. DOMAIN s = 1..Len(s)
    BY <1>0
  <2>2. \A i \in 1..Len(s) : (s[i] > time - Window /\ s[i] =< time) <=> i \in f + 1..Len(s)
    <3> TAKE i \in 1..Len(s)
    <3>1. i \in 1..f \/ i \in f + 1..Len(s)
      BY <1>0, <1>5
    <3>2. ~(i \in 1..f /\ i \in f + 1..Len(s))
      BY <1>0, <1>5
    <3>3. s[i] \in Nat /\ s[i] =< time
      BY <1>0
    <3> HIDE DEF f
    <3> QED
      BY <1>0, <1>7, <1>8, <3>1, <3>2, <3>3
  <2>3. \A i \in f + 1..Len(s) : i \in 1..Len(s)
    BY <1>0, <1>5
  <2> HIDE DEF f
  <2> QED
    BY <2>1, <2>2, <2>3 DEF WindowOf
<1>10. Cardinality(f + 1..Len(s)) = Len(q)
  <2>1. f + 1 \in Int /\ Len(s) \in Int
    BY <1>0, <1>5
  <2>2. Cardinality(f + 1..Len(s)) = IF f + 1 > Len(s) THEN 0 ELSE Len(s) - (f + 1) + 1
    BY <2>1, FS_Interval
  <2> HIDE DEF f
  <2> QED
    BY <1>0, <1>5, <2>2
<1>11. EndOf(q, s)
  BY <1>4, <1>5, <1>6, <1>7 DEF EndOf
<1> QED
  BY <1>9, <1>10, <1>11 DEF q, s

(* The counted sets are finite.                                              *)
LEMMA WindowsAreFinite ==
  ASSUME NEW s \in Seq(Nat), NEW t
  PROVE  IsFiniteSet(WindowOf(s, t)) /\ Cardinality(WindowOf(s, t)) \in Nat
<1>1. IsFiniteSet(1..Len(s)) /\ WindowOf(s, t) \in SUBSET (1..Len(s))
  BY FS_Interval DEF WindowOf
<1> QED
  BY <1>1, FS_Subset, FS_CardinalityType

(* One more request, let through now, is in the window that ends now, and in *)
(* none that ended.                                                          *)
LEMMA PassedCounts ==
  ASSUME LimitConstants, time \in Nat, NEW s, InOrder(s)
  PROVE  /\ InOrder(Append(s, time))
         /\ \A t \in Nat : t < time => WindowOf(Append(s, time), t) = WindowOf(s, t)
         /\ Cardinality(WindowOf(Append(s, time), time)) =< Cardinality(WindowOf(s, time)) + 1
<1> DEFINE a == Append(s, time)
           n == Len(s)
<1>0. s \in Seq(Nat) /\ n \in Nat /\ time \in Nat /\ Window \in Nat
  BY DEF InOrder, LimitConstants
<1>1. /\ a \in Seq(Nat) /\ Len(a) = n + 1 /\ DOMAIN a = 1..n + 1 /\ DOMAIN s = 1..n
      /\ \A i \in 1..n : a[i] = s[i] /\ s[i] \in Nat /\ s[i] =< time
      /\ a[n + 1] = time
      /\ \A i, j \in 1..n : i =< j => s[i] =< s[j]
  <2>1. /\ a \in Seq(Nat) /\ Len(a) = n + 1 /\ a[n + 1] = time
        /\ \A i \in 1..n : a[i] = s[i]
    BY <1>0, AppendProperties
  <2>2. /\ \A i \in 1..n : s[i] \in Nat /\ s[i] =< time
        /\ \A i, j \in 1..n : i =< j => s[i] =< s[j]
    BY <1>0 DEF InOrder
  <2>3. DOMAIN a = 1..n + 1 /\ DOMAIN s = 1..n
    BY <1>0, <2>1
  <2> QED
    BY <2>1, <2>2, <2>3
<1> HIDE DEF a, n
<1>2. InOrder(a)
  <2>1. \A i \in 1..Len(a) : i \in 1..n \/ i = n + 1
    BY <1>0, <1>1
  <2>2. \A i \in 1..Len(a) : a[i] \in Nat /\ a[i] =< time
    BY <1>0, <1>1, <2>1
  <2>3. \A i, j \in 1..Len(a) : i =< j => a[i] =< a[j]
    <3> SUFFICES ASSUME NEW i \in 1..Len(a), NEW j \in 1..Len(a), i =< j PROVE a[i] =< a[j]
      OBVIOUS
    <3>1. CASE j = n + 1
      BY <1>1, <2>2, <3>1
    <3>2. CASE j # n + 1
      <4>1. j \in 1..n /\ i \in 1..n
        BY <1>0, <2>1, <3>2
      <4> QED
        BY <1>1, <4>1
    <3> QED
      BY <3>1, <3>2
  <2> QED
    BY <1>1, <2>2, <2>3 DEF InOrder
<1>3. \A t \in Nat : t < time => WindowOf(a, t) = WindowOf(s, t)
  <2> SUFFICES ASSUME NEW t \in Nat, t < time PROVE WindowOf(a, t) = WindowOf(s, t)
    OBVIOUS
  <2>1. \A i \in 1..n + 1 : i \in 1..n \/ i = n + 1
    BY <1>0
  <2>2. \A i \in 1..n : i \in 1..n + 1
    BY <1>0
  <2>3. ~(a[n + 1] =< t)
    BY <1>0, <1>1
  <2> QED
    BY <1>1, <2>1, <2>2, <2>3 DEF WindowOf
<1>4. WindowOf(a, time) \subseteq WindowOf(s, time) \cup {n + 1}
  <2>1. \A i \in 1..n + 1 : i \in 1..n \/ i = n + 1
    BY <1>0
  <2> QED
    BY <1>1, <2>1 DEF WindowOf
<1>5. Cardinality(WindowOf(a, time)) =< Cardinality(WindowOf(s, time)) + 1
  <2> DEFINE W == WindowOf(s, time)
             V == WindowOf(a, time)
  <2>1. IsFiniteSet(W) /\ Cardinality(W) \in Nat /\ Cardinality(V) \in Nat
    BY <1>0, <1>1, WindowsAreFinite
  <2>2. V \in SUBSET (W \cup {n + 1})
    BY <1>4
  <2> HIDE DEF W, V
  <2>3. /\ IsFiniteSet(W \cup {n + 1})
        /\ Cardinality(W \cup {n + 1}) = IF n + 1 \in W THEN Cardinality(W) ELSE Cardinality(W) + 1
    BY <2>1, FS_AddElement
  <2>4. Cardinality(V) =< Cardinality(W \cup {n + 1})
    BY <2>2, <2>3, FS_Subset
  <2>5. Cardinality(V) =< Cardinality(W) + 1
    BY <2>1, <2>3, <2>4
  <2> QED
    BY <2>5 DEF W, V
<1> QED
  BY <1>2, <1>3, <1>5 DEF a

(* The initial states.                                                       *)
LEMMA LimitInit ==
  ASSUME LimitConstants, Limited!Init
  PROVE  LimitInvariant
<1>1. /\ time = 0 /\ DOMAIN bucket = Addresses /\ DOMAIN passed = Addresses /\ DOMAIN refused = Addresses
      /\ \A c \in Addresses : bucket[c] = <<>> /\ passed[c] = <<>> /\ refused[c] = {}
  BY DEF Limited!Init
<1>2. InOrder(<<>>) /\ EndOf(<<>>, <<>>)
  BY <1>1 DEF InOrder, EndOf
<1>3. \A t : WindowOf(<<>>, t) = {}
  BY DEF WindowOf
<1>4. ClientInLimit(<<>>, {})
  BY <1>3, FS_EmptySet DEF ClientInLimit, LimitConstants
<1> QED
  BY <1>1, <1>2, <1>4 DEF LimitInvariant

(* A request.                                                                *)
LEMMA RequestInLimit ==
  ASSUME LimitConstants, LimitInvariant, NEW c \in Addresses, Limited!Request(c)
  PROVE  LimitInvariant'
<1> DEFINE q == Limited!Pruned(c)
           s == passed[c]
           Sets(g, f, x) == /\ DOMAIN g = DOMAIN f /\ g[c] = x
                            /\ \A d \in DOMAIN f \ {c} : g[d] = f[d]
<1>0. /\ time \in Nat /\ time' = time /\ Limit \in Nat /\ Window \in Nat
      /\ InOrder(s) /\ s \in Seq(Nat) /\ ClientInLimit(s, refused[c])
      /\ EndOf(q, s) /\ Len(q) = Cardinality(WindowOf(s, time)) /\ q \in Seq(Nat) /\ Len(q) \in Nat
  BY LoopCounts DEF LimitInvariant, LimitConstants, Limited!Request, InOrder, EndOf
<1>1. \A x, y : /\ InOrder(x)' <=> InOrder(x)
                /\ EndOf(x, y)' <=> EndOf(x, y)
                /\ ClientInLimit(x, y)' <=> ClientInLimit(x, y)
  BY <1>0 DEF InOrder, EndOf, ClientInLimit
<1> HIDE DEF q
<1>2. ASSUME NEW b, NEW p, NEW r, InOrder(p), EndOf(b, p), ClientInLimit(p, r),
             Sets(bucket', bucket, b), Sets(passed', passed, p), Sets(refused', refused, r)
      PROVE  LimitInvariant'
  <2>1. DOMAIN bucket' = Addresses /\ DOMAIN passed' = Addresses /\ DOMAIN refused' = Addresses
    BY <1>2 DEF LimitInvariant
  <2>2. /\ bucket'[c] = b /\ passed'[c] = p /\ refused'[c] = r
        /\ \A d \in Addresses \ {c} : bucket'[d] = bucket[d] /\ passed'[d] = passed[d] /\ refused'[d] = refused[d]
    BY <1>2 DEF LimitInvariant
  <2>3. \A d \in Addresses :
          InOrder(passed'[d]) /\ EndOf(bucket'[d], passed'[d]) /\ ClientInLimit(passed'[d], refused'[d])
    BY <1>2, <2>2 DEF LimitInvariant
  <2>4. \A d \in Addresses :
          InOrder(passed[d])' /\ EndOf(bucket[d], passed[d])' /\ ClientInLimit(passed[d], refused[d])'
    BY <1>0, <2>3 DEF InOrder, EndOf, ClientInLimit
  <2> QED
    BY <1>0, <2>1, <2>4 DEF LimitInvariant
<1>3. CASE Len(q) >= Limit
  <2>1. /\ bucket' = [bucket EXCEPT ![c] = q] /\ passed' = passed
        /\ refused' = [refused EXCEPT ![c] = refused[c] \cup {time}]
    BY <1>3 DEF Limited!Request, q
  <2>2. /\ Sets(bucket', bucket, q) /\ Sets(passed', passed, s)
        /\ Sets(refused', refused, refused[c] \cup {time})
    BY <2>1 DEF LimitInvariant
  <2>3. time \in 0..time /\ Cardinality(WindowOf(s, time)) = Limit
    BY <1>0, <1>3 DEF ClientInLimit
  <2>4. ClientInLimit(s, refused[c] \cup {time})
    BY <1>0, <2>3 DEF ClientInLimit
  <2> QED
    BY <1>0, <1>2, <2>2, <2>4
<1>4. CASE ~(Len(q) >= Limit)
  <2> DEFINE p == Append(s, time)
             b == Append(q, time)
  <2>1. /\ bucket' = [bucket EXCEPT ![c] = b] /\ refused' = refused
        /\ passed' = [passed EXCEPT ![c] = p]
    BY <1>4 DEF Limited!Request, q
  <2>2. Sets(bucket', bucket, b) /\ Sets(passed', passed, p) /\ Sets(refused', refused, refused[c])
    BY <2>1 DEF LimitInvariant
  <2>3. /\ InOrder(p)
        /\ \A t \in Nat : t < time => WindowOf(p, t) = WindowOf(s, t)
        /\ Cardinality(WindowOf(p, time)) =< Cardinality(WindowOf(s, time)) + 1
    BY <1>0, PassedCounts
  <2>4. /\ b \in Seq(Nat) /\ Len(b) = Len(q) + 1 /\ b[Len(q) + 1] = time
        /\ \A i \in 1..Len(q) : b[i] = q[i]
        /\ p \in Seq(Nat) /\ Len(p) = Len(s) + 1 /\ p[Len(s) + 1] = time
        /\ \A i \in 1..Len(s) : p[i] = s[i]
    BY <1>0, AppendProperties
  <2> HIDE DEF p, b, s
  <2>5. EndOf(b, p)
    <3>1. /\ Len(q) =< Len(s) /\ Len(s) \in Nat
          /\ \A i \in 1..Len(q) : q[i] = s[Len(s) - Len(q) + i]
          /\ \A i \in 1..(Len(s) - Len(q)) : s[i] =< time - Window
      BY <1>0 DEF EndOf
    <3>2. Len(b) =< Len(p) /\ Len(p) - Len(b) = Len(s) - Len(q)
      <4>1. Len(b) = Len(q) + 1 /\ Len(p) = Len(s) + 1 /\ Len(q) \in Nat
        BY <1>0, <2>4
      <4> QED
        BY <3>1, <4>1
    <3>3. \A i \in 1..Len(b) : b[i] = p[Len(p) - Len(b) + i]
      <4> TAKE i \in 1..Len(b)
      <4>1. CASE i = Len(q) + 1
        <5>1. Len(p) - Len(b) + i = Len(s) + 1
          BY <1>0, <3>1, <3>2, <4>1
        <5>2. b[i] = time /\ p[Len(p) - Len(b) + i] = time
          BY <2>4, <4>1, <5>1
        <5> QED
          BY <5>2
      <4>2. CASE i # Len(q) + 1
        <5>1. Len(b) = Len(q) + 1 /\ Len(q) \in Nat /\ Len(s) \in Nat /\ Len(q) =< Len(s)
          BY <1>0, <2>4, <3>1
        <5>2. i \in 1..Len(q) /\ Len(s) - Len(q) + i \in 1..Len(s)
          BY <4>2, <5>1
        <5>3. b[i] = q[i] /\ q[i] = s[Len(s) - Len(q) + i]
          BY <2>4, <3>1, <5>2
        <5>4. p[Len(s) - Len(q) + i] = s[Len(s) - Len(q) + i]
          BY <2>4, <5>2
        <5> QED
          BY <3>2, <5>3, <5>4
      <4> QED
        BY <4>1, <4>2
    <3>4. \A i \in 1..(Len(p) - Len(b)) : p[i] =< time - Window
      <4>1. \A i \in 1..(Len(s) - Len(q)) : i \in 1..Len(s)
        BY <1>0, <3>1
      <4> QED
        BY <2>4, <3>1, <3>2, <4>1
    <3> QED
      BY <2>4, <3>2, <3>3, <3>4 DEF EndOf
  <2>6. ClientInLimit(p, refused[c])
    <3>1. Cardinality(WindowOf(p, time)) \in Nat /\ Cardinality(WindowOf(p, time)) =< Limit
      BY <1>0, <1>4, <2>3, <2>4, WindowsAreFinite
    <3>2. \A t \in 0..time : t = time \/ (t \in Nat /\ t < time)
      BY <1>0
    <3>3. \A t \in 0..time : Cardinality(WindowOf(p, t)) =< Limit
      BY <1>0, <2>3, <3>1, <3>2 DEF ClientInLimit
    <3>4. time \notin refused[c]
      BY <1>0, <1>4 DEF ClientInLimit
    <3>5. \A t \in refused[c] : t \in 0..time /\ Cardinality(WindowOf(p, t)) = Limit
      BY <1>0, <2>3, <3>2, <3>4 DEF ClientInLimit
    <3> QED
      BY <3>3, <3>5 DEF ClientInLimit
  <2> QED
    BY <1>2, <2>2, <2>3, <2>5, <2>6
<1> QED
  BY <1>3, <1>4

(* The clock: no request is let through in the future.                       *)
LEMMA TimeInLimit ==
  ASSUME LimitConstants, LimitInvariant, Limited!Later
  PROVE  LimitInvariant'
<1>0. /\ time \in Nat /\ time' = time + 1 /\ Window \in Nat /\ Limit \in Nat
      /\ bucket' = bucket /\ passed' = passed /\ refused' = refused
  BY DEF Limited!Later, LimitInvariant, LimitConstants
<1>1. ASSUME NEW c \in Addresses
      PROVE  InOrder(passed[c])' /\ EndOf(bucket[c], passed[c])' /\ ClientInLimit(passed[c], refused[c])'
  <2> DEFINE s == passed[c]
             b == bucket[c]
             r == refused[c]
  <2>0. /\ s \in Seq(Nat) /\ Len(s) \in Nat /\ b \in Seq(Nat) /\ Len(b) \in Nat /\ DOMAIN s = 1..Len(s)
        /\ \A i \in 1..Len(s) : s[i] \in Nat /\ s[i] =< time
        /\ InOrder(s) /\ EndOf(b, s) /\ ClientInLimit(s, r)
    BY DEF LimitInvariant, InOrder, EndOf
  <2> HIDE DEF s, b, r
  <2>1. /\ \A i \in 1..Len(s) : s[i] =< time + 1
        /\ \A i \in 1..(Len(s) - Len(b)) : s[i] =< (time + 1) - Window
    <3>1. \A i \in 1..(Len(s) - Len(b)) : i \in 1..Len(s) /\ s[i] =< time - Window
      BY <2>0 DEF EndOf
    <3> QED
      BY <1>0, <2>0, <3>1
  <2>2. Cardinality(WindowOf(s, time + 1)) =< Limit
    <3>1. WindowOf(s, time + 1) \in SUBSET WindowOf(s, time)
      BY <1>0, <2>0 DEF WindowOf
    <3>2. IsFiniteSet(WindowOf(s, time)) /\ Cardinality(WindowOf(s, time)) \in Nat
          /\ Cardinality(WindowOf(s, time + 1)) \in Nat
      BY <2>0, WindowsAreFinite
    <3>3. Cardinality(WindowOf(s, time + 1)) =< Cardinality(WindowOf(s, time))
      BY <3>1, <3>2, FS_Subset
    <3>4. Cardinality(WindowOf(s, time)) =< Limit
      BY <1>0, <2>0 DEF ClientInLimit
    <3> QED
      BY <1>0, <3>2, <3>3, <3>4
  <2>3. \A t \in 0..time + 1 : t \in 0..time \/ t = time + 1
    BY <1>0
  <2>4. \A t \in 0..time : t \in 0..time + 1
    BY <1>0
  <2>5. /\ \A i \in 1..Len(s) : s[i] =< time'
        /\ \A i \in 1..(Len(s) - Len(b)) : s[i] =< time' - Window
        /\ \A t \in 0..time' : Cardinality(WindowOf(s, t)) =< Limit
        /\ \A t \in r : t \in 0..time' /\ Cardinality(WindowOf(s, t)) = Limit
    BY <1>0, <2>0, <2>1, <2>2, <2>3, <2>4 DEF ClientInLimit
  <2>6. s' = s /\ b' = b /\ r' = r
    BY <1>0 DEF s, b, r
  <2>7. InOrder(s)' /\ EndOf(b, s)' /\ ClientInLimit(s, r)'
    BY <2>0, <2>5, <2>6 DEF InOrder, EndOf, ClientInLimit
  <2> QED
    BY <2>7 DEF s, b, r
<1> QED
  BY <1>0, <1>1 DEF LimitInvariant

(* Every step.                                                               *)
LEMMA LimitPreserved ==
  ASSUME LimitConstants, LimitInvariant, [Limited!Next]_(Limited!vars)
  PROVE  LimitInvariant'
<1>1. CASE UNCHANGED Limited!vars
  <2>1. bucket' = bucket /\ time' = time /\ passed' = passed /\ refused' = refused
    BY <1>1 DEF Limited!vars
  <2> QED
    BY <2>1 DEF LimitInvariant, InOrder, EndOf, ClientInLimit
<1> QED
  BY <1>1, RequestInLimit, TimeInLimit DEF Limited!Next

(* The invariant says it.                                                    *)
LEMMA LimitInvariantTells == LimitInvariant => Limited!LimitIsExact
BY DEF LimitInvariant, ClientInLimit, WindowOf, Limited!LimitIsExact, Limited!InWindow, Limited!Cardinality, Cardinality,
  Limited!IsFiniteSet, IsFiniteSet

(* The sliding window lets no more than the limit through in any window, and *)
(* refuses a request only if its window is full.                             *)
THEOREM LimitsAreExact ==
  ASSUME LimitConstants
  PROVE  Limited!Init /\ [][Limited!Next]_(Limited!vars) => []Limited!LimitIsExact
<1>1. LimitInvariant /\ [Limited!Next]_(Limited!vars) => LimitInvariant'
  BY LimitPreserved
<1>2. Limited!Init => LimitInvariant
  BY LimitInit
<1> QED
  BY <1>1, <1>2, LimitInvariantTells, PTL

-----------------------------------------------------------------------------
(* What the sections above say of a service, in one statement each: its      *)
(* invariant holds at first, is kept by every step and implies its properties.*)

(* Companies and members.                                                    *)
LEMMA TenantsService ==
  ASSUME TenantsConstants
  PROVE  /\ Tenants!Init => TenantsInvariant
         /\ TenantsInvariant /\ [Tenants!Next]_(Tenants!vars) => TenantsInvariant'
         /\ TenantsInvariant => Tenants!TenantsAgree
BY TenantsInit, TenantsPreserved, TenantsInvariantAgrees

(* Workspace files.                                                          *)
LEMMA StoreService ==
  /\ Store!Init => StoreInvariant
  /\ StoreInvariant /\ [Store!Next]_(Store!vars) => StoreInvariant'
  /\ StoreInvariant =>
       Store!NothingElseIsLost /\ Store!OverlapsTear /\ Store!OverlapsMissIt /\ Store!RemovedForGood
BY StoreInit, StorePreserved, StoreInvariantHoldsItems

(* Analyses and decisions.                                                   *)
LEMMA DatedService ==
  /\ Dated!Init => DatedInvariant
  /\ DatedInvariant /\ [Dated!Next]_(Dated!vars) => DatedInvariant'
  /\ DatedInvariant => Dated!StaleIsReported
BY DatedInit, DatedPreserved, DatedInvariantReports

(* Public applications.                                                      *)
LEMMA ApplyService ==
  ASSUME ApplyConstants
  PROVE  /\ Applied!Init => ApplyInvariant
         /\ ApplyInvariant /\ [Applied!Next]_(Applied!vars) => ApplyInvariant'
         /\ ApplyInvariant => Applied!ApplicationsHaveTheirResume
BY ApplyInit, ApplyPreserved, ApplyInvariantNames

(* Candidates and their records.                                             *)
LEMMA PeopleService ==
  ASSUME PeopleConstants
  PROVE  /\ Records!Init => PeopleInvariant
         /\ PeopleInvariant /\ [Records!Next]_(Records!candidateVars) => PeopleInvariant'
         /\ PeopleInvariant => Records!DeletionIsSafe /\ Records!StatusIsAccountedFor
BY PeopleInit, PeoplePreserved, PeopleInvariantAccounts

(* The audit trail.                                                          *)
LEMMA AuditService ==
  ASSUME AuditConstants
  PROVE  /\ Trail!Init => AuditInvariant
         /\ AuditInvariant /\ [Trail!Next]_(Trail!vars) => AuditInvariant'
         /\ AuditInvariant => Trail!TrailIsComplete
BY AuditInit, AuditPreserved, AuditInvariantTells

(* Webhooks and deliveries.                                                  *)
LEMMA HookService ==
  ASSUME HookConstants
  PROVE  /\ Configured!Init => (HookInvariant /\ DeliveryInvariant)
         /\ (HookInvariant /\ DeliveryInvariant) /\ [Configured!Next]_(Configured!webhookVars) => (HookInvariant /\ DeliveryInvariant)'
         /\ (HookInvariant /\ DeliveryInvariant) => Configured!TrailTellsRows /\ Configured!SubscribersHear
BY HookInit, HookPreserved, HookInvariantTells, DeliveryInit, DeliveryPreserved, DeliveryInvariantTells

(* The fan-out of changes.                                                   *)
LEMMA FanoutService ==
  ASSUME FanoutConstants
  PROVE  /\ Fanned!Init => FanoutInvariant
         /\ FanoutInvariant /\ [Fanned!Next]_(Fanned!vars) => FanoutInvariant'
         /\ FanoutInvariant => Fanned!FanoutIsComplete /\ Fanned!OneMailPerEvent /\ Fanned!MailFollowsNote
BY FanoutInit, FanoutPreserved, FanoutInvariantTells, FanoutInvariantMails

(* AI pipelines.                                                             *)
LEMMA PipeService ==
  ASSUME PipeConstants
  PROVE  /\ Piped!Init => PipeInvariant
         /\ PipeInvariant /\ [Piped!Next]_(Piped!vars) => PipeInvariant'
         /\ PipeInvariant => Piped!AnswerIsUsable
BY PipeInit, PipePreserved DEF PipeInvariant

(* The assistant.                                                            *)
LEMMA AssistantService ==
  ASSUME AssistantConstants
  PROVE  /\ Assisted!Init => AssistantInvariant
         /\ AssistantInvariant /\ [Assisted!Next]_(Assisted!assistantVars) => AssistantInvariant'
         /\ AssistantInvariant => Assisted!TemplatesAreKnown /\ Assisted!ComparisonsAreCurrent
BY AssistantInit, AssistantPreserved, AssistantInvariantTells

(* The cached reports.                                                       *)
LEMMA ReadCacheService ==
  ASSUME ReadCacheConstants
  PROVE  /\ Reread!Init => ReadCacheInvariant
         /\ ReadCacheInvariant /\ [Reread!Next]_(Reread!vars) => ReadCacheInvariant'
         /\ ReadCacheInvariant => Reread!StaleOnlyByOverlap
BY ReadCacheInit, ReadCachePreserved, ReadCacheInvariantTells

(* The cache in Redis and the processes.                                     *)
LEMMA CacheService ==
  ASSUME TieredConstants
  PROVE  /\ Tiered!Init => CacheInvariant
         /\ CacheInvariant /\ [Tiered!Next]_(Tiered!vars) => CacheInvariant'
         /\ CacheInvariant => Tiered!StaleOnlyIfUnseen /\ Tiered!SizeIsBounded /\ Tiered!OneHolder
BY TieredInit, TieredPreserved, CacheInvariantTells

(* Jobs and their intelligence.                                              *)
LEMMA PostService ==
  /\ JobRows!Init => PostInvariant
  /\ PostInvariant /\ [JobRows!Next]_(JobRows!vars) => PostInvariant'
  /\ PostInvariant => JobRows!IntelligenceIsCurrent /\ JobRows!OnlyMatchesHideIt
BY PostInit, PostPreserved, PostInvariantTells

(* The rate limiter.                                                         *)
LEMMA LimitService ==
  ASSUME LimitConstants
  PROVE  /\ Limited!Init => LimitInvariant
         /\ LimitInvariant /\ [Limited!Next]_(Limited!vars) => LimitInvariant'
         /\ LimitInvariant => Limited!LimitIsExact
BY LimitInit, LimitPreserved, LimitInvariantTells
=============================================================================
