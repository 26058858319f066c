----------------------------- MODULE Membership -----------------------------
(***************************************************************************)
(* services/company.py, company_member.py and branch.py: how a user comes  *)
(* to belong to a company. A request checks the rows, then writes them in  *)
(* one transaction; the schema's unique constraints                        *)
(* (uq_company_members_user, the slugs of companies and of a company's     *)
(* branches) decide between two that both found nothing.                   *)
(*                                                                         *)
(* A name is a model value, the slugs made from it are <<name, suffix>>.   *)
(***************************************************************************)
EXTENDS Integers, FiniteSets, FiniteSetsExt

CONSTANTS
  Users,
  Names,      \* of companies and branches
  Calls,      \* requests under way together
  MaxBranches \* bound: branches

None == "none"

VARIABLES
  company,   \* users.company_id: the founder of the company, or None
  role,      \* users.role
  members,   \* company_members: [user, company, role]
  slugs,     \* founder -> slug of the company
  branches,  \* slugs of branches, as <<company, slug>>
  call       \* request -> [pc, kind, by, user, role, slug, none]
vars == <<company, role, members, slugs, branches, call>>

Idle == [pc |-> "idle"]

Init ==
  /\ company = [u \in Users |-> None] /\ role = [u \in Users |-> "recruiter"]
  /\ members = {} /\ slugs = <<>> /\ branches = {}
  /\ call = [q \in Calls |-> Idle]

Joined(u) == \E m \in members : m.user = u
Admin(u, c) == \/ [user |-> u, company |-> c, role |-> "company_admin"] \in members
               \/ company[u] = c /\ role[u] = "company_admin"

SlugsTaken == {slugs[u] : u \in DOMAIN slugs}

(* _build_unique_slug: the first suffix that is free. *)
FreeSlug(name, taken) == <<name, Min({n \in 0..Cardinality(taken) : <<name, n>> \notin taken})>>

Checked(q, kind, by, user, as, slug) ==
  call' = [call EXCEPT ![q] =
    [pc |-> "checked", kind |-> kind, by |-> by, user |-> user, role |-> as, slug |-> slug, none |-> company[user] = None]]

RowsKept == UNCHANGED <<company, role, members, slugs, branches>>

(* create_company *)
Found(q, u, name) ==
  /\ call[q] = Idle
  /\ company[u] = None /\ u \notin DOMAIN slugs
  /\ Checked(q, "found", u, u, "company_admin", FreeSlug(name, SlugsTaken))
  /\ RowsKept

(* add_member, in a role of the request; that of the user's row is kept.     *)
Invite(q, admin, u, as) ==
  /\ call[q] = Idle
  /\ \E c \in DOMAIN slugs :
       /\ Admin(admin, c) /\ ~Joined(u) /\ company[u] \in {None, c}
       /\ Checked(q, "invite", c, u, as, <<>>)
  /\ RowsKept

(* create_branch asks the user's row, not the membership.                    *)
Branch(q, u, name) ==
  /\ call[q] = Idle
  /\ Cardinality(branches) < MaxBranches
  /\ company[u] # None /\ role[u] = "company_admin"
  /\ Checked(q, "branch", company[u], u, "-",
       FreeSlug(name, {b[2] : b \in {x \in branches : x[1] = company[u]}}))
  /\ RowsKept

Violates_SlugOnly(k) ==                                                   \* mutant
  k.kind = "found" /\ k.slug \in SlugsTaken
(* The constraints. *)
Violates(k) ==
  CASE k.kind = "found"  -> k.slug \in SlugsTaken \/ Joined(k.user)
    [] k.kind = "invite" -> Joined(k.user)
    [] OTHER             -> <<k.by, k.slug>> \in branches

(* The transaction, or its rollback. A column is written when it changed for *)
(* the request: a user without a company gets one.                           *)
Commit(q) ==
  /\ call[q] # Idle
  /\ call' = [call EXCEPT ![q] = Idle]
  /\ LET k == call[q]
         joins == k.kind \in {"found", "invite"}
     IN  IF Violates(k) THEN RowsKept
         ELSE /\ company' = IF joins /\ k.none THEN [company EXCEPT ![k.user] = k.by] ELSE company
              /\ role' = IF k.kind = "found" THEN [role EXCEPT ![k.user] = "company_admin"] ELSE role
              /\ members' = IF ~joins THEN members
                            ELSE members \cup {[user |-> k.user, company |-> k.by, role |-> k.role]}
              /\ slugs' = IF k.kind # "found" THEN slugs
                          ELSE [u \in DOMAIN slugs \cup {k.user} |-> IF u = k.user THEN k.slug ELSE slugs[u]]
              /\ branches' = IF k.kind = "branch" THEN branches \cup {<<k.by, k.slug>>} ELSE branches

Fail(q) == call[q] # Idle /\ call' = [call EXCEPT ![q] = Idle] /\ RowsKept

Next ==
  \E q \in Calls :
    \/ \E u \in Users, n \in Names : Found(q, u, n) \/ Branch(q, u, n)
    \/ \E a, u \in Users, r \in {"company_admin", "member"} : Invite(q, a, u, r)
    \/ Commit(q) \/ Fail(q)

-----------------------------------------------------------------------------
(* However companies are founded and members added together: a user belongs  *)
(* to one company at most, users.company_id says which, and its founder      *)
(* administers it; no company is without its founder, no slug is there twice.*)
TenantsAgree ==
  /\ \A u \in Users : Cardinality({m \in members : m.user = u}) =< 1
  /\ {<<m.user, m.company>> : m \in members} = {<<u, company[u]>> : u \in {x \in Users : company[x] # None}}
  /\ \A u \in DOMAIN slugs : company[u] = u /\ Admin(u, u)
  /\ \A u, v \in DOMAIN slugs : slugs[u] = slugs[v] => u = v
=============================================================================
