---------------------------- MODULE PublicApply ----------------------------
(***************************************************************************)
(* services/public_apply.py: one person applies, by a public form, to jobs *)
(* of the careers page, perhaps twice at a time. The resume is a file, the *)
(* candidate and the application are rows of one transaction, the job that *)
(* reads the resume is a second transaction.                               *)
(*                                                                         *)
(* The candidate's row (its unique e-mail when it is new) is locked from   *)
(* the flush to the end of the transaction.                                *)
(***************************************************************************)
EXTENDS Integers, FiniteSets

CONSTANTS
  Forms,      \* submissions of the form, each with a file of its own
  Jobs,       \* jobs of the company
  MaxErrors   \* bound: failing statements, lost answers, dying processes

Nobody == "nobody"    \* no row
Staff  == "staff"     \* a row made by the company, with a file of its own

VARIABLES
  open,     \* jobs that take applications
  files,    \* forms whose file is stored
  cand,     \* whose file the candidate's row names
  apps,     \* apps[j]: whose application to j is stored
  queued,   \* jobs whose application has its resume_intelligence job
  holder,   \* the transaction that locks the candidate
  form,     \* form -> [pc, job, known]
  errors
vars == <<open, files, cand, apps, queued, holder, form, errors>>

Init ==
  /\ open = Jobs /\ files = {} /\ cand \in {Nobody, Staff} /\ apps = [j \in Jobs |-> Nobody]
  /\ queued = {} /\ holder = Nobody /\ errors = 0
  /\ form = [r \in Forms |-> [pc |-> "new", job |-> CHOOSE j \in Jobs : TRUE, known |-> FALSE]]

Goes(r, pc) == form' = [form EXCEPT ![r].pc = pc]
Taken(r)    == apps[form[r].job] # Nobody

(* submit_application: the job is looked up once, then the file is stored.   *)
Upload(r, j) ==
  /\ form[r].pc = "new"
  /\ IF j \in open
       THEN files' = files \cup {r} /\ form' = [form EXCEPT ![r].pc = "stored", ![r].job = j]
       ELSE Goes(r, "failed") /\ UNCHANGED files
  /\ UNCHANGED <<open, cand, apps, queued, holder, errors>>

(* get_by_email *)
Look(r) ==
  /\ form[r].pc = "stored"
  /\ form' = [form EXCEPT ![r].pc = "looked", ![r].known = cand # Nobody]
  /\ UNCHANGED <<open, files, cand, apps, queued, holder, errors>>

Removed_OnDuplicate(r, why) == IF why = "duplicate" THEN files \ {r} ELSE files     \* mutant
Removed(r, why) == files \ {r}

(* Rollback, then submit_application removes the file.                       *)
Fail(r, why) ==
  /\ Goes(r, "failed")
  /\ files' = Removed(r, why)
  /\ holder' = IF holder = r THEN Nobody ELSE holder
  /\ UNCHANGED <<open, cand, apps, queued>>

(* flush: a new candidate's e-mail may have been taken since.                *)
Flush(r) ==
  /\ form[r].pc = "looked" /\ holder = Nobody
  /\ IF form[r].known \/ cand = Nobody
       THEN /\ Goes(r, "flushed") /\ holder' = r
            /\ UNCHANGED <<open, files, cand, apps, queued>>
       ELSE Fail(r, "email")
  /\ UNCHANGED errors

(* get_by_candidate_and_job *)
Check(r) ==
  /\ form[r].pc = "flushed"
  /\ IF Taken(r) THEN Fail(r, "duplicate")
     ELSE Goes(r, "checked") /\ UNCHANGED <<open, files, cand, apps, queued, holder>>
  /\ UNCHANGED errors

(* uq_applications_candidate_job *)
Commit(r) ==
  /\ form[r].pc = "checked"
  /\ IF Taken(r) THEN Fail(r, "duplicate")
     ELSE /\ Goes(r, "committed")
          /\ cand' = r /\ apps' = [apps EXCEPT ![form[r].job] = r] /\ holder' = Nobody
          /\ UNCHANGED <<open, files, queued>>
  /\ UNCHANGED errors

(* The durable job, in a transaction of its own.                             *)
Submit(r) ==
  /\ form[r].pc = "committed"
  /\ queued' = queued \cup {form[r].job} /\ Goes(r, "ok")
  /\ UNCHANGED <<open, files, cand, apps, holder, errors>>

(* A statement of the transaction fails; the answer to the commit, or the    *)
(* refresh after it, is lost, and the file is removed all the same; the job  *)
(* cannot be submitted; the process dies.                                    *)
Error(r) ==
  /\ errors < MaxErrors /\ errors' = errors + 1
  /\ CASE form[r].pc \in {"looked", "flushed", "checked"} -> Fail(r, "error")
       [] form[r].pc = "committed" ->
            /\ \/ Goes(r, "late") /\ files' = files \ {r}
               \/ Goes(r, "unqueued") /\ UNCHANGED files
            /\ UNCHANGED <<open, cand, apps, queued, holder>>
       [] OTHER -> FALSE

Die(r) ==
  /\ errors < MaxErrors /\ errors' = errors + 1
  /\ form[r].pc \in {"stored", "looked", "flushed", "checked", "committed"}
  /\ Goes(r, "dead")
  /\ holder' = IF holder = r THEN Nobody ELSE holder
  /\ UNCHANGED <<open, files, cand, apps, queued>>

(* Meanwhile the company closes a job, or enters the application itself      *)
(* (ApplicationService.create_application).                                  *)
Close(j) ==
  /\ j \in open /\ open' = open \ {j}
  /\ UNCHANGED <<files, cand, apps, queued, holder, form, errors>>

Enter(j) ==
  /\ cand # Nobody /\ apps[j] = Nobody
  /\ apps' = [apps EXCEPT ![j] = Staff]
  /\ UNCHANGED <<open, files, cand, queued, holder, form, errors>>

Step(r) ==
  \/ \E j \in Jobs : Upload(r, j)
  \/ Look(r) \/ Flush(r) \/ Check(r) \/ Commit(r) \/ Submit(r)

Next ==
  \/ \E r \in Forms : Step(r) \/ Error(r) \/ Die(r)
  \/ \E j \in Jobs : Close(j) \/ Enter(j)

-----------------------------------------------------------------------------
(* Rows and files agree, whoever races: an application and the candidate     *)
(* name a file that is there (but for a lost answer to the commit), an       *)
(* answered applicant has the application, the file and the job that reads   *)
(* it, and a refused one leaves no file.                                     *)
ApplicationsHaveTheirResume ==
  /\ \A r \in {cand} \cup {apps[j] : j \in Jobs} :
       r \in Forms => r \in files \/ form[r].pc = "late"
  /\ \A r \in Forms :
       /\ form[r].pc = "ok" => r = apps[form[r].job] /\ r \in files /\ form[r].job \in queued
       /\ form[r].pc = "failed" => r \notin files
=============================================================================
