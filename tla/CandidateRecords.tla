--------------------------- MODULE CandidateRecords ---------------------------
(***************************************************************************)
(* One candidate's row, the applications and notes that hang on it, and    *)
(* the requests and resume jobs that change them. Each loads what it works *)
(* on and writes later, by id, the columns that differ from what it loaded. *)
(*                                                                         *)
(* The database deletes applications and notes together with their         *)
(* candidate. The session does not: it takes the loaded applications away  *)
(* from the candidate first, which their NOT NULL column refuses.          *)
(***************************************************************************)
EXTENDS Integers, FiniteSets

CONSTANTS
  Calls,      \* requests of recruiters and workers
  Apps,       \* applications
  Notes,
  Statuses,   \* what a recruiter gives a candidate for a status; "new" is the default
  Stages,     \* the statuses an application gets from other services
  MaxCalls    \* bound: requests and jobs

VARIABLES
  person,   \* candidates row: [is, status]
  apps,     \* applications rows: app -> status, "none" or "gone"
  notes,    \* notes rows: note -> text, "none" or "gone"
  desk,     \* call -> [pc, op, set, saw, apps, of]: what it loaded, and for which row
  entries,  \* the audit log: what was done
  started,  \* history: calls so far
  crossed,  \* history: a call or an application came within another call
  due,      \* history: the status the calls so far give, one after the other
  passed    \* history: the status was changed under the last call that minds it

candidateVars == <<person, apps, notes, desk, entries, started, crossed, due, passed>>

Nobody == [is |-> "absent", status |-> "-"]
Gone   == [is |-> "gone", status |-> "-"]
Exists == person.is = "row"
Idle   == [pc |-> "idle", op |-> "-", set |-> "-", saw |-> "-", apps |-> <<>>, of |-> "-"]
Rows   == {a \in Apps : apps[a] \notin {"none", "gone"}}

Init ==
  /\ person = Nobody
  /\ apps = [a \in Apps |-> "none"] /\ notes = [n \in Notes |-> "none"]
  /\ desk = [c \in Calls |-> Idle]
  /\ entries = {} /\ started = 0 /\ crossed = FALSE
  /\ due = "-" /\ passed = FALSE

Alone(c) == \A d \in Calls \ {c} : desk[d].pc = "idle"
Loads(c, op, set, of) ==
  /\ desk[c].pc = "idle" /\ started < MaxCalls
  /\ started' = started + 1 /\ crossed' = (crossed \/ ~Alone(c))
  /\ desk' = [desk EXCEPT ![c] =
       [pc |-> "write", op |-> op, set |-> set, saw |-> person.status,
        apps |-> [a \in Rows |-> apps[a]], of |-> of]]
  /\ UNCHANGED <<person, apps, notes, entries, due, passed>>

(* The call ends with an audit entry, or raises and is rolled back. *)
Ends(c) == desk' = [desk EXCEPT ![c] = Idle] /\ UNCHANGED <<started, crossed>>
Audited(c, action) == entries' = entries \cup {action} /\ Ends(c)
Raises(c) == Ends(c) /\ UNCHANGED <<person, apps, notes, entries, due, passed>>
Writing(c, op) == desk[c].pc = "write" /\ desk[c].op = op

-----------------------------------------------------------------------------
(* api/candidate.py                                                          *)

Create(c, s) ==
  /\ person = Nobody /\ desk[c].pc = "idle" /\ started < MaxCalls
  /\ started' = started + 1
  /\ person' = [is |-> "row", status |-> s]
  /\ entries' = entries \cup {"created"}
  /\ due' = s /\ passed' = FALSE
  /\ UNCHANGED <<apps, notes, desk, crossed>>

Edit(c, s) == Exists /\ Loads(c, "update", s, "-")

(* A status that is set a second time is no change, and not written. *)
Written(c) == IF desk[c].set = desk[c].saw THEN person.status ELSE desk[c].set

(* update: the latest application is given the status in the session only,   *)
(* because the repository has no "session" to commit it with.                *)
Update(c) ==
  /\ Writing(c, "update")
  /\ IF ~Exists THEN Raises(c)
     ELSE /\ person' = [person EXCEPT !.status = Written(c)]
          /\ due' = desk[c].set
          /\ passed' = (desk[c].set = desk[c].saw /\ desk[c].saw # person.status)
          /\ Audited(c, "updated")
          /\ UNCHANGED <<apps, notes>>

Remove(c) == Exists /\ Loads(c, "delete", "-", "-")

(* delete: refused for the sake of the applications the request has loaded;  *)
(* the others, and all notes, go with the row.                               *)
Delete(c) ==
  /\ Writing(c, "delete")
  /\ IF DOMAIN desk[c].apps # {} THEN Raises(c)
     ELSE /\ person' = Gone
          /\ apps' = [a \in Apps |-> IF a \in Rows THEN "gone" ELSE apps[a]]
          /\ notes' = [n \in Notes |-> IF notes[n] = "none" THEN "none" ELSE "gone"]
          /\ Audited(c, "deleted") /\ UNCHANGED <<due, passed>>

-----------------------------------------------------------------------------
(* api/note.py: NoteService                                                  *)

Note(c, n) == Exists /\ notes[n] = "none" /\ Loads(c, "note", "text", n)

(* A note needs its candidate's row. *)
CreateNote(c) ==
  /\ Writing(c, "note")
  /\ IF ~Exists \/ notes[desk[c].of] # "none" THEN Raises(c)
     ELSE /\ notes' = [notes EXCEPT ![desk[c].of] = desk[c].set]
          /\ Audited(c, "note_created")
          /\ UNCHANGED <<person, apps, due, passed>>

EditNote(c, n) == notes[n] \notin {"none", "gone"} /\ Loads(c, "edit", "other", n)

UpdateNote(c) ==
  /\ Writing(c, "edit")
  /\ IF notes[desk[c].of] = "gone" THEN Raises(c)
     ELSE /\ notes' = [notes EXCEPT ![desk[c].of] = desk[c].set]
          /\ Audited(c, "note_updated")
          /\ UNCHANGED <<person, apps, due, passed>>

-----------------------------------------------------------------------------
(* An application and its resume job.                                        *)

Apply(a) ==
  /\ Exists /\ apps[a] = "none"
  /\ apps' = [apps EXCEPT ![a] = "applied"]
  /\ crossed' = (crossed \/ \E c \in Calls : desk[c].pc # "idle")
  /\ UNCHANGED <<person, notes, desk, entries, started, due, passed>>

(* Recruiters, assessments, interviews, decisions and offers give the        *)
(* application its status and leave the candidate's alone.                   *)
Move(a) ==
  /\ a \in Rows /\ \E s \in Stages : apps' = [apps EXCEPT ![a] = s]
  /\ UNCHANGED <<person, notes, desk, entries, started, crossed, due, passed>>

Analyse(c, a) == Exists /\ a \in Rows /\ Loads(c, "resume", "-", a)

(* A candidate that was new when the job loaded it takes the status the job  *)
(* has of the application, which it writes only if it changes it.            *)
Analysed(c) ==
  /\ Writing(c, "resume")
  /\ IF ~Exists \/ desk[c].of \notin Rows THEN Raises(c)
     ELSE LET seen == desk[c].apps[desk[c].of] IN
       \E s \in IF seen = "applied" THEN {"screening", "shortlisted"} ELSE {seen} :
         /\ apps' = IF s = seen THEN apps ELSE [apps EXCEPT ![desk[c].of] = s]
         /\ person' = IF desk[c].saw = "new" THEN [person EXCEPT !.status = s] ELSE person
         /\ due' = IF due = "new" THEN s ELSE due
         /\ passed' = (passed \/ (desk[c].saw = "new") # (person.status = "new"))
         /\ Ends(c) /\ UNCHANGED <<notes, entries>>

-----------------------------------------------------------------------------
Request(c) ==
  \/ Remove(c) \/ Update(c) \/ Delete(c) \/ CreateNote(c) \/ UpdateNote(c) \/ Analysed(c)
  \/ \E s \in Statuses : Create(c, s) \/ Edit(c, s)
  \/ \E n \in Notes : Note(c, n) \/ EditNote(c, n)
  \/ \E a \in Apps : Analyse(c, a)

Next == (\E c \in Calls : Request(c)) \/ \E a \in Apps : Apply(a) \/ Move(a)

-----------------------------------------------------------------------------
TypeOK ==
  /\ person.is \in {"absent", "row", "gone"} /\ started \in 0..MaxCalls
  /\ \A a \in Apps : apps[a] \in {"none", "gone", "applied", "screening", "shortlisted"} \cup Stages
  /\ \A n \in Notes : notes[n] \in {"none", "gone", "text", "other"}

(* Deleting a candidate takes an application away only if it came while the  *)
(* deletion ran; nothing is left that belongs to nobody, and no deletion is  *)
(* unrecorded.                                                               *)
DeletionIsSafe ==
  /\ (\E a \in Apps : apps[a] = "gone") => crossed
  /\ ~Exists => Rows = {} /\ \A n \in Notes : notes[n] \in {"none", "gone"}
  /\ person = Gone => "deleted" \in entries

(* A candidate has the status a recruiter last gave, or where that was "new" *)
(* the one the first resume job after it gave. Only two things come between: *)
(* a job that loaded the candidate as new and another call's change cross,   *)
(* and an update that gives what it loaded writes nothing over a change.     *)
StatusIsAccountedFor == Exists => passed \/ person.status = due
=============================================================================
