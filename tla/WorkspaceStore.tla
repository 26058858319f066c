--------------------------- MODULE WorkspaceStore ---------------------------
(***************************************************************************)
(* One workspace of services/organization_service.py: a JSON file that     *)
(* each change reads, alters and writes again. "with self._lock" is a lock *)
(* of the store object, and api/workspace.py makes a store per request: it *)
(* keeps nobody out, so no lock is modelled.                               *)
(*                                                                         *)
(* open(path, "w") truncates; the text is flushed when the file is closed. *)
(* A reader in between finds no JSON and takes the workspace for missing.  *)
(***************************************************************************)
EXTENDS Integers, FiniteSets

CONSTANTS
  Requests,    \* concurrent API calls
  Items,       \* saved filters, candidate lists, widgets, recruiters' preferences
  Recruiters,  \* the items that are preferences, under the recruiter's id
  Calls        \* calls the requests make

(* A file holds items with the revision of each, or is no workspace.         *)
NoFile     == [file |-> "absent"]
Truncated  == [file |-> "empty"]
Torn       == [file |-> "torn"]
Stored(c)  == [file |-> "json", items |-> c]

(* OrganizationService hands each call to the store. Filters, lists and      *)
(* widgets are added (with a new id), updated, deleted, listed and got in    *)
(* the same way; preferences are only set and got; "touch" renames the       *)
(* workspace, "remove" deletes it.                                           *)
Mutations == {"add", "update", "delete", "touch", "prefer"}
Reads     == {"list", "get", "preferences"}
ForItem(call, i) == call \in {"prefer", "preferences"} <=> i \in Recruiters

VARIABLES
  disk,    \* the workspace file
  req,     \* request -> [pc, call, item, data, answer, overlapped]
  truth,   \* history: the items the answered changes leave, in the order they wrote
  doubt    \* history: the items whose last change overlapped another change
vars == <<disk, req, truth, doubt>>

Init ==
  /\ disk = Stored(<<>>) /\ truth = <<>> /\ doubt = {}
  /\ req \in [Requests -> {q \in [pc : {"new"}, call : Calls, item : Items, data : {<<>>}, answer : {"-"},
                                  overlapped : {FALSE}] : ForItem(q.call, q.item)}]
  /\ \A q, r \in Requests : q # r /\ req[q].call = "add" /\ req[r].call = "add" => req[q].item # req[r].item

Goes(r, pc) == req' = [req EXCEPT ![r].pc = pc]
Answers(r, a) == req' = [req EXCEPT ![r].pc = "done", ![r].answer = a]

(* A change between its read of the file and its answer. One that starts, or *)
(* a removal, overlaps those that are under way, and they overlap it.        *)
Busy(r) == req[r].pc \in {"missing", "save", "open", "write", "unlinked"}
Overlaps(r) == \E q \in Requests : Busy(q)
Overlapping(q, r) == req[q].overlapped \/ IF q = r THEN Overlaps(r) ELSE Busy(q)

(* get_workspace *)
Readable == disk.file = "json"

(* update_workspace, _mutate_workspace_collection, set_recruiter_preferences:*)
(* the workspace is read and altered in memory ...                           *)
With(c, i, rev) == [x \in DOMAIN c \cup {i} |-> IF x = i THEN rev ELSE c[x]]
Altered(c, call, i) ==
  CASE call = "add"    -> With(c, i, 0)
    [] call \in {"update", "prefer"} -> With(c, i, 1)
    [] call = "delete" -> [x \in DOMAIN c \ {i} |-> c[x]]
    [] OTHER           -> c

(* The request goes on with what it read, and is marked with those it meets. *)
Reading(r, pc, data) ==
  req' = [q \in Requests |->
    [req[q] EXCEPT !.overlapped = Overlapping(q, r), !.pc = IF q = r THEN pc ELSE @,
                   !.data = IF q = r THEN data ELSE @]]

Load_OrEmpty(r) ==                                                   \* mutant
  /\ req[r].pc = "new" /\ req[r].call \in Mutations
  /\ Reading(r, "open", Altered(IF Readable THEN disk.items ELSE <<>>, req[r].call, req[r].item))
  /\ UNCHANGED <<disk, truth, doubt>>

Load(r) ==
  /\ req[r].pc = "new" /\ req[r].call \in Mutations
  /\ IF Readable /\ (req[r].call \in {"update", "delete"} => req[r].item \in DOMAIN disk.items)
       THEN Reading(r, "save", Altered(disk.items, req[r].call, req[r].item))
       ELSE Reading(r, "missing", <<>>)
  /\ UNCHANGED <<disk, truth, doubt>>

Missing(r) ==
  /\ req[r].pc = "missing" /\ Answers(r, "not_found")
  /\ UNCHANGED <<disk, truth, doubt>>

(* ... _save_workspace gives up if the file is gone (the item is answered    *)
(* all the same) ...                                                         *)
Save(r) ==
  /\ req[r].pc = "save"
  /\ IF disk = NoFile THEN Answers(r, IF req[r].call = "touch" THEN "not_found" ELSE "ok")
     ELSE Goes(r, "open")
  /\ UNCHANGED <<disk, truth, doubt>>

(* ... opens it, which makes it anew if it was removed since ...             *)
Open(r) ==
  /\ req[r].pc = "open"
  /\ disk' = Truncated
  /\ Goes(r, "write") /\ UNCHANGED <<truth, doubt>>

(* ... and the text is written over whatever another writer put there since. *)
Changed(r) == IF req[r].call = "touch" THEN {} ELSE {req[r].item}

Write(r) ==
  /\ req[r].pc = "write"
  /\ disk' \in IF disk = Truncated THEN {Stored(req[r].data)} ELSE {Stored(req[r].data), Torn}
  /\ truth' = Altered(truth, req[r].call, req[r].item)
  /\ doubt' = IF req[r].overlapped THEN doubt \cup Changed(r) ELSE doubt \ Changed(r)
  /\ Answers(r, "ok")

(* A writer whose file was removed writes into nothing. *)
WriteLost(r) ==
  /\ req[r].pc = "unlinked" /\ Answers(r, "ok")
  /\ UNCHANGED <<disk, truth, doubt>>

(* delete_workspace *)
Remove(r) ==
  /\ req[r].pc = "new" /\ req[r].call = "remove"
  /\ disk' = NoFile
  /\ req' = [q \in Requests |->
       [req[q] EXCEPT !.overlapped = Overlapping(q, r), !.answer = IF q = r THEN "ok" ELSE @,
                      !.pc = IF q = r THEN "done" ELSE IF @ = "write" THEN "unlinked" ELSE @]]
  /\ UNCHANGED <<truth, doubt>>

(* The reads: of a workspace that is not readable a list is empty, an item   *)
(* not found, and the preferences of a recruiter are {}, as of one who has   *)
(* none, which the response's schema refuses.                                *)
Found(i) == Readable /\ i \in DOMAIN disk.items

List(r) ==
  /\ req[r].pc = "new" /\ req[r].call = "list"
  /\ Answers(r, IF Readable THEN "ok" ELSE "empty")
  /\ UNCHANGED <<disk, truth, doubt>>

Get(r) ==
  /\ req[r].pc = "new" /\ req[r].call = "get"
  /\ Answers(r, IF Found(req[r].item) THEN "ok" ELSE "not_found")
  /\ UNCHANGED <<disk, truth, doubt>>

Preferences(r) ==
  /\ req[r].pc = "new" /\ req[r].call = "preferences"
  /\ Answers(r, IF Found(req[r].item) THEN "ok" ELSE "error")
  /\ UNCHANGED <<disk, truth, doubt>>

Step(r) ==
  Load(r) \/ Missing(r) \/ Save(r) \/ Open(r) \/ Write(r) \/ WriteLost(r) \/ Remove(r)
  \/ List(r) \/ Get(r) \/ Preferences(r)

Next == \E r \in Requests : Step(r)

-----------------------------------------------------------------------------
Removed == \E r \in Requests : req[r].call = "remove" /\ req[r].pc = "done"
Quiet   == \A r \in Requests : ~Busy(r)

(* Two contents say the same of the item. *)
Agree(c, d, i) ==
  /\ i \in DOMAIN c <=> i \in DOMAIN d
  /\ i \in DOMAIN d => c[i] = d[i]

(* While no change is under way and the workspace was not removed, its file  *)
(* is there, and unless it was torn, an item whose last change overlapped no *)
(* other is as that change left it, whatever changes overlapped before or    *)
(* since: those can lose each other's items only (_mutate_workspace_collection).*)
NothingElseIsLost ==
  Quiet /\ ~Removed =>
    \/ Readable /\ \A i \in Items \ doubt : Agree(disk.items, truth, i)
    \/ disk = Torn

(* Only changes that overlap tear the file.                                  *)
OverlapsTear == disk = Torn => \E q, r \in Requests : q # r /\ req[q].overlapped /\ req[r].overlapped

(* A change that overlaps no other takes the workspace for missing only if   *)
(* it was removed or torn.                                                   *)
OverlapsMissIt ==
  \A r \in Requests :
    req[r].answer = "not_found" /\ req[r].call \in {"add", "touch", "prefer"} =>
      req[r].overlapped \/ Removed \/ disk = Torn

(* A workspace removed while no change was under way is not made again.      *)
RemovedForGood ==
  \A r \in Requests :
    req[r].call = "remove" /\ req[r].answer = "ok" /\ ~req[r].overlapped => disk = NoFile
=============================================================================
