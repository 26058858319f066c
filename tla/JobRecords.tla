----------------------------- MODULE JobRecords -----------------------------
(***************************************************************************)
(* A job and the intelligence derived from its description: services/job   *)
(* commits the job, reads it back, asks the AI provider, and commits the   *)
(* intelligence; the resume_intelligence handler notes the latest match in *)
(* the same JSON column, from the value it loaded before its own work.     *)
(* The provider's client never fails: without an answer it returns none,   *)
(* and blank intelligence replaces what was there.                         *)
(***************************************************************************)
EXTENDS Integers, FiniteSets

CONSTANTS
  Calls,      \* API calls and handlers under way together
  Replies,    \* [years, more, plus, words]: what the provider says of a description:
              \* the numbers of years it names, whether more than one, a plus, words
  MaxText,    \* bound: revisions of title and description
  MaxMatches, \* bound: matches noted, and updates of other fields
  MaxFaults   \* bound: calls that die half-way

NoJob     == [text |-> 0]
NoIntel   == [of |-> 0]
Open      == -1
NoRange   == [minimum |-> Open, maximum |-> Open]
Nothing   == [years |-> {}, more |-> FALSE, plus |-> FALSE, words |-> {}]
Levels    == <<"intern", "junior", "mid", "senior", "lead", "staff", "principal", "manager", "director", "executive">>

VARIABLES
  post,     \* the row: [text, intel], NoJob before and after
  made,     \* a job was created
  call,     \* call -> [kind, pc, text, intel]
  matches, faults,
  loose     \* history: calls overlapped, or one died, since the last edit that ran alone
vars == <<post, made, call, matches, faults, loose>>

Idle == [kind |-> "-", pc |-> "new", text |-> 0, intel |-> NoIntel]

Init ==
  /\ post = NoJob /\ made = FALSE
  /\ call = [c \in Calls |-> Idle]
  /\ matches = 0 /\ faults = 0 /\ loose = FALSE

Quiet == \A c \in Calls : call[c] = Idle
Exists == post # NoJob
Done(c) == call' = [call EXCEPT ![c] = Idle]

(* An edit that starts alone makes up for what was missed before.            *)
Starts(c, q) ==
  /\ call[c] = Idle
  /\ call' = [call EXCEPT ![c] = [Idle EXCEPT !.kind = q.kind, !.pc = q.pc, !.intel = q.intel]]
  /\ loose' = (~Quiet \/ (loose /\ q.kind # "edit"))

-----------------------------------------------------------------------------
(* create_job: committed first ...                                           *)
Create(c) ==
  /\ ~made /\ made' = TRUE
  /\ \E t \in 1..MaxText : post' = [text |-> t, intel |-> NoIntel]
  /\ Starts(c, [kind |-> "edit", pc |-> "refresh", intel |-> NoIntel])
  /\ UNCHANGED <<matches, faults>>

(* ... update_job with another title or description ...                      *)
Edit(c) ==
  /\ Exists /\ post.text < MaxText
  /\ post' = [post EXCEPT !.text = @ + 1]
  /\ Starts(c, [kind |-> "edit", pc |-> "refresh", intel |-> NoIntel])
  /\ UNCHANGED <<made, matches, faults>>

(* ... or with neither ...                                                   *)
Update(c) ==
  /\ Exists /\ matches < MaxMatches /\ matches' = matches + 1
  /\ Starts(c, [kind |-> "other", pc |-> "refresh", intel |-> NoIntel])
  /\ UNCHANGED <<post, made, faults>>

(* ... is read back, and if the job has no intelligence or may need a new    *)
(* one, that is built from what was read.                                    *)
Rebuilds(c) == call[c].kind = "edit" \/ post.intel = NoIntel

Refresh(c) ==
  /\ call[c].pc = "refresh"
  /\ IF Exists /\ Rebuilds(c)
       THEN call' = [call EXCEPT ![c].pc = "store", ![c].text = post.text]
       ELSE Done(c)
  /\ UNCHANGED <<post, made, matches, faults, loose>>

(* _parse_experience_range, _normalize_seniority: a number that stands alone *)
(* is exact unless there is a plus, and "5-5+" names two numbers; the first  *)
(* level of the list the text contains.                                      *)
Least(s)    == CHOOSE n \in s : \A k \in s : n <= k
Greatest(s) == CHOOSE n \in s : \A k \in s : n >= k
ExperienceRange(r) ==
  IF r.years = {} THEN NoRange
  ELSE [minimum |-> Least(r.years),
        maximum |-> IF r.plus /\ ~r.more THEN Open ELSE Greatest(r.years)]

Seniority(r) ==
  LET found == {i \in DOMAIN Levels : Levels[i] \in r.words}
  IN  IF found = {} THEN "-" ELSE Levels[Least(found)]

(* build_intelligence *)
Built(text, r) == [of |-> text, range |-> ExperienceRange(r), level |-> Seniority(r), match |-> FALSE]

(* set_job_intelligence; of a job deleted meanwhile it fails. *)
Store(c) ==
  /\ call[c].pc = "store"
  /\ IF Exists THEN \E r \in Replies \cup {Nothing} : post' = [post EXCEPT !.intel = Built(call[c].text, r)]
     ELSE UNCHANGED post
  /\ Done(c) /\ UNCHANGED <<made, matches, faults, loose>>

(* The handler loads the job with the application ...                        *)
Match(c) ==
  /\ Exists /\ matches < MaxMatches /\ matches' = matches + 1
  /\ Starts(c, [kind |-> "match", pc |-> "match", intel |-> post.intel])
  /\ UNCHANGED <<post, made, faults>>

(* ... and writes the column back with the match, from what it loaded.       *)
Noted(i) == IF i = NoIntel THEN [of |-> 0, match |-> TRUE] ELSE [i EXCEPT !.match = TRUE]

NoteMatch(c) ==
  /\ call[c].pc = "match"
  /\ IF Exists THEN post' = [post EXCEPT !.intel = Noted(call[c].intel)] ELSE UNCHANGED post
  /\ Done(c) /\ UNCHANGED <<made, matches, faults, loose>>

Delete(c) ==
  /\ Exists /\ call[c] = Idle
  /\ post' = NoJob
  /\ UNCHANGED <<made, call, matches, faults, loose>>

Die(c) ==
  /\ call[c] # Idle /\ faults < MaxFaults /\ faults' = faults + 1
  /\ Done(c) /\ loose' = TRUE /\ UNCHANGED <<post, made, matches>>

Next ==
  \E c \in Calls :
    Create(c) \/ Edit(c) \/ Update(c) \/ Refresh(c) \/ Store(c) \/ Match(c) \/ NoteMatch(c) \/ Delete(c) \/ Die(c)

-----------------------------------------------------------------------------
(* Between calls a job's intelligence is of its present title and            *)
(* description, unless calls overlapped or one died since it was last edited *)
(* alone: then it stays that of an older text, or of none, until the next.   *)
IntelligenceIsCurrent ==
  Quiet /\ Exists /\ ~loose => post.intel # NoIntel /\ post.intel.of = post.text

(* A call that died leaves a job without intelligence to the next update of  *)
(* any field, until a match is noted in the empty column and passes for it.  *)
OnlyMatchesHideIt ==
  Quiet /\ Exists /\ post.intel # NoIntel /\ post.intel.of = 0 => post.intel.match /\ loose

(* What the provider says of experience is within the range stored, which is *)
(* open upwards only for a lone number with a plus.                          *)
RangeHoldsYears ==
  \A r \in Replies : LET x == ExperienceRange(r) IN
    \A n \in r.years : x.minimum <= n /\ (n <= x.maximum \/ (x.maximum = Open /\ r.plus /\ ~r.more /\ r.years = {n}))
=============================================================================
