---------------------------- MODULE ResumeScore ----------------------------
(***************************************************************************)
(* The fit score the resume_intelligence job gives when no AI provider     *)
(* answers (job_handlers/resume_intelligence.py, CandidateRankingEngine    *)
(* and ResumeAnalysisService): from the skills a resume lists and names,   *)
(* its experience and degree, and the skills the job asks for.             *)
(*                                                                         *)
(* A skill is a model value; how texts are searched is left out. Shares    *)
(* are in thousandths, which is exact but for the two roundings below.     *)
(***************************************************************************)
EXTENDS Integers, FiniteSets

CONSTANTS
  Skills,
  Others,       \* numbers of skills listed, or words taken, that no job asks for
  Experience    \* numbers of experience entries

VARIABLES
  resume,   \* [listed, others, named, early, words, entries, degree]
  asked     \* [known, described]: from job_intelligence, from the description
vars == <<resume, asked>>

Degrees == {0, 100, 150, 200}  \* _score_education: none, any, bachelor, master

(* _extract_skills_heuristic: the entries of the "Skills:" sections; in a    *)
(* text without any, its first thirty words, of which "early" are skills.    *)
Section(r)   == r.listed # {} \/ r.others > 0
Technical(r) == IF Section(r) THEN r.listed ELSE r.early
Entries(r)   == IF Section(r) THEN Cardinality(r.listed) + r.others ELSE Cardinality(r.early) + r.words

Init ==
  /\ resume \in [listed : {{}}, others : {0}, named : {{}}, early : {{}}, words : Others, entries : {0}, degree : {0}]
  /\ asked \in [known : SUBSET Skills, described : SUBSET Skills]

(* An edition of the resume says more than the one before. A skill that is   *)
(* listed is in the text; which words come first may change with any edition.*)
Editions(r) ==
  {[r EXCEPT !.named = @ \cup {s}] : s \in Skills \ r.named}
  \cup {[r EXCEPT !.listed = @ \cup {s}] : s \in r.named \ r.listed}
  \cup {[r EXCEPT !.others = n] : n \in {n \in Others : n > r.others}}
  \cup {[r EXCEPT !.entries = n] : n \in {n \in Experience : n > r.entries}}
  \cup {[r EXCEPT !.degree = d] : d \in {d \in Degrees : d > r.degree}}

Gains ==
  \E r \in Editions(resume) :
    resume' \in IF Section(r) THEN {[r EXCEPT !.early = {}, !.words = 0]}
               ELSE {[r EXCEPT !.early = e, !.words = n] : e \in SUBSET r.named, n \in Others}

Next == Gains /\ UNCHANGED asked

-----------------------------------------------------------------------------
AtMost(a, b) == IF a < b THEN a ELSE b

(* num/den, rounded: both neighbours of a tie. *)
Rounded(num, den) ==
  {q \in {num \div den, num \div den + 1} : 2 * den * q - den =< 2 * num /\ 2 * num =< 2 * den * q + den}

(* match_structured_resume_to_job: the share of the described skills that is *)
(* taken for one of the resume's, in percent.                                *)
JobMatches(r, job) ==
  IF job.described = {} THEN {0}
  ELSE Rounded(100 * Cardinality(job.described \cap Technical(r)), Cardinality(job.described))

(* score_candidate *)
RankingScores(r, job) ==
  {50 * AtMost(Entries(r), 10) + 20 * AtMost(r.entries, 10) + r.degree + 2 * m
     : m \in JobMatches(r, job)}

(* What the handler takes for required: the description stands in when       *)
(* nothing is known.                                                         *)
Required(job) == IF job.known = {} THEN job.described ELSE job.known

Matched(r, job) == Cardinality(Required(job) \cap r.named)

(* execute, step 3: overall_score.                                           *)
FitScores(r, job) ==
  UNION {IF Required(job) = {} THEN Rounded(AtMost(t, 1000), 10)
         ELSE LET n == Cardinality(Required(job))
              IN  Rounded(AtMost(6000 * Matched(r, job) + 4 * t * n, 10000 * n), 100 * n)
           : t \in RankingScores(r, job)}

NormalizeRecommendation(score) ==
  CASE score >= 80      -> "strongly_recommend"
    [] score \in 65..79 -> "recommend"
    [] score \in 50..64 -> "neutral"
    [] OTHER            -> "reject"

(* Step 4: the status an application in "applied" goes to.                   *)
StatusFor(score) == IF score >= 75 THEN "shortlisted" ELSE "screening"

-----------------------------------------------------------------------------
(* Of every step: a resume with a skills section that says more about the    *)
(* same person never scores lower. (Without one the first words stand for    *)
(* the skills: there the first skill that is listed can cost points.)        *)
GainsNeverHurt ==
  Section(resume) => \A old \in FitScores(resume, asked) : \E new \in FitScores(resume', asked') : new >= old

(* Nobody without a single required skill is shortlisted by the fallback,    *)
(* and whoever is shortlisted is recommended.                                *)
ShortlistFollowsSkills ==
  \A t \in FitScores(resume, asked) :
    /\ t \in 0..100
    /\ StatusFor(t) = "shortlisted" =>
         /\ NormalizeRecommendation(t) \in {"recommend", "strongly_recommend"}
         /\ Required(asked) # {} => Matched(resume, asked) > 0
=============================================================================
