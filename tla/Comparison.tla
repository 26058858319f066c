----------------------------- MODULE Comparison -----------------------------
(***************************************************************************)
(* Several candidates side by side: compare_candidates and                 *)
(* build_hiring_analytics of services/evaluation_intelligence_engine.py.   *)
(* A candidate is known by the profile and by a hiring recommendation, if  *)
(* there is one; scores are in per cent.                                   *)
(***************************************************************************)
EXTENDS Integers, Sequences, FiniteSets, FiniteSetsExt

CONSTANTS
  Candidates,   \* how many are compared
  RecScores,    \* scores of hiring recommendations
  Years,        \* years of experience
  MaxSkills,    \* bound
  Evaluated,    \* [score, confidence] an evaluation may end with
  MaxReports    \* bound

Unknown == -1
Thin  == "insufficient_experience"
NoEdu == "missing_required_education"

VARIABLES
  pool,     \* sequence of [rec, skills, years, degree, risks]
  reports   \* sequence of [score, rec, completion]
vars == <<pool, reports>>

Init ==
  /\ pool \in [1..Candidates -> [rec : {Unknown}, skills : {1}, years : Years \cup {Unknown},
                                 degree : {FALSE}, risks : {{}, {Thin, NoEdu}}]]
  /\ reports = <<>>

Least(a, b) == IF a < b THEN a ELSE b
Cut(n) == IF n < 0 THEN 0 ELSE Least(n, 100)

-----------------------------------------------------------------------------
(* _skill_match_score, _experience_score, _education_score                   *)
SkillMatch(c)  == IF c.rec # Unknown THEN Cut(c.rec) ELSE Cut(10 * c.skills)
Experience(c) == IF c.years # Unknown THEN Cut(10 * c.years) ELSE IF Thin \in c.risks THEN 40 ELSE 60
Education(c)   == Cut((IF c.degree THEN 75 ELSE 55) - (IF NoEdu \in c.risks THEN 25 ELSE 0))
(* _overall_comparison_summary takes a missing score for 0.                  *)
Recommended(c) == IF c.rec = Unknown THEN 0 ELSE c.rec

Dimensions == {"skills", "experience", "education", "recommendation"}
Score(d, c) ==
  CASE d = "skills" -> SkillMatch(c) [] d = "experience" -> Experience(c)
    [] d = "education" -> Education(c) [] OTHER -> Recommended(c)

(* _comparison_dimension_payload: of the best the first in the list.         *)
Leader(d) ==
  CHOOSE i \in DOMAIN pool :
    /\ \A k \in DOMAIN pool : Score(d, pool[k]) <= Score(d, pool[i])
    /\ \A k \in 1..(i - 1) : Score(d, pool[k]) < Score(d, pool[i])

(* What can be learned to a candidate's advantage.                           *)
Changed(i, c) == pool' = [pool EXCEPT ![i] = c] /\ UNCHANGED reports
Improve ==
  \E i \in DOMAIN pool : LET c == pool[i] IN
    \/ \E s \in RecScores : s > c.rec /\ Changed(i, [c EXCEPT !.rec = s])
    \/ c.skills < MaxSkills /\ Changed(i, [c EXCEPT !.skills = @ + 1])
    \/ \E y \in Years : y > c.years /\ Changed(i, [c EXCEPT !.years = y])
    \/ Changed(i, [c EXCEPT !.degree = TRUE])
    \/ \E r \in c.risks : Changed(i, [c EXCEPT !.risks = @ \ {r}])

-----------------------------------------------------------------------------
(* _recommend: thresholds and least confidence of ScorePolicy.               *)
Recommend(e) ==
  IF e.score >= 80 /\ e.confidence >= 45 THEN "hire"
  ELSE IF e.score >= 68 THEN "strong_hold" ELSE IF e.score >= 50 THEN "hold" ELSE "reject"

Evaluate ==
  /\ Len(reports) < MaxReports
  /\ \E e \in Evaluated, done \in {0, 100} :
       reports' = Append(reports, [score |-> e.score, rec |-> Recommend(e), completion |-> done])
  /\ UNCHANGED pool

Next == Improve \/ Evaluate

(* build_hiring_analytics *)
Bucket(s) == IF s < 50 THEN "0-49" ELSE IF s < 70 THEN "50-69" ELSE IF s < 85 THEN "70-84" ELSE "85-100"
Count(P(_)) == Cardinality({n \in DOMAIN reports : P(reports[n])})
ScoreDistribution == [b \in {"0-49", "50-69", "70-84", "85-100"} |-> Count(LAMBDA r : Bucket(r.score) = b)]
RecommendationDistribution ==
  [l \in {"hire", "strong_hold", "hold", "reject"} |-> Count(LAMBDA r : r.rec = l)]
Total(field) == FoldSet(LAMBDA n, sum : sum + reports[n][field], 0, DOMAIN reports)
Average(field) == IF reports = <<>> THEN 0 ELSE Total(field) \div Len(reports)

-----------------------------------------------------------------------------
(* Who learns something good falls in no dimension, except that years known  *)
(* at last may be fewer than the 6 (4 if thought too few) assumed, and a     *)
(* first recommendation may be below the count of skills it replaces; and    *)
(* only who has risen takes a lead over. Checked for every step.             *)
Assumed(c) == IF Thin \in c.risks THEN 40 ELSE 60
GoodNewsNeverHurts ==
  LET moved == {i \in DOMAIN pool : pool'[i] # pool[i]} IN
    \A d \in Dimensions : \A i \in moved : LET c == pool[i] IN
      \/ Score(d, pool'[i]) >= Score(d, c) /\ Leader(d)' \in {Leader(d), i}
      \/ d = "experience" /\ c.years = Unknown /\ 10 * pool'[i].years < Assumed(c)
      \/ d = "skills" /\ c.rec = Unknown /\ pool'[i].rec < Cut(10 * c.skills)

(* The analytics count every report once by score and once by verdict, the   *)
(* two agree on who is rejected, and only the upper buckets hold hires.      *)
AnalyticsAgree ==
  LET s == ScoreDistribution  r == RecommendationDistribution IN
    /\ s["0-49"] + s["50-69"] + s["70-84"] + s["85-100"] = Len(reports)
    /\ r["hire"] + r["strong_hold"] + r["hold"] + r["reject"] = Len(reports)
    /\ r["reject"] = s["0-49"]
    /\ r["hire"] <= s["70-84"] + s["85-100"]
    /\ r["hold"] <= s["50-69"]
    /\ \A f \in {"score", "completion"} : Average(f) \in 0..100
=============================================================================
