---------------------------- MODULE HiringScore ----------------------------
(***************************************************************************)
(* The score behind a generated hiring decision: the stored resume         *)
(* analysis of an application and the analyses of its interviews become    *)
(* the signals of services/hiring_signal_assembler.py, these the           *)
(* evaluation of services/evaluation_intelligence_engine.py, and both the  *)
(* score and label of services/hiring_recommendation.py.                   *)
(*                                                                         *)
(* Scores of an analysis are percentages. A fraction is kept as an integer *)
(* number of 1/10^4 ("bp") or 1/10^6 ("ppm"). Where Python rounds a binary *)
(* float both neighbours of a tie are allowed.                             *)
(***************************************************************************)
EXTENDS Integers, Sequences, FiniteSetsExt, SequencesExt

Scores == {"overall", "skills", "experience", "education", "keyword"}

VARIABLE signals  \* [overall, skills, .., keyword, confidence, missing, interviews]
vars == signals

AtMost(a, b)  == IF a < b THEN a ELSE b
AtLeast(a, b) == IF a < b THEN b ELSE a
Clamped(x, hi) == AtLeast(0, AtMost(x, hi))

(* num/den, rounded. *)
RoundsTo(num, den) ==
  {q \in {num \div den, num \div den + 1} : 2 * den * q - den =< 2 * num /\ 2 * num =< 2 * den * q + den}

(* "if x > 1.0: x = x / 100.0", of a score in bp of a percent.               *)
AsFraction(x) == IF x > 100 THEN x ELSE 100 * x

-----------------------------------------------------------------------------
(* calculate_overall_rank_score, in bp: exact.                               *)
RankWeight == [overall |-> 50, skills |-> 20, experience |-> 15, education |-> 10, keyword |-> 5]
Rank(s) == MapThenSumSet(LAMBDA k : RankWeight[k] * s[k], Scores)

(* build_performance_signal and aggregate_performance_signals, of no more    *)
(* than two interviews, where the means need no rounding.                    *)
Mean(s, F(_)) == FoldLeft(LAMBDA sum, i : sum + F(i), 0, s.interviews) \div Len(s.interviews)

(* InterviewPerformanceScorer: "completion_ratio or 1.0".                    *)
Completion(s) ==
  LET ratio == IF s.interviews = <<>> THEN 0
               ELSE Mean(s, LAMBDA i : IF i.completed THEN 10000 ELSE 0)
  IN  IF ratio = 0 THEN 10000 ELSE ratio

InterviewMean(s, F(_)) == IF s.interviews = <<>> THEN 0 ELSE Mean(s, F)

(* The scorers of the registry: [score (ppm), confidence (bp), weight (%)].  *)
(* Nothing supplies a coding assessment or a recruiter's feedback.           *)
Signals(s) ==
  [resume    |-> [score |-> 100 * AsFraction(100 * s.overall),
                  confidence |-> 4000 + 60 * s.confidence, weight |-> 25],
   interview |-> [score |-> 75 * InterviewMean(s, LAMBDA i : 100 * i.score) + 25 * Completion(s),
                  confidence |-> 4000 + 60 * InterviewMean(s, LAMBDA i : i.confidence), weight |-> 25],
   coding    |-> [score |-> 0, confidence |-> 3500, weight |-> 20],
   recruiter |-> [score |-> 550000, confidence |-> 4500, weight |-> 15],
   insights  |-> [score |-> AtLeast(0, 100 * AsFraction(Rank(s)) - AtMost(400000, 30000 * s.missing)),
                  confidence |-> 3500 + 65 * s.confidence, weight |-> 15]]

Floor == 4500   \* min_confidence and confidence_floor

(* _aggregate_score and _aggregate_confidence, in bp, as evaluate calls them. *)
Evaluations(s) ==
  LET sig == Signals(s)
      raw == MapThenSumSet(LAMBDA n : sig[n].weight * sig[n].score, DOMAIN sig)
      low == Cardinality({n \in DOMAIN sig : sig[n].confidence < Floor})
  IN  RoundsTo(Clamped(raw - AtMost(25, 8 * low) * 1000000, 100000000), 10000)

Confidences(s) ==
  LET sig == Signals(s)
  IN  RoundsTo(MapThenSumSet(LAMBDA n : sig[n].weight * sig[n].confidence, DOMAIN sig), 100)

-----------------------------------------------------------------------------
(* _risk_penalty, in ppm. A score of zero stands for "not known".            *)
Penalty(s, confidence) ==
  AtMost(350000,
    35000 * s.missing
      + (IF s.experience \in 1..49 THEN 60000 ELSE 0)
      + (IF s.education \in 1..49 THEN 40000 ELSE 0)
      + (IF confidence < Floor THEN 40000 ELSE 0))

RankCounted(s) == AsFraction(Rank(s))

(* _score_candidate: the percentages the score may be rounded to.            *)
HiringScores(s) ==
  LET known == 45 * RankCounted(s) + 15 * AsFraction(100 * s.overall)
  IN  UNION {RoundsTo(Clamped(known + 40 * e - Penalty(s, c), 1000000), 10000)
               : e \in Evaluations(s), c \in Confidences(s)}

(* _label_for_score *)
Label(score) ==
  CASE score >= 85      -> "Strong Hire"
    [] score \in 70..84 -> "Hire"
    [] score \in 55..69 -> "Consider"
    [] OTHER            -> "Reject"

(* EvaluationReportExplainer.build: which signals speak for and against.     *)
Strengths(s) == {n \in DOMAIN Signals(s) : Signals(s)[n].score >= 700000}
Concerns(s)  == {n \in DOMAIN Signals(s) : Signals(s)[n].score < 500000}

(* _derive_weaknesses_and_risks and _build_structured_risk_factors. Of the   *)
(* texts the second looks for only those two are ever written.               *)
RiskFactors(s, confidence) ==
  (IF s.missing > 0
   THEN {[code |-> "missing_mandatory_qualification", severity |-> "high"],
         [code |-> "missing_required_skill", severity |-> "high"]} ELSE {})
  \cup (IF confidence < Floor THEN {[code |-> "low_evaluation_confidence", severity |-> "medium"]} ELSE {})
  \cup {[code |-> "evaluation_concern", severity |-> "medium"] : n \in Concerns(s)}

(* _next_step_hint *)
NextStep(label, risks) ==
  CASE label = "Strong Hire" -> "offer"
    [] label = "Hire"        -> "validation interview"
    [] label = "Consider"    -> "gap assessment"
    [] OTHER -> IF \E r \in risks : r.code # "evaluation_concern" THEN "address gaps" ELSE "other role"

-----------------------------------------------------------------------------
(* The analyses change, one thing at a time.                                 *)
CONSTANTS Values,    \* Values[k]: what score k may be, in percent
          Confident, \* confidences, in percent
          Missing    \* numbers of missing skills

Interview == [score : {0, 100}, confidence : Confident, completed : BOOLEAN]

Init == signals = [overall |-> 60, skills |-> 60, experience |-> 60, education |-> 60,
                   keyword |-> 60, confidence |-> 100, missing |-> 0, interviews |-> <<>>]

Next ==
  \/ \E k \in Scores : \E v \in Values[k] : signals' = [signals EXCEPT ![k] = v]
  \/ \E c \in Confident : signals' = [signals EXCEPT !.confidence = c]
  \/ \E n \in Missing : signals' = [signals EXCEPT !.missing = n]
  \/ \E i \in Interview : signals' = [signals EXCEPT !.interviews = <<i>>]
  \/ \E i \in Interview : Len(signals.interviews) = 1 /\ signals' = [signals EXCEPT !.interviews = Append(@, i)]

-----------------------------------------------------------------------------
(* A score above 1 % is taken for a percentage, one up to 1 % for a          *)
(* fraction.                                                                 *)
Unambiguous(s) == s.overall > 1 /\ Rank(s) > 100

(* t is s with something in it better and nothing worse. A first score where *)
(* there was none is no improvement: it may be a penalised one.              *)
Better(s, t) ==
  /\ \A k \in Scores : t[k] >= s[k] /\ (s[k] = 0 => t[k] = 0 \/ k \notin {"experience", "education"})
  /\ t.confidence >= s.confidence /\ t.missing =< s.missing
  /\ \/ t.interviews = s.interviews
     \/ s.interviews = <<>> /\ Len(t.interviews) = 1
     \/ /\ Len(s.interviews) = Len(t.interviews)
        /\ \A n \in DOMAIN s.interviews : LET i == s.interviews[n]  j == t.interviews[n] IN
             j.score >= i.score /\ j.confidence >= i.confidence /\ i.completed = j.completed

(* Of every step: a better analysis, fewer missing skills, a better          *)
(* interview, or a first interview whatever its result, never lowers the     *)
(* score of a candidate.                                                     *)
BetterNeverHurts ==
  (Unambiguous(signals) /\ Better(signals, signals')) =>
    Max(HiringScores(signals)) =< Max(HiringScores(signals'))

(* Nobody is a "Strong Hire" before an interview was analysed, however good  *)
(* the resume: the interview and its confidence are missed too much; nor     *)
(* with a risk of high severity, though that costs 3.5 % only. Where neither *)
(* experience nor education costs anything, what lowered a score is among    *)
(* the risks, and whoever is told to address gaps had some lower it.         *)
StrongHireIsSound ==
  LET labels == {Label(t) : t \in HiringScores(signals)}
  IN  \A c \in Confidences(signals) :
        LET risks == RiskFactors(signals, c)
            lost  == Penalty(signals, c) > 0
        IN  /\ "Strong Hire" \in labels =>
                 /\ signals.interviews # <<>> /\ Strengths(signals) # {}
                 /\ \A r \in risks : r.severity # "high"
            /\ lost /\ signals.experience \notin 1..49 /\ signals.education \notin 1..49 =>
                 \E r \in risks : r.code # "evaluation_concern"
            /\ \A label \in labels : NextStep(label, risks) = "address gaps" => lost
=============================================================================
