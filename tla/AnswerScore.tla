---------------------------- MODULE AnswerScore ----------------------------
(***************************************************************************)
(* How the answers of a candidate are scored without an AI provider: the   *)
(* written answers of an AI interview by their length                      *)
(* (evaluate_answers_deterministically), the choices of an assessment by   *)
(* the share that is right (submit_candidate_assessment). Scores are in    *)
(* tenths of a percent, rounded: both neighbours of a tie are allowed.     *)
(***************************************************************************)
EXTENDS Integers, FiniteSetsExt

CONSTANTS MaxQuestions,
          Lengths        \* the lengths an answer may have, in words

VARIABLES test,      \* which of the two
          answers    \* of an interview their lengths, of an assessment 1 where right, 0 where not
vars == <<test, answers>>

Given == [interview |-> Lengths, assessment |-> {0, 1}]
Questions == DOMAIN answers

Init ==
  /\ test \in DOMAIN Given
  /\ \E n \in 3..MaxQuestions : answers = [q \in 1..n |-> 0]

Answer ==
  /\ \E q \in Questions, g \in Given[test] : answers' = [answers EXCEPT ![q] = g]
  /\ UNCHANGED test

-----------------------------------------------------------------------------
RoundsTo(num, den) ==
  {q \in {num \div den, num \div den + 1} : 2 * den * q - den =< 2 * num /\ 2 * num =< 2 * den * q + den}

QuestionScore(words) ==
  CASE words = 0       -> 0
    [] words \in 1..5   -> 20
    [] words \in 6..13  -> 45
    [] words \in 14..44 -> 80
    [] OTHER           -> 92

InterviewScores(a) ==
  RoundsTo(10 * MapThenSumSet(LAMBDA q : QuestionScore(a[q]), DOMAIN a), Cardinality(DOMAIN a))

InterviewLabel(score) ==
  CASE score >= 850        -> "strong_hire"
    [] score \in 700..849  -> "hire"
    [] score \in 500..699  -> "hold"
    [] OTHER               -> "no_hire"

AssessmentScores(a) == RoundsTo(1000 * Cardinality({q \in DOMAIN a : a[q] = 1}), Cardinality(DOMAIN a))
Passed(score) == score >= 600

Scores(a) == IF test = "interview" THEN InterviewScores(a) ELSE AssessmentScores(a)

-----------------------------------------------------------------------------
(* Of every step: a longer answer never lowers the score of the interview,   *)
(* nor one more right choice that of the assessment.                         *)
MoreNeverHurts ==
  (\A q \in Questions : answers'[q] >= answers[q]) =>
    \A old \in Scores(answers) : \E new \in Scores(answers') : new >= old

(* A strong hire has answered every question of the interview with more than *)
(* a few words, and of the four questions of the fallback bank none is left  *)
(* out by whoever is recommended at all. (With seven questions the first     *)
(* would not hold, with five the second.) An assessment is passed by whoever *)
(* has three fifths right and by nobody else.                                *)
HireAnsweredAll ==
  \A t \in Scores(answers) :
    /\ test = "interview" =>
         /\ InterviewLabel(t) = "strong_hire" => \A q \in Questions : answers[q] >= 14
         /\ Questions \subseteq 1..4 /\ InterviewLabel(t) \in {"strong_hire", "hire"} =>
              \A q \in Questions : answers[q] > 0
    /\ test = "assessment" =>
         (Passed(t) <=> 5 * Cardinality({q \in Questions : answers[q] = 1}) >= 3 * Cardinality(Questions))
=============================================================================
