--------------------------- MODULE CompositeScore ---------------------------
(***************************************************************************)
(* The composite hiring score of services/hiring_decision_service.py: a    *)
(* weighted mean of the stages an application has completed.               *)
(*                                                                         *)
(* Stage scores are percentages; NoScore stands for a stage that has none. *)
(* The result is rounded to one decimal and given here in tenths of a      *)
(* percent. Python rounds the binary float it computed, so a tie may go    *)
(* either way: RoundsTo accepts both neighbours.                           *)
(***************************************************************************)
EXTENDS Integers

NoScore == -1

Stages == {"fit", "assessment", "interview"}

(* Weights in percent. *)
Weight == [fit |-> 30, assessment |-> 35, interview |-> 35]

Available_NotZero(s) == {k \in Stages : s[k] \notin {NoScore, 0}}      \* mutant
Available(s) == {k \in Stages : s[k] # NoScore}

(* The sum of v over the stages that have a score.                           *)
SumAvailable(s, v) ==
  LET part == [k \in Stages |-> IF k \in Available(s) THEN v[k] ELSE 0]
  IN  part["fit"] + part["assessment"] + part["interview"]

TotalWeight(s) == SumAvailable(s, Weight)

WeightedSum(s) == SumAvailable(s, [k \in Stages |-> Weight[k] * s[k]])

(* t tenths is num/den percent, rounded. *)
RoundsTo(num, den, t) == 2 * den * t - den =< 20 * num /\ 20 * num =< 2 * den * t + den

(* calculate_composite_score: what the mean may be rounded to. *)
Composites(s) ==
  IF Available(s) = {} THEN {0}
  ELSE LET mean == (10 * WeightedSum(s)) \div TotalWeight(s)
       IN  {t \in {mean, mean + 1} : RoundsTo(WeightedSum(s), TotalWeight(s), t)}

Progress(s) ==
  CASE Available(s) = {}     -> "pending"
    [] Available(s) = Stages -> "completed"
    [] OTHER                 -> "in_progress"

Recommendation_Shifted(t) ==                                         \* mutant
  CASE t >= 700       -> "strong_hire"
    [] t \in 550..699 -> "hire"
    [] OTHER          -> "reject"

(* determine_recommendation *)
Recommendation(t) ==
  CASE t >= 850       -> "strong_hire"
    [] t \in 700..849 -> "hire"
    [] t \in 550..699 -> "review"
    [] OTHER          -> "reject"
=============================================================================
