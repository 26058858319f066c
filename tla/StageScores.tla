---------------------------- MODULE StageScores ----------------------------
(* The composite score as the stages of an application are scored, in any    *)
(* order and repeatedly.                                                     *)
EXTENDS CompositeScore

CONSTANT Scores   \* the scores a stage can get, in percent

VARIABLE scores

Init == scores = [k \in Stages |-> NoScore]

Next == \E k \in Stages, v \in Scores : scores' = [scores EXCEPT ![k] = v]

-----------------------------------------------------------------------------
Have == {scores[k] : k \in Stages} \ {NoScore}

(* The composite lies between the worst and the best stage that has a score, *)
(* whichever stages are missing (calculate_composite_score normalises).      *)
WithinStages ==
  Have # {} => \A t \in Composites(scores) :
                 \E lo, hi \in Have : 10 * lo =< t /\ t =< 10 * hi

(* Of every step: a better result in a stage that was already scored never   *)
(* lowers the composite (calculate_composite_score, with a zero and with     *)
(* rounding).                                                                *)
ImprovementNeverHurts ==
  \A k \in Stages :
    scores[k] # NoScore /\ scores'[k] >= scores[k] /\ (\A j \in Stages \ {k} : scores'[j] = scores[j])
      => \E t \in Composites(scores'), u \in Composites(scores) : t >= u

(* The percentages of each label.                                            *)
Band == [strong_hire |-> 85..100, hire |-> 70..84, review |-> 55..69, reject |-> 0..54]

(* Stages that are all in the band of one label give that label, whichever   *)
(* are missing and however the mean is rounded.                              *)
LabelFollowsStages ==
  Have # {} => \A t \in Composites(scores), label \in DOMAIN Band :
                 Have \subseteq Band[label] => Recommendation(t) = label
=============================================================================
