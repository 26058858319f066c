--------------------- MODULE ApplicationPipeline_proofs ---------------------
(***************************************************************************)
(* Theorems about ApplicationPipeline and the composite score it computes. *)
(* For any number of concurrent requests: the types, that no automatic     *)
(* step overwrites a recruiter's override, that the scores an application  *)
(* shows are those of its sessions, that a verdict is undone only by who   *)
(* loaded the application before it, and that an evaluated application     *)
(* misses its decision only while it is replaced. Under OneClient, one     *)
(* request at a time: that the decision is of the composite. Two requests  *)
(* may break that: a flush of what was loaded earlier writes over what the *)
(* other has committed.                                                    *)
(***************************************************************************)
EXTENDS ApplicationPipeline, FiniteSetTheorems, SequenceTheorems, TLAPS

-----------------------------------------------------------------------------
(* The composite score of calculate_composite_score and its label, for all   *)
(* percentages and whichever stages have a score. The model checker tries    *)
(* those at which the rounding and the labels change.                        *)

(* The percentages of the stages that have one.                              *)
StageScoreRows == [Stages -> {NoScore} \cup 0..100]

(* The sums are those of the stages that have a score.                       *)
LEMMA Sums ==
  ASSUME NEW s \in StageScoreRows
  PROVE  /\ TotalWeight(s) = (IF s["fit"] = NoScore THEN 0 ELSE 30)
                             + (IF s["assessment"] = NoScore THEN 0 ELSE 35)
                             + (IF s["interview"] = NoScore THEN 0 ELSE 35)
         /\ WeightedSum(s) = (IF s["fit"] = NoScore THEN 0 ELSE 30 * s["fit"])
                             + (IF s["assessment"] = NoScore THEN 0 ELSE 35 * s["assessment"])
                             + (IF s["interview"] = NoScore THEN 0 ELSE 35 * s["interview"])
         /\ \A k \in Stages : s[k] = NoScore \/ s[k] \in 0..100
         /\ Available(s) = {} <=> \A k \in Stages : s[k] = NoScore
BY DEF StageScoreRows, TotalWeight, WeightedSum, SumAvailable, Available, Stages, Weight, NoScore

(* A mean of scores between lo and hi is between lo and hi.                  *)
LEMMA SumsBetween ==
  ASSUME NEW s \in StageScoreRows, Available(s) # {}, NEW lo \in Int, NEW hi \in Int,
         \A k \in Stages : s[k] # NoScore => lo =< s[k] /\ s[k] =< hi
  PROVE  /\ TotalWeight(s) \in {30, 35, 65, 70, 100} /\ WeightedSum(s) \in Nat
         /\ lo * TotalWeight(s) =< WeightedSum(s) /\ WeightedSum(s) =< hi * TotalWeight(s)
<1> DEFINE a == s["fit"]
           b == s["assessment"]
           c == s["interview"]
<1>1. /\ a = NoScore \/ (a \in 0..100 /\ lo =< a /\ a =< hi)
      /\ b = NoScore \/ (b \in 0..100 /\ lo =< b /\ b =< hi)
      /\ c = NoScore \/ (c \in 0..100 /\ lo =< c /\ c =< hi)
      /\ ~(a = NoScore /\ b = NoScore /\ c = NoScore)
  BY Sums DEF Stages
<1>2. /\ TotalWeight(s) = (IF a = NoScore THEN 0 ELSE 30) + (IF b = NoScore THEN 0 ELSE 35)
                          + (IF c = NoScore THEN 0 ELSE 35)
      /\ WeightedSum(s) = (IF a = NoScore THEN 0 ELSE 30 * a) + (IF b = NoScore THEN 0 ELSE 35 * b)
                          + (IF c = NoScore THEN 0 ELSE 35 * c)
  BY Sums
<1> HIDE DEF a, b, c
<1>3. CASE a = NoScore
  <2>1. CASE b = NoScore
    BY <1>1, <1>2, <1>3, <2>1 DEF NoScore
  <2>2. CASE b # NoScore /\ c = NoScore
    BY <1>1, <1>2, <1>3, <2>2 DEF NoScore
  <2>3. CASE b # NoScore /\ c # NoScore
    BY <1>1, <1>2, <1>3, <2>3 DEF NoScore
  <2> QED
    BY <2>1, <2>2, <2>3
<1>4. CASE a # NoScore
  <2>1. CASE b = NoScore /\ c = NoScore
    BY <1>1, <1>2, <1>4, <2>1 DEF NoScore
  <2>2. CASE b = NoScore /\ c # NoScore
    <3>1. TotalWeight(s) = 65 /\ WeightedSum(s) = 30 * a + 35 * c
      BY <1>1, <1>2, <1>4, <2>2 DEF NoScore
    <3>2. /\ a \in 0..100 /\ c \in 0..100
          /\ lo =< a /\ a =< hi
          /\ lo =< c /\ c =< hi
      BY <1>1, <1>4, <2>2
    <3>3. lo * 65 =< 30 * a + 35 * c /\ 30 * a + 35 * c =< hi * 65 /\ 30 * a + 35 * c \in Nat
      BY <3>2
    <3> QED
      BY <3>1, <3>3
  <2>3. CASE b # NoScore /\ c = NoScore
    <3>1. TotalWeight(s) = 65 /\ WeightedSum(s) = 30 * a + 35 * b
      BY <1>1, <1>2, <1>4, <2>3 DEF NoScore
    <3>2. /\ a \in 0..100 /\ b \in 0..100
          /\ lo =< a /\ a =< hi
          /\ lo =< b /\ b =< hi
      BY <1>1, <1>4, <2>3
    <3>3. lo * 65 =< 30 * a + 35 * b /\ 30 * a + 35 * b =< hi * 65 /\ 30 * a + 35 * b \in Nat
      BY <3>2
    <3> QED
      BY <3>1, <3>3
  <2>4. CASE b # NoScore /\ c # NoScore
    <3>1. TotalWeight(s) = 100 /\ WeightedSum(s) = 30 * a + 35 * b + 35 * c
      BY <1>1, <1>2, <1>4, <2>4 DEF NoScore
    <3>2. /\ a \in 0..100 /\ b \in 0..100 /\ c \in 0..100
          /\ lo =< a /\ a =< hi
          /\ lo =< b /\ b =< hi
          /\ lo =< c /\ c =< hi
      BY <1>1, <1>4, <2>4
    <3>3. /\ lo * 100 =< 30 * a + 35 * b + 35 * c /\ 30 * a + 35 * b + 35 * c =< hi * 100
          /\ 30 * a + 35 * b + 35 * c \in Nat
      BY <3>2
    <3> QED
      BY <3>1, <3>3
  <2> QED
    BY <2>1, <2>2, <2>3, <2>4
<1> QED
  BY <1>3, <1>4

(* Rounding a quotient leaves one of the two neighbours, and at least one.   *)
LEMMA RoundingExists ==
  ASSUME NEW w \in Nat, NEW d \in {30, 35, 65, 70, 100}
  PROVE  LET mean == (10 * w) \div d
         IN  /\ mean \in Nat
             /\ RoundsTo(w, d, mean) \/ RoundsTo(w, d, mean + 1)
BY DEF RoundsTo

(* Rounding does not leave the bounds of the exact mean.                     *)
LEMMA RoundingBetween ==
  ASSUME NEW w \in Nat, NEW d \in {30, 35, 65, 70, 100}, NEW t \in Int, RoundsTo(w, d, t),
         NEW lo \in Int, NEW hi \in Int, lo * d =< w, w =< hi * d
  PROVE  10 * lo =< t /\ t =< 10 * hi
<1> USE DEF RoundsTo
<1>1. CASE d = 30
  BY <1>1
<1>2. CASE d = 35
  BY <1>2
<1>3. CASE d = 65
  BY <1>3
<1>4. CASE d = 70
  BY <1>4
<1>5. CASE d = 100
  BY <1>5
<1> QED
  BY <1>1, <1>2, <1>3, <1>4, <1>5

(* What an application with a score can have as composite.                   *)
LEMMA CompositesBetween ==
  ASSUME NEW s \in StageScoreRows, Available(s) # {}, NEW lo \in Int, NEW hi \in Int,
         \A k \in Stages : s[k] # NoScore => lo =< s[k] /\ s[k] =< hi
  PROVE  Composites(s) # {} /\ \A t \in Composites(s) : t \in Nat /\ 10 * lo =< t /\ t =< 10 * hi
<1> DEFINE w == WeightedSum(s)
           d == TotalWeight(s)
           mean == (10 * w) \div d
<1>1. w \in Nat /\ d \in {30, 35, 65, 70, 100} /\ lo * d =< w /\ w =< hi * d
  BY SumsBetween
<1>2. Composites(s) = {t \in {mean, mean + 1} : RoundsTo(w, d, t)}
  BY DEF Composites
<1> HIDE DEF w, d
<1>3. mean \in Nat /\ (RoundsTo(w, d, mean) \/ RoundsTo(w, d, mean + 1))
  BY <1>1, RoundingExists
<1> HIDE DEF mean
<1> QED
  BY <1>1, <1>2, <1>3, RoundingBetween

(* The composite is a percentage with one decimal, and there is always one.  *)
THEOREM CompositeIsPercentage ==
  ASSUME NEW s \in StageScoreRows
  PROVE  Composites(s) # {} /\ Composites(s) \subseteq 0..1000
<1>1. CASE Available(s) = {}
  BY <1>1 DEF Composites
<1>2. CASE Available(s) # {}
  <2>1. \A k \in Stages : s[k] # NoScore => 0 =< s[k] /\ s[k] =< 100
    BY Sums
  <2>2. Composites(s) # {} /\ \A t \in Composites(s) : t \in Nat /\ 10 * 0 =< t /\ t =< 10 * 100
    BY <1>2, <2>1, CompositesBetween
  <2> QED
    BY <2>2
<1> QED
  BY <1>1, <1>2

(* Of the stages that have a score, one is the worst and one the best.       *)
LEMMA WorstAndBest ==
  ASSUME NEW s, NEW A \in SUBSET Stages, A # {}, \A k \in A : s[k] \in Int
  PROVE  /\ \E j \in A : \A i \in A : s[j] =< s[i]
         /\ \E k \in A : \A i \in A : s[i] =< s[k]
<1> DEFINE a == s["fit"]
           b == s["assessment"]
           c == s["interview"]
<1>1. \A i \in A : i \in {"fit", "assessment", "interview"}
  BY DEF Stages
<1>2. CASE A = {"fit", "assessment", "interview"}
  <2>1. a \in Int /\ b \in Int /\ c \in Int
    BY <1>2
  <2>2. /\ (a =< a /\ a =< b /\ a =< c) \/ (b =< a /\ b =< b /\ b =< c) \/ (c =< a /\ c =< b /\ c =< c)
        /\ (a =< a /\ b =< a /\ c =< a) \/ (a =< b /\ b =< b /\ c =< b) \/ (a =< c /\ b =< c /\ c =< c)
    BY <2>1
  <2> QED
    BY <1>2, <2>2
<1>3. CASE \E x, y \in A : A = {x, y}
  <2>1. PICK x \in A, y \in A : A = {x, y}
    BY <1>3
  <2>2. s[x] \in Int /\ s[y] \in Int
    BY <2>1
  <2>3. s[x] =< s[x] /\ s[y] =< s[y] /\ (s[x] =< s[y] \/ s[y] =< s[x])
    BY <2>2
  <2> QED
    BY <2>1, <2>3
<1>4. A = {"fit", "assessment", "interview"} \/ \E x, y \in A : A = {x, y}
  <2>1. CASE "fit" \notin A
    BY <1>1, <2>1
  <2>2. CASE "assessment" \notin A
    BY <1>1, <2>2
  <2>3. CASE "interview" \notin A
    BY <1>1, <2>3
  <2>4. CASE "fit" \in A /\ "assessment" \in A /\ "interview" \in A
    BY <1>1, <2>4
  <2> QED
    BY <2>1, <2>2, <2>3, <2>4
<1> QED
  BY <1>2, <1>3, <1>4

(* calculate_composite_score normalises over the stages that have a score:   *)
(* the composite lies between the worst and the best of them, whichever are  *)
(* missing and however the mean is rounded.                                  *)
THEOREM CompositeWithinStages ==
  ASSUME NEW s \in StageScoreRows, NEW t \in Composites(s), Available(s) # {}
  PROVE  \E j, k \in Available(s) : 10 * s[j] =< t /\ t =< 10 * s[k]
<1>1. \A k \in Stages : s[k] = NoScore \/ s[k] \in 0..100
  BY Sums
<1>2. Available(s) \subseteq Stages /\ \A k \in Stages : k \in Available(s) <=> s[k] # NoScore
  BY DEF Available
<1>3. /\ \E j \in Available(s) : \A i \in Available(s) : s[j] =< s[i]
      /\ \E k \in Available(s) : \A i \in Available(s) : s[i] =< s[k]
  <2>1. Available(s) \in SUBSET Stages /\ \A k \in Available(s) : s[k] \in Int
    BY <1>1, <1>2
  <2> HIDE DEF Available
  <2> QED
    BY <2>1, WorstAndBest
<1>4. PICK j \in Available(s) : \A i \in Available(s) : s[j] =< s[i]
  BY <1>3
<1>5. PICK k \in Available(s) : \A i \in Available(s) : s[i] =< s[k]
  BY <1>3
<1>6. s[j] \in Int /\ s[k] \in Int
  BY <1>1, <1>2
<1>7. \A i \in Stages : s[i] # NoScore => s[j] =< s[i] /\ s[i] =< s[k]
  BY <1>2, <1>4, <1>5
<1>8. 10 * s[j] =< t /\ t =< 10 * s[k]
  BY <1>6, <1>7, CompositesBetween
<1> QED
  BY <1>8

(* The percentages of each label.                                            *)
Band == [strong_hire |-> 85..100, hire |-> 70..84, review |-> 55..69, reject |-> 0..54]

(* determine_recommendation: an application whose stages are all in the band *)
(* of one label gets that label, whichever stages are missing and however    *)
(* the mean is rounded.                                                      *)
THEOREM LabelFollowsStages ==
  ASSUME NEW s \in StageScoreRows, NEW t \in Composites(s), Available(s) # {},
         NEW label \in DOMAIN Band, \A k \in Available(s) : s[k] \in Band[label]
  PROVE  Recommendation(t) = label
<1>1. \A k \in Stages : s[k] = NoScore \/ k \in Available(s)
  BY DEF Available
<1>2. CASE label = "strong_hire"
  <2>1. \A k \in Stages : s[k] # NoScore => 85 =< s[k] /\ s[k] =< 100
    BY <1>1, <1>2 DEF Band
  <2>2. t \in Nat /\ 850 =< t
    BY <2>1, CompositesBetween
  <2> QED
    BY <1>2, <2>2 DEF Recommendation
<1>3. CASE label = "hire"
  <2>1. \A k \in Stages : s[k] # NoScore => 70 =< s[k] /\ s[k] =< 84
    BY <1>1, <1>3 DEF Band
  <2>2. t \in Nat /\ 700 =< t /\ t =< 840
    BY <2>1, CompositesBetween
  <2> QED
    BY <1>3, <2>2 DEF Recommendation
<1>4. CASE label = "review"
  <2>1. \A k \in Stages : s[k] # NoScore => 55 =< s[k] /\ s[k] =< 69
    BY <1>1, <1>4 DEF Band
  <2>2. t \in Nat /\ 550 =< t /\ t =< 690
    BY <2>1, CompositesBetween
  <2> QED
    BY <1>4, <2>2 DEF Recommendation
<1>5. CASE label = "reject"
  <2>1. \A k \in Stages : s[k] # NoScore => 0 =< s[k] /\ s[k] =< 54
    BY <1>1, <1>5 DEF Band
  <2>2. t \in Nat /\ t =< 540
    BY <2>1, CompositesBetween
  <2> QED
    BY <1>5, <2>2 DEF Recommendation
<1>6. label \in {"strong_hire", "hire", "review", "reject"}
  BY DEF Band
<1> QED
  BY <1>2, <1>3, <1>4, <1>5, <1>6

(* A better result in a completed stage never lowers the composite, whatever *)
(* way Python rounds a tie before and after.                                 *)
THEOREM ImprovementNeverLowers ==
  ASSUME NEW s \in StageScoreRows, NEW r \in StageScoreRows, Available(s) = Available(r),
         \A k \in Stages : s[k] =< r[k], s # r,
         NEW t \in Composites(s), NEW u \in Composites(r)
  PROVE  t =< u
<1>1. Available(s) # {}
  <2>1. SUFFICES ASSUME Available(s) = {} PROVE FALSE
    OBVIOUS
  <2>2. \A k \in Stages : s[k] = NoScore /\ r[k] = NoScore
    BY <2>1, Sums
  <2> QED
    BY <2>2 DEF StageScoreRows
<1> DEFINE w == WeightedSum(s)
           v == WeightedSum(r)
           d == TotalWeight(s)
<1>2. /\ w \in Nat /\ v \in Nat /\ d \in {30, 35, 65, 70, 100}
      /\ TotalWeight(r) = d
  <2>1. \A k \in Stages : /\ s[k] # NoScore => 0 =< s[k] /\ s[k] =< 100
                          /\ r[k] # NoScore => 0 =< r[k] /\ r[k] =< 100
    BY Sums
  <2>2. TotalWeight(r) = d
    BY DEF TotalWeight, SumAvailable
  <2> QED
    BY <1>1, <2>1, <2>2, SumsBetween
<1>3. w < v
  <2> DEFINE a(x) == IF x["fit"] = NoScore THEN 0 ELSE 30 * x["fit"]
             b(x) == IF x["assessment"] = NoScore THEN 0 ELSE 35 * x["assessment"]
             c(x) == IF x["interview"] = NoScore THEN 0 ELSE 35 * x["interview"]
  <2>1. w = a(s) + b(s) + c(s) /\ v = a(r) + b(r) + c(r)
    BY Sums
  <2>2. \A k \in Stages : /\ s[k] = NoScore \/ s[k] \in 0..100
                          /\ r[k] = NoScore \/ r[k] \in 0..100
                          /\ (s[k] = NoScore <=> r[k] = NoScore)
    BY Sums DEF Available
  <2>3. \E k \in Stages : s[k] # r[k]
    BY DEF StageScoreRows
  <2>4. /\ a(s) \in Int /\ a(r) \in Int /\ a(s) =< a(r)
        /\ s["fit"] # r["fit"] => a(s) < a(r)
    <3> DEFINE x == s["fit"]
               y == r["fit"]
    <3>1. /\ x =< y /\ (x = NoScore <=> y = NoScore)
          /\ x = NoScore \/ x \in 0..100
          /\ y = NoScore \/ y \in 0..100
      BY <2>2 DEF Stages
    <3>2. /\ a(s) = IF x = NoScore THEN 0 ELSE 30 * x
          /\ a(r) = IF y = NoScore THEN 0 ELSE 30 * y
      OBVIOUS
    <3> HIDE DEF x, y, a
    <3>3. CASE x = NoScore
      <4>1. x = y /\ a(s) = 0 /\ a(r) = 0
        BY <3>1, <3>2, <3>3
      <4> QED
        BY <4>1 DEF x, y
    <3>4. CASE x # NoScore
      <4>1. x \in 0..100 /\ y \in 0..100 /\ x =< y /\ a(s) = 30 * x /\ a(r) = 30 * y
        BY <3>1, <3>2, <3>4
      <4>2. a(s) \in Int /\ a(r) \in Int /\ a(s) =< a(r) /\ (x # y => a(s) < a(r))
        BY <4>1
      <4> QED
        BY <4>2 DEF x, y
    <3> QED
      BY <3>3, <3>4
  <2>5. /\ b(s) \in Int /\ b(r) \in Int /\ b(s) =< b(r)
        /\ s["assessment"] # r["assessment"] => b(s) < b(r)
    <3> DEFINE x == s["assessment"]
               y == r["assessment"]
    <3>1. /\ x =< y /\ (x = NoScore <=> y = NoScore)
          /\ x = NoScore \/ x \in 0..100
          /\ y = NoScore \/ y \in 0..100
      BY <2>2 DEF Stages
    <3>2. /\ b(s) = IF x = NoScore THEN 0 ELSE 35 * x
          /\ b(r) = IF y = NoScore THEN 0 ELSE 35 * y
      OBVIOUS
    <3> HIDE DEF x, y, b
    <3>3. CASE x = NoScore
      <4>1. x = y /\ b(s) = 0 /\ b(r) = 0
        BY <3>1, <3>2, <3>3
      <4> QED
        BY <4>1 DEF x, y
    <3>4. CASE x # NoScore
      <4>1. x \in 0..100 /\ y \in 0..100 /\ x =< y /\ b(s) = 35 * x /\ b(r) = 35 * y
        BY <3>1, <3>2, <3>4
      <4>2. b(s) \in Int /\ b(r) \in Int /\ b(s) =< b(r) /\ (x # y => b(s) < b(r))
        BY <4>1
      <4> QED
        BY <4>2 DEF x, y
    <3> QED
      BY <3>3, <3>4
  <2>6. /\ c(s) \in Int /\ c(r) \in Int /\ c(s) =< c(r)
        /\ s["interview"] # r["interview"] => c(s) < c(r)
    <3> DEFINE x == s["interview"]
               y == r["interview"]
    <3>1. /\ x =< y /\ (x = NoScore <=> y = NoScore)
          /\ x = NoScore \/ x \in 0..100
          /\ y = NoScore \/ y \in 0..100
      BY <2>2 DEF Stages
    <3>2. /\ c(s) = IF x = NoScore THEN 0 ELSE 35 * x
          /\ c(r) = IF y = NoScore THEN 0 ELSE 35 * y
      OBVIOUS
    <3> HIDE DEF x, y, c
    <3>3. CASE x = NoScore
      <4>1. x = y /\ c(s) = 0 /\ c(r) = 0
        BY <3>1, <3>2, <3>3
      <4> QED
        BY <4>1 DEF x, y
    <3>4. CASE x # NoScore
      <4>1. x \in 0..100 /\ y \in 0..100 /\ x =< y /\ c(s) = 35 * x /\ c(r) = 35 * y
        BY <3>1, <3>2, <3>4
      <4>2. c(s) \in Int /\ c(r) \in Int /\ c(s) =< c(r) /\ (x # y => c(s) < c(r))
        BY <4>1
      <4> QED
        BY <4>2 DEF x, y
    <3> QED
      BY <3>3, <3>4
  <2>7. a(s) < a(r) \/ b(s) < b(r) \/ c(s) < c(r)
    BY <2>3, <2>4, <2>5, <2>6 DEF Stages
  <2> HIDE DEF a, b, c, w, v
  <2> QED
    BY <2>1, <2>4, <2>5, <2>6, <2>7
<1>4. t \in Int /\ u \in Int /\ RoundsTo(w, d, t) /\ RoundsTo(v, d, u)
  <2>1. Available(r) # {}
    BY <1>1
  <2>2. /\ (10 * w) \div d \in Int /\ (10 * v) \div d \in Int
    BY <1>2
  <2> QED
    BY <1>1, <1>2, <2>1, <2>2 DEF Composites
<1> HIDE DEF w, v, d
<1>5. 2 * d * t - d =< 20 * w /\ 20 * v =< 2 * d * u + d
  BY <1>4 DEF RoundsTo
<1>6. CASE d = 30
  BY <1>2, <1>3, <1>4, <1>5, <1>6
<1>7. CASE d = 35
  BY <1>2, <1>3, <1>4, <1>5, <1>7
<1>8. CASE d = 65
  BY <1>2, <1>3, <1>4, <1>5, <1>8
<1>9. CASE d = 70
  BY <1>2, <1>3, <1>4, <1>5, <1>9
<1>10. CASE d = 100
  BY <1>2, <1>3, <1>4, <1>5, <1>10
<1> QED
  BY <1>2, <1>6, <1>7, <1>8, <1>9, <1>10

-----------------------------------------------------------------------------
(* New ids.                                                                  *)

(* There is always an id that neither the table nor a session knows, so a    *)
(* new decision row is never taken for an old one.                           *)
LEMMA FreshIdIsFresh ==
  /\ FreshId \in 1..(Cardinality(Clients) + 2)
  /\ FreshId # dec.id /\ \A c \in Clients : req[c].dec.id # FreshId
<1> DEFINE n == Cardinality(Clients)
           f == [c \in Clients |-> req[c].dec.id]
           T == {f[c] : c \in Clients}
           Known == T \cup {dec.id}
<1>1. IsFiniteSet(Clients) /\ n \in Nat
  BY PipelineConstants, FS_CardinalityType
<1>2. IsFiniteSet(T) /\ Cardinality(T) =< n
  <2>1. f \in Surjection(Clients, T)
    BY DEF Surjection
  <2> QED
    BY <1>1, <2>1, FS_Surjection DEF ExistsSurjection
<1>3. IsFiniteSet(Known) /\ Cardinality(Known) =< n + 1
  <2>1. Cardinality(T) \in Nat
    BY <1>2, FS_CardinalityType
  <2> HIDE DEF T
  <2> QED
    BY <1>1, <1>2, <2>1, FS_AddElement
<1>4. Cardinality(1..(n + 2)) = n + 2
  BY <1>1, FS_Interval
<1> HIDE DEF Known, n
<1>5. ~(1..(n + 2) \subseteq Known)
  BY <1>1, <1>3, <1>4, FS_Subset, FS_CardinalityType
<1>6. \E i \in 1..(n + 2) : i \notin Known
  BY <1>5
<1>7. \E i \in 1..(n + 2) : i # dec.id /\ \A c \in Clients : req[c].dec.id # i
  BY <1>6 DEF Known
<1> QED
  BY <1>7 DEF FreshId, n

-----------------------------------------------------------------------------
(* Flush.                                                                    *)

(* What the commit leaves in each column of an application.                  *)
LEMMA FlushedApplication ==
  ASSUME NEW row \in ApplicationRows, NEW old \in ApplicationRows, NEW new \in ApplicationRows
  PROVE  LET r == Flush(row, old, new) IN
         /\ r \in ApplicationRows
         /\ r.status = IF new.status = old.status THEN row.status ELSE new.status
         /\ r.fit = IF new.fit = old.fit THEN row.fit ELSE new.fit
         /\ r.assessment = IF new.assessment = old.assessment THEN row.assessment ELSE new.assessment
         /\ r.interview = IF new.interview = old.interview THEN row.interview ELSE new.interview
         /\ r.composite = IF new.composite = old.composite THEN row.composite ELSE new.composite
         /\ r.json = IF new.json = old.json THEN row.json ELSE new.json
BY DEF Flush, ApplicationRows

(* What the commit leaves in each column of a decision.                      *)
LEMMA FlushedDecision ==
  ASSUME NEW row \in DecisionRows, NEW old \in DecisionRows, NEW new \in DecisionRows
  PROVE  LET r == Flush(row, old, new) IN
         /\ r \in DecisionRows
         /\ r.id = IF new.id = old.id THEN row.id ELSE new.id
         /\ r.rec = IF new.rec = old.rec THEN row.rec ELSE new.rec
         /\ r.override = IF new.override = old.override THEN row.override ELSE new.override
         /\ r.original = IF new.original = old.original THEN row.original ELSE new.original
BY DEF Flush, DecisionRows

(* The stage scores of a row are a row of stage scores.                      *)
LEMMA StageScoresAreRows ==
  ASSUME NEW a \in ApplicationRows
  PROVE  /\ StageScores(a) \in StageScoreRows
         /\ Composites(StageScores(a)) \subseteq 0..1000
<1>1. StageScores(a) \in StageScoreRows
  BY PipelineConstants DEF StageScores, StageScoreRows, Stages, ApplicationRows, StageScore
<1> QED
  BY <1>1, CompositeIsPercentage

-----------------------------------------------------------------------------
(* Types.                                                                    *)

(* What a request and a session may hold.                                    *)
RequestRows ==
  [op : AllOps \cup {"none"}, n : Nat, dec : DecisionRows,
   at : {"idle", "loading", "writing", "replacing", "inserting", "advancing"},
   app : ApplicationRows]

SessionRows == [done : BOOLEAN, score : StageScore]

(* The empty rows are rows.                                                  *)
LEMMA EmptyRows ==
  NewApplication \in ApplicationRows /\ NoDecision \in DecisionRows /\ NoRequest \in RequestRows
<1>1. Cardinality(Clients) \in Nat
  BY PipelineConstants, FS_CardinalityType
<1>2. NewApplication \in ApplicationRows
  BY DEF NewApplication, ApplicationRows, ApplicationStatuses, StageScore, Tenths
<1>3. NoDecision \in DecisionRows
  BY <1>1 DEF NoDecision, DecisionRows
<1> QED
  BY <1>2, <1>3 DEF NoRequest, RequestRows

(* A new decision row with any label is a decision row.                      *)
LEMMA NewDecisions ==
  ASSUME NEW rec \in OverrideLabels \cup CompositeLabels
  PROVE  /\ \A o \in {"none"} \cup OverrideLabels :
              [id |-> FreshId, rec |-> rec, override |-> o, original |-> "none"] \in DecisionRows
         /\ [NoDecision EXCEPT !.id = FreshId, !.rec = rec] \in DecisionRows
<1> DEFINE i == FreshId
<1>1. i \in 0..(Cardinality(Clients) + 2)
  <2>1. Cardinality(Clients) \in Nat
    BY PipelineConstants, FS_CardinalityType
  <2> QED
    BY <2>1, FreshIdIsFresh
<1> HIDE DEF i
<1>2. \A o \in {"none"} \cup OverrideLabels :
        [id |-> i, rec |-> rec, override |-> o, original |-> "none"] \in DecisionRows
  BY <1>1 DEF DecisionRows
<1>3. [NoDecision EXCEPT !.id = i, !.rec = rec] \in DecisionRows
  BY <1>1 DEF DecisionRows, NoDecision
<1> QED
  BY <1>2, <1>3 DEF i

(* determine_recommendation gives one of its four labels.                    *)
LEMMA RecommendationIsLabel ==
  ASSUME NEW t \in Int
  PROVE  Recommendation(t) \in CompositeLabels
BY DEF Recommendation, CompositeLabels

(* The types hold of the empty tables.                                       *)
LEMMA InitTyped == Init => TypeOK
<1> SUFFICES ASSUME Init PROVE TypeOK
  OBVIOUS
<1>1. req \in [Clients -> RequestRows]
  BY EmptyRows DEF Init
<1>2. sessions \in [{"assess", "interview"} -> Seq([done : BOOLEAN, score : StageScore])]
  <2> DEFINE S == Seq([done : BOOLEAN, score : StageScore])
  <2>1. <<>> \in S
    OBVIOUS
  <2> HIDE DEF S
  <2>2. sessions \in [{"assess", "interview"} -> S]
    BY <2>1 DEF Init
  <2> QED
    BY <2>2 DEF S
<1>3. faults \in 0..MaxFaults /\ interviewed \in BOOLEAN
  <2>1. MaxFaults \in Nat
    BY PipelineConstants
  <2>2. faults = 0 /\ interviewed = FALSE
    BY DEF Init
  <2>3. faults \in 0..MaxFaults
    BY <2>1, <2>2
  <2> QED
    BY <2>2, <2>3
<1>4. app \in ApplicationRows /\ dec \in DecisionRows
  BY EmptyRows DEF Init
<1> QED
  BY <1>1, <1>2, <1>3, <1>4 DEF TypeOK, RequestRows

(* The types survive an arrival.                                             *)
LEMMA ArrivalTyped ==
  ASSUME TypeOK, NEW c \in Clients, Arrives(c)
  PROVE  TypeOK'
<1> USE DEF RequestRows
<1>1. /\ app \in ApplicationRows /\ dec \in DecisionRows
      /\ NewApplication \in ApplicationRows /\ NoDecision \in DecisionRows
      /\ NoRequest \in RequestRows
  BY EmptyRows DEF TypeOK
<1>2. ASSUME NEW q \in RequestRows, Starts(c, q)
      PROVE  TypeOK'
  BY <1>2 DEF Starts, TypeOK
<1>3. \A op \in AllOps : Loads(op) \in RequestRows /\ Loads(op).dec = NoDecision
  BY <1>1 DEF Loads, NoRequest
<1>4. CASE ResumeLoad(c)
  BY <1>2, <1>3, <1>4 DEF ResumeLoad, AllOps
<1>5. CASE EvaluateStarts(c)
  BY <1>1, <1>2, <1>5 DEF EvaluateStarts, AllOps, NoRequest
<1>6. CASE GenerateLoad(c)
  BY <1>1, <1>2, <1>6 DEF GenerateLoad, AllOps, NoRequest
<1>7. CASE OverrideLoad(c)
  <2>1. [Loads("override") EXCEPT !.app = NewApplication, !.dec = dec] \in RequestRows
    BY <1>1, <1>3 DEF AllOps
  <2> QED
    BY <1>2, <1>7, <2>1 DEF OverrideLoad
<1>8. CASE ScheduleLoad(c)
  <2>1. \A n \in Nat : [Loads("schedule") EXCEPT !.n = n] \in RequestRows
    BY <1>1, <1>3 DEF AllOps
  <2> QED
    BY <1>2, <1>8, <2>1 DEF ScheduleLoad
<1>9. CASE Unschedule(c)
  BY <1>9 DEF Unschedule, TypeOK
<1>10. ASSUME NEW op \in {"assess_open", "interview_open"}, OpenLoad(c, op)
       PROVE  TypeOK'
  BY <1>1, <1>2, <1>10 DEF OpenLoad, AllOps, NoRequest
<1>11. ASSUME NEW kind \in {"assess", "interview"}, SubmitLoad(c, kind)
       PROVE  TypeOK'
  <2>1. Len(sessions[kind]) \in Nat
    BY DEF TypeOK
  <2>2. [Loads(kind) EXCEPT !.n = Len(sessions[kind])] \in RequestRows
    BY <1>3, <2>1 DEF AllOps
  <2> QED
    BY <1>2, <1>11, <2>2 DEF SubmitLoad
<1>12. ASSUME NEW s \in ManualStatuses, PatchLoad(c, s)
       PROVE  TypeOK'
  <2>1. s \in ApplicationStatuses
    BY PipelineConstants
  <2>2. [NewApplication EXCEPT !.status = s] \in ApplicationRows
    BY <1>1, <2>1 DEF ApplicationRows
  <2>3. [NoRequest EXCEPT !.op = "patch", !.at = "writing", !.app.status = s] \in RequestRows
    BY <1>1, <2>2 DEF NoRequest, AllOps
  <2> QED
    BY <1>2, <1>12, <2>3 DEF PatchLoad
<1> QED
  BY <1>4, <1>5, <1>6, <1>7, <1>8, <1>9, <1>10, <1>11, <1>12 DEF Arrives

(* The types survive the step of a request.                                  *)
LEMMA StepTyped ==
  ASSUME TypeOK, NEW c \in Clients, Runs(c) \/ Dies(c)
  PROVE  TypeOK'
<1> USE DEF RequestRows
<1> DEFINE Sessions == [{"assess", "interview"} -> Seq([done : BOOLEAN, score : StageScore])]
<1>1. /\ app \in ApplicationRows /\ dec \in DecisionRows /\ req \in [Clients -> RequestRows]
      /\ req[c].app \in ApplicationRows /\ req[c].dec \in DecisionRows /\ req[c].n \in Nat
      /\ NewApplication \in ApplicationRows /\ NoDecision \in DecisionRows
      /\ NoRequest \in RequestRows
      /\ faults \in 0..MaxFaults /\ interviewed \in BOOLEAN /\ sessions \in Sessions
  BY EmptyRows DEF TypeOK
<1>2. ASSUME NEW q \in RequestRows, Proceeds(c, q), interviewed' \in BOOLEAN,
             app' \in ApplicationRows, dec' \in DecisionRows, sessions' \in Sessions
      PROVE  TypeOK'
  <2>1. req' \in [Clients -> RequestRows] /\ faults' \in 0..MaxFaults
    BY <1>1, <1>2 DEF Proceeds
  <2> QED
    BY <1>2, <2>1 DEF TypeOK
<1>3. ASSUME Ends(c), interviewed' \in BOOLEAN,
             app' \in ApplicationRows, dec' \in DecisionRows, sessions' \in Sessions
      PROVE  TypeOK'
  BY <1>1, <1>2, <1>3 DEF Ends
<1>4. \A s \in Scores : s \in StageScore
  BY DEF StageScore
<1>5. ASSUME NEW kind \in {"assess", "interview"}, NEW n \in Nat, NEW s \in Scores
      PROVE  Completed(kind, n, s) \in Sessions
  <2> DEFINE S == [done : BOOLEAN, score : StageScore]
             x == [done |-> TRUE, score |-> s]
  <2>1. x \in S /\ sessions[kind] \in Seq(S)
    BY <1>1, <1>4
  <2> HIDE DEF S, x
  <2>2. [sessions[kind] EXCEPT ![n] = x] \in Seq(S)
    <3>1. CASE n \in 1..Len(sessions[kind])
      BY <2>1, <3>1, ExceptSeq
    <3>2. CASE n \notin 1..Len(sessions[kind])
      <4> DEFINE f == sessions[kind]
                 len == Len(f)
      <4>1. f \in [1..len -> S] /\ f \in Seq(S) /\ n \notin 1..len
        BY <2>1, <3>2
      <4> HIDE DEF f, len
      <4>2. [f EXCEPT ![n] = x] = f
        BY <4>1
      <4> QED
        BY <4>1, <4>2 DEF f
    <3> QED
      BY <3>1, <3>2
  <2>3. Completed(kind, n, s) = [sessions EXCEPT ![kind] = [sessions[kind] EXCEPT ![n] = x]]
    BY <1>1 DEF Completed, x
  <2> QED
    BY <1>1, <2>2, <2>3 DEF S
<1>6. CASE ResumeWrite(c)
  <2> DEFINE old == req[c].app
             status(s) == IF old.status # "applied" THEN old.status
                          ELSE IF s >= 75 THEN "shortlisted" ELSE "screening"
             new(s) == [old EXCEPT !.fit = s, !.status = status(s)]
  <2>1. PICK s \in Scores : app' = Flush(app, old, new(s))
    BY <1>6 DEF ResumeWrite
  <2>2. status(s) \in ApplicationStatuses
    BY <1>1 DEF ApplicationRows, ApplicationStatuses
  <2> HIDE DEF status
  <2>3. new(s) \in ApplicationRows
    BY <1>1, <1>4, <2>2 DEF ApplicationRows
  <2> HIDE DEF new, old
  <2>4. app' \in ApplicationRows
    BY <1>1, <2>1, <2>3, FlushedApplication DEF old
  <2> QED
    BY <1>1, <1>3, <1>6, <2>4 DEF ResumeWrite
<1>7. CASE OpenInsert(c)
  <2>1. sessions' \in Sessions
    <3> DEFINE S == [done : BOOLEAN, score : StageScore]
               x == [done |-> FALSE, score |-> NoScore]
               kind == OpenKind(req[c].op)
    <3>1. x \in S /\ kind \in {"assess", "interview"} /\ sessions[kind] \in Seq(S)
      BY <1>1 DEF StageScore, OpenKind
    <3>2. sessions' = [sessions EXCEPT ![kind] = Append(sessions[kind], x)]
      BY <1>1, <1>7, <3>1 DEF OpenInsert
    <3> HIDE DEF S, x, kind
    <3>3. Append(sessions[kind], x) \in Seq(S)
      BY <3>1
    <3> QED
      BY <1>1, <3>2, <3>3 DEF S
  <2> QED
    BY <1>1, <1>3, <1>7, <2>1 DEF OpenInsert
<1>8. CASE AssessWrite(c)
  <2> DEFINE old == req[c].app
             status(s) == CASE old.status = "applied"               -> "screening"
                            [] old.status = "screening" /\ s >= 60  -> "shortlisted"
                            [] OTHER                                -> old.status
             new(s) == [old EXCEPT !.assessment = s, !.status = status(s)]
  <2>1. PICK s \in Scores : /\ app' = Flush(app, old, new(s))
                            /\ sessions' = Completed("assess", req[c].n, s)
    BY <1>8 DEF AssessWrite
  <2>2. status(s) \in ApplicationStatuses
    BY <1>1 DEF ApplicationRows, ApplicationStatuses
  <2> HIDE DEF status
  <2>3. new(s) \in ApplicationRows
    BY <1>1, <1>4, <2>2 DEF ApplicationRows
  <2> HIDE DEF new, old
  <2>4. app' \in ApplicationRows /\ sessions' \in Sessions
    BY <1>1, <1>5, <2>1, <2>3, FlushedApplication DEF old
  <2> QED
    BY <1>1, <1>3, <1>8, <2>4 DEF AssessWrite
<1>9. CASE InterviewWrite(c)
  <2> DEFINE old == req[c].app
             new(s) == [old EXCEPT !.interview = s, !.status = "interview_completed"]
  <2>1. PICK s \in Scores : /\ app' = Flush(app, old, new(s))
                            /\ sessions' = Completed("interview", req[c].n, s)
    BY <1>9 DEF InterviewWrite
  <2>2. new(s) \in ApplicationRows
    BY <1>1, <1>4 DEF ApplicationRows, ApplicationStatuses
  <2> HIDE DEF new, old
  <2>3. app' \in ApplicationRows /\ sessions' \in Sessions
    BY <1>1, <1>5, <2>1, <2>2, FlushedApplication DEF old
  <2>4. [NoRequest EXCEPT !.op = "evaluate", !.at = "loading"] \in RequestRows
    BY <1>1 DEF NoRequest, AllOps
  <2> QED
    BY <1>1, <1>2, <1>9, <2>3, <2>4 DEF InterviewWrite
<1>10. CASE EvaluateLoad(c)
  <2>1. [Loads("evaluate") EXCEPT !.dec = dec] \in RequestRows
    BY <1>1 DEF Loads, NoRequest, AllOps
  <2> QED
    BY <1>1, <1>2, <1>10, <2>1 DEF EvaluateLoad, Rows
<1>11. CASE EvaluateWrite(c)
  <2> DEFINE old == req[c].app
             status == IF Progress(StageScores(old)) = "completed" /\ old.status \in Decidable
                         THEN "decision_ready" ELSE old.status
             new(t) == [old EXCEPT !.composite = t, !.status = status]
             after(t) == Evaluated(req[c].dec, Recommendation(t))
  <2>1. PICK t \in Composites(StageScores(old)) :
           \/ UNCHANGED <<app, dec>>
           \/ dec' \in after(t) /\ app' = [Flush(app, old, new(t)) EXCEPT !.json = t]
    BY <1>11 DEF EvaluateWrite
  <2>2. t \in Tenths /\ Recommendation(t) \in CompositeLabels
    <3>1. t \in 0..1000
      <4>1. Composites(StageScores(old)) \subseteq 0..1000
        BY <1>1, StageScoresAreRows
      <4> QED
        BY <4>1
    <3> QED
      BY <3>1, RecommendationIsLabel DEF Tenths
  <2>3. status \in ApplicationStatuses
    BY <1>1 DEF ApplicationRows, ApplicationStatuses
  <2> HIDE DEF status
  <2>4. new(t) \in ApplicationRows
    BY <1>1, <2>2, <2>3 DEF ApplicationRows
  <2>5. [Flush(app, old, new(t)) EXCEPT !.json = t] \in ApplicationRows
    <3>1. Flush(app, old, new(t)) \in ApplicationRows
      BY <1>1, <2>4, FlushedApplication
    <3> HIDE DEF new, old
    <3> QED
      BY <2>2, <3>1 DEF ApplicationRows
  <2>6. after(t) \subseteq DecisionRows
    <3> DEFINE rec == Recommendation(t)
               decided == [req[c].dec EXCEPT !.rec = rec]
    <3>1. rec \in CompositeLabels
      BY <2>2
    <3> HIDE DEF rec
    <3>2. [NoDecision EXCEPT !.id = FreshId, !.rec = rec] \in DecisionRows
      BY <3>1, NewDecisions
    <3>3. decided \in DecisionRows
      BY <1>1, <3>1 DEF DecisionRows
    <3> HIDE DEF decided
    <3>4. Flush(dec, req[c].dec, decided) \in DecisionRows
      BY <1>1, <3>3, FlushedDecision
    <3> QED
      BY <3>2, <3>4 DEF Evaluated, rec, decided
  <2> HIDE DEF after, new, old
  <2>7. app' \in ApplicationRows /\ dec' \in DecisionRows
    BY <1>1, <2>1, <2>5, <2>6
  <2> QED
    BY <1>1, <1>3, <1>11, <2>7 DEF EvaluateWrite
<1>12. CASE GenerateDelete(c)
  <2>1. [req[c] EXCEPT !.at = "inserting"] \in RequestRows
    BY <1>1
  <2> QED
    BY <1>1, <1>2, <1>12, <2>1 DEF GenerateDelete
<1>13. CASE GenerateInsert(c)
  <2>1. dec' = dec \/ \E rec \in OverrideLabels : dec' = [NoDecision EXCEPT !.id = FreshId, !.rec = rec]
    BY <1>13 DEF GenerateInsert
  <2>2. dec' \in DecisionRows
    <3>1. CASE dec' = dec
      BY <1>1, <3>1
    <3>2. CASE dec' # dec
      <4>1. PICK rec \in OverrideLabels : dec' = [NoDecision EXCEPT !.id = FreshId, !.rec = rec]
        BY <2>1, <3>2
      <4>2. [NoDecision EXCEPT !.id = FreshId, !.rec = rec] \in DecisionRows
        BY NewDecisions
      <4> QED
        BY <4>1, <4>2
    <3> QED
      BY <3>1, <3>2
  <2> QED
    BY <1>1, <1>3, <1>13, <2>2 DEF GenerateInsert
<1>14. CASE OverrideWrite(c)
  <2>1. PICK label \in OverrideLabels : dec' = dec \/ dec' \in Overridden(req[c].dec, label)
    BY <1>14 DEF OverrideWrite
  <2>2. Overridden(req[c].dec, label) \subseteq DecisionRows
    <3> DEFINE old == req[c].dec
               original == IF old.original # "none" THEN old.original ELSE old.rec
    <3>1. original \in {"none"} \cup OverrideLabels \cup CompositeLabels
      BY <1>1 DEF DecisionRows
    <3> HIDE DEF original
    <3>2. [dec EXCEPT !.override = label, !.original = original] \in DecisionRows
      BY <1>1, <3>1 DEF DecisionRows
    <3> QED
      BY <3>2, NewDecisions DEF Overridden, original
  <2> QED
    BY <1>1, <1>3, <1>14, <2>1, <2>2 DEF OverrideWrite
<1>15. CASE ScheduleInsert(c)
  <2>1. [req[c] EXCEPT !.at = "advancing"] \in RequestRows
    BY <1>1
  <2> QED
    BY <1>1, <1>2, <1>3, <1>15, <2>1 DEF ScheduleInsert
<1>16. CASE ScheduleAdvance(c)
  <2> DEFINE new == [req[c].app EXCEPT !.status = "interview"]
  <2>1. new \in ApplicationRows
    BY <1>1 DEF ApplicationRows, ApplicationStatuses
  <2> HIDE DEF new
  <2>2. Flush(app, req[c].app, new) \in ApplicationRows
    BY <1>1, <2>1, FlushedApplication
  <2> QED
    BY <1>1, <1>3, <1>16, <2>2 DEF ScheduleAdvance, new
<1>17. CASE PatchWrite(c)
  <2>1. req[c].app.status \in ApplicationStatuses
    BY <1>1 DEF ApplicationRows
  <2>2. [app EXCEPT !.status = req[c].app.status] \in ApplicationRows
    BY <1>1, <2>1 DEF ApplicationRows
  <2> QED
    BY <1>1, <1>3, <1>17, <2>2 DEF PatchWrite
<1>18. CASE Dies(c)
  BY <1>1, <1>18, PipelineConstants DEF Dies, TypeOK, Rows
<1> QED
  BY <1>6, <1>7, <1>8, <1>9, <1>10, <1>11, <1>12, <1>13, <1>14, <1>15, <1>16, <1>17, <1>18 DEF Runs

(* And so they survive every step.                                           *)
LEMMA TypePreserved ==
  ASSUME TypeOK, [Next]_vars
  PROVE  TypeOK'
<1>1. CASE Next
  BY <1>1, ArrivalTyped, StepTyped DEF Next
<1>2. CASE UNCHANGED vars
  BY <1>2 DEF vars, TypeOK, RequestRows
<1> QED
  BY <1>1, <1>2

(* Every variable keeps its type, whoever writes and whenever a request dies: *)
(* no flush and no insert makes a row the schema does not have.              *)
THEOREM TypeCorrect == Spec => []TypeOK
<1>1. TypeOK /\ [Next]_vars => TypeOK'
  BY TypePreserved
<1> QED
  BY <1>1, InitTyped, PTL DEF Spec

-----------------------------------------------------------------------------
(* What each commit does to the rows, column by column.                      *)

(* Rows loaded by a request are rows.                                        *)
LEMMA RowsAreRows ==
  ASSUME TypeOK, NEW c \in Clients
  PROVE  /\ app \in ApplicationRows /\ req[c].app \in ApplicationRows
         /\ dec \in DecisionRows /\ req[c].dec \in DecisionRows
         /\ req \in [Clients -> RequestRows] /\ req[c] \in RequestRows
BY DEF TypeOK, RequestRows

(* A resume job writes the fit, and the status only of what was new.         *)
LEMMA ResumeEffect ==
  ASSUME TypeOK, NEW c \in Clients, ResumeWrite(c)
  PROVE  /\ app'.assessment = app.assessment /\ app'.interview = app.interview
         /\ app'.composite = app.composite /\ app'.json = app.json
         /\ app'.status = app.status \/ req[c].app.status = "applied"
<1> DEFINE old == req[c].app
           status(s) == IF old.status # "applied" THEN old.status
                        ELSE IF s >= 75 THEN "shortlisted" ELSE "screening"
           new(s) == [old EXCEPT !.fit = s, !.status = status(s)]
<1>1. PICK s \in Scores : app' = Flush(app, old, new(s))
  BY DEF ResumeWrite
<1>2. app \in ApplicationRows /\ old \in ApplicationRows /\ s \in StageScore
  BY RowsAreRows DEF StageScore
<1>3. status(s) \in ApplicationStatuses /\ (old.status # "applied" => status(s) = old.status)
  BY <1>2 DEF ApplicationRows, ApplicationStatuses
<1> HIDE DEF status, old
<1>4. /\ new(s) \in ApplicationRows /\ new(s).status = status(s)
      /\ new(s).assessment = old.assessment /\ new(s).interview = old.interview
      /\ new(s).composite = old.composite /\ new(s).json = old.json
  BY <1>2, <1>3 DEF ApplicationRows
<1> HIDE DEF new
<1> QED
  BY <1>1, <1>2, <1>3, <1>4, FlushedApplication DEF old

(* An assessment writes its score, and the status only of an early stage.    *)
LEMMA AssessEffect ==
  ASSUME TypeOK, NEW c \in Clients, AssessWrite(c)
  PROVE  /\ \E s \in Scores :
              /\ sessions' = Completed("assess", req[c].n, s)
              /\ app'.assessment = IF s = req[c].app.assessment THEN app.assessment ELSE s
         /\ app'.interview = app.interview
         /\ app'.composite = app.composite /\ app'.json = app.json
         /\ app'.status = app.status \/ req[c].app.status \in {"applied", "screening"}
<1> DEFINE old == req[c].app
           status(s) == CASE old.status = "applied"               -> "screening"
                          [] old.status = "screening" /\ s >= 60  -> "shortlisted"
                          [] OTHER                                -> old.status
           new(s) == [old EXCEPT !.assessment = s, !.status = status(s)]
<1>1. PICK s \in Scores : /\ app' = Flush(app, old, new(s))
                          /\ sessions' = Completed("assess", req[c].n, s)
  BY DEF AssessWrite
<1>2. app \in ApplicationRows /\ old \in ApplicationRows /\ s \in StageScore
  BY RowsAreRows DEF StageScore
<1>3. /\ status(s) \in ApplicationStatuses
      /\ old.status \notin {"applied", "screening"} => status(s) = old.status
  BY <1>2 DEF ApplicationRows, ApplicationStatuses
<1> HIDE DEF status, old
<1>4. /\ new(s) \in ApplicationRows /\ new(s).status = status(s)
      /\ new(s).assessment = s /\ new(s).interview = old.interview
      /\ new(s).composite = old.composite /\ new(s).json = old.json
  BY <1>2, <1>3 DEF ApplicationRows
<1> HIDE DEF new
<1> QED
  BY <1>1, <1>2, <1>3, <1>4, FlushedApplication DEF old

(* An AI interview writes its score, and its status over any other.          *)
LEMMA InterviewEffect ==
  ASSUME TypeOK, NEW c \in Clients, InterviewWrite(c)
  PROVE  /\ \E s \in Scores :
              /\ sessions' = Completed("interview", req[c].n, s)
              /\ app'.interview = IF s = req[c].app.interview THEN app.interview ELSE s
         /\ app'.assessment = app.assessment
         /\ app'.composite = app.composite /\ app'.json = app.json
<1> DEFINE old == req[c].app
           new(s) == [old EXCEPT !.interview = s, !.status = "interview_completed"]
<1>1. PICK s \in Scores : /\ app' = Flush(app, old, new(s))
                          /\ sessions' = Completed("interview", req[c].n, s)
  BY DEF InterviewWrite
<1>2. app \in ApplicationRows /\ old \in ApplicationRows /\ s \in StageScore
  BY RowsAreRows DEF StageScore
<1> HIDE DEF old
<1>3. /\ new(s) \in ApplicationRows
      /\ new(s).assessment = old.assessment /\ new(s).interview = s
      /\ new(s).composite = old.composite /\ new(s).json = old.json
  BY <1>2 DEF ApplicationRows, ApplicationStatuses
<1> HIDE DEF new
<1> QED
  BY <1>1, <1>2, <1>3, FlushedApplication DEF old

(* An evaluation writes composite and explanation of one value, and the      *)
(* status only of a stage that is decided ...                                *)
Explained(c, t) ==
  /\ app'.composite = IF t = req[c].app.composite THEN app.composite ELSE t
  /\ app'.json = t
  /\ app'.assessment = app.assessment /\ app'.interview = app.interview
  /\ app'.status = app.status \/ req[c].app.status \in Decidable

(* ... and its recommendation into the row it loaded, beside the override    *)
(* that is there, or into a new row.                                         *)
Decided(c, rec) ==
  \/ /\ req[c].dec.id = 0 /\ dec.id = 0
     /\ dec' = [NoDecision EXCEPT !.id = FreshId, !.rec = rec]
  \/ /\ dec.id > 0 /\ dec'.id = dec.id /\ dec'.override = dec.override
     /\ dec'.rec = IF rec = req[c].dec.rec THEN dec.rec ELSE rec

(* It does both or fails.                                                    *)
LEMMA EvaluateEffect ==
  ASSUME TypeOK, NEW c \in Clients, EvaluateWrite(c)
  PROVE  \/ UNCHANGED <<app, dec>>
         \/ \E t \in 0..1000 : Explained(c, t) /\ Decided(c, Recommendation(t))
<1> DEFINE old == req[c].app
           was == req[c].dec
           status == IF Progress(StageScores(old)) = "completed" /\ old.status \in Decidable
                       THEN "decision_ready" ELSE old.status
           new(t) == [old EXCEPT !.composite = t, !.status = status]
           after(t) == Evaluated(was, Recommendation(t))
<1>1. PICK t \in Composites(StageScores(old)) :
         \/ UNCHANGED <<app, dec>>
         \/ dec' \in after(t) /\ app' = [Flush(app, old, new(t)) EXCEPT !.json = t]
  BY DEF EvaluateWrite
<1>2. /\ app \in ApplicationRows /\ old \in ApplicationRows
      /\ dec \in DecisionRows /\ was \in DecisionRows
  BY RowsAreRows
<1>3. t \in 0..1000
  <2>1. Composites(StageScores(old)) \subseteq 0..1000
    BY <1>2, StageScoresAreRows
  <2> QED
    BY <2>1
<1>4. t \in Tenths /\ Recommendation(t) \in CompositeLabels
  BY <1>3, RecommendationIsLabel DEF Tenths
<1>5. status \in ApplicationStatuses /\ (status = old.status \/ old.status \in Decidable)
  BY <1>2 DEF ApplicationRows, ApplicationStatuses
<1> SUFFICES ASSUME dec' \in after(t), app' = [Flush(app, old, new(t)) EXCEPT !.json = t]
             PROVE  Explained(c, t) /\ Decided(c, Recommendation(t))
  BY <1>1, <1>3
<1> HIDE DEF status, old, was
<1>6. /\ new(t) \in ApplicationRows /\ new(t).status = status
      /\ new(t).assessment = old.assessment /\ new(t).interview = old.interview
      /\ new(t).composite = t /\ new(t).json = old.json
  BY <1>2, <1>4, <1>5 DEF ApplicationRows
<1> HIDE DEF new
<1>7. Explained(c, t)
  <2> DEFINE r == Flush(app, old, new(t))
  <2>1. /\ r \in ApplicationRows
        /\ r.status = IF new(t).status = old.status THEN app.status ELSE new(t).status
        /\ r.assessment = app.assessment /\ r.interview = app.interview
        /\ r.composite = IF t = old.composite THEN app.composite ELSE t
    BY <1>2, <1>6, FlushedApplication
  <2>2. app' = [r EXCEPT !.json = t]
    OBVIOUS
  <2> HIDE DEF r
  <2>3. /\ app'.composite = r.composite /\ app'.json = t /\ app'.assessment = r.assessment
        /\ app'.interview = r.interview /\ app'.status = r.status
    BY <2>1, <2>2 DEF ApplicationRows
  <2> QED
    BY <1>5, <1>6, <2>1, <2>3 DEF Explained, old
<1>8. Decided(c, Recommendation(t))
  <2> DEFINE rec == Recommendation(t)
             decided == [was EXCEPT !.rec = rec]
  <2>1. rec \in CompositeLabels
    BY <1>4
  <2> HIDE DEF rec
  <2>2. /\ decided \in DecisionRows /\ decided.id = was.id /\ decided.rec = rec
        /\ decided.override = was.override
    BY <1>2, <2>1 DEF DecisionRows
  <2>3. \/ was.id = 0 /\ dec.id = 0 /\ dec' = [NoDecision EXCEPT !.id = FreshId, !.rec = rec]
        \/ was.id > 0 /\ was.id = dec.id /\ dec' = Flush(dec, was, decided)
    BY DEF Evaluated, rec
  <2> HIDE DEF decided
  <2>4. ASSUME dec' = Flush(dec, was, decided)
        PROVE  /\ dec'.id = dec.id /\ dec'.override = dec.override
               /\ dec'.rec = IF rec = was.rec THEN dec.rec ELSE rec
    BY <1>2, <2>2, <2>4, FlushedDecision
  <2> QED
    BY <2>3, <2>4 DEF Decided, rec, was
<1> QED
  BY <1>7, <1>8

(* A scheduled interview moves the status only.                              *)
LEMMA AdvanceEffect ==
  ASSUME TypeOK, NEW c \in Clients, ScheduleAdvance(c)
  PROVE  /\ app'.assessment = app.assessment /\ app'.interview = app.interview
         /\ app'.composite = app.composite /\ app'.json = app.json
<1> DEFINE old == req[c].app
           new == [old EXCEPT !.status = "interview"]
<1>1. app \in ApplicationRows /\ old \in ApplicationRows /\ app' = Flush(app, old, new)
  BY RowsAreRows DEF ScheduleAdvance
<1> HIDE DEF old
<1>2. /\ new \in ApplicationRows
      /\ new.assessment = old.assessment /\ new.interview = old.interview
      /\ new.composite = old.composite /\ new.json = old.json
  BY <1>1 DEF ApplicationRows, ApplicationStatuses
<1> HIDE DEF new
<1> QED
  BY <1>1, <1>2, FlushedApplication

(* So does a recruiter.                                                      *)
LEMMA PatchEffect ==
  ASSUME TypeOK, NEW c \in Clients, PatchWrite(c)
  PROVE  /\ app'.assessment = app.assessment /\ app'.interview = app.interview
         /\ app'.composite = app.composite /\ app'.json = app.json
BY RowsAreRows DEF PatchWrite, ApplicationRows

(* A recruiter's override is written into the row that was loaded, beside    *)
(* its recommendation, or into a new one.                                    *)
LEMMA OverrideEffect ==
  ASSUME TypeOK, NEW c \in Clients, OverrideWrite(c)
  PROVE  \/ dec' = dec
         \/ /\ dec.id = 0 /\ dec'.id = FreshId /\ dec'.rec \in OverrideLabels
         \/ /\ dec.id > 0 /\ dec'.id = dec.id /\ dec'.rec = dec.rec
            /\ dec'.override \in OverrideLabels
<1>1. PICK label \in OverrideLabels : dec' = dec \/ dec' \in Overridden(req[c].dec, label)
  BY DEF OverrideWrite
<1>2. dec \in DecisionRows
  BY RowsAreRows
<1> DEFINE old == req[c].dec
           original == IF old.original # "none" THEN old.original ELSE old.rec
           changed == [dec EXCEPT !.override = label, !.original = original]
           fresh == [id |-> FreshId, rec |-> label, override |-> label, original |-> "none"]
<1>3. \/ dec' = dec
      \/ dec.id = 0 /\ dec' = fresh
      \/ old.id > 0 /\ old.id = dec.id /\ dec' = changed
  BY <1>1 DEF Overridden
<1> HIDE DEF original
<1>4. changed.id = dec.id /\ changed.rec = dec.rec /\ changed.override = label
  BY <1>2 DEF DecisionRows
<1> HIDE DEF changed, old
<1> QED
  BY <1>3, <1>4

(* A step leaves the decision row, removes it, puts a new one with an id     *)
(* nobody knows in its place, or writes into it without clearing the         *)
(* override.                                                                 *)
LEMMA DecisionEffect ==
  ASSUME TypeOK, NEW c \in Clients, Arrives(c) \/ Runs(c) \/ Dies(c)
  PROVE  \/ UNCHANGED dec
         \/ dec' = NoDecision
         \/ dec'.id = FreshId
         \/ /\ dec.id > 0 /\ dec'.id = dec.id
            /\ dec'.override = dec.override \/ dec'.override \in OverrideLabels
<1>1. CASE Arrives(c)
  BY <1>1 DEF Arrives, ResumeLoad, EvaluateStarts, GenerateLoad, OverrideLoad, ScheduleLoad,
     Unschedule, OpenLoad, SubmitLoad, PatchLoad, Starts
<1>2. CASE EvaluateWrite(c)
  <2>1. \A rec : [NoDecision EXCEPT !.id = FreshId, !.rec = rec].id = FreshId
    BY DEF NoDecision
  <2>2. UNCHANGED dec \/ \E t : Decided(c, Recommendation(t))
    BY <1>2, EvaluateEffect
  <2> QED
    BY <2>1, <2>2 DEF Decided
<1>3. CASE GenerateInsert(c)
  <2>1. \A rec : [NoDecision EXCEPT !.id = FreshId, !.rec = rec].id = FreshId
    BY DEF NoDecision
  <2>2. dec' = dec \/ \E rec \in OverrideLabels : dec' = [NoDecision EXCEPT !.id = FreshId, !.rec = rec]
    BY <1>3 DEF GenerateInsert
  <2> QED
    BY <2>1, <2>2
<1>4. CASE OverrideWrite(c)
  BY <1>4, OverrideEffect
<1>5. CASE GenerateDelete(c)
  BY <1>5 DEF GenerateDelete
<1>6. CASE \/ ResumeWrite(c) \/ OpenInsert(c) \/ AssessWrite(c) \/ InterviewWrite(c) \/ EvaluateLoad(c)
           \/ ScheduleInsert(c) \/ ScheduleAdvance(c) \/ PatchWrite(c) \/ Dies(c)
  BY <1>6 DEF ResumeWrite, OpenInsert, AssessWrite, InterviewWrite, EvaluateLoad, ScheduleInsert,
     ScheduleAdvance, PatchWrite, Dies, Rows
<1> QED
  BY <1>1, <1>2, <1>3, <1>4, <1>5, <1>6 DEF Runs

-----------------------------------------------------------------------------
(* Overrides.                                                                *)

(* No row, no decision: whoever finds the id 0 finds nothing else.           *)
NoRowNoDecision == dec.id = 0 => dec = NoDecision

(* A row appears with a new id and disappears as a whole.                    *)
LEMMA NoRowPreserved ==
  ASSUME TypeOK, NoRowNoDecision, [Next]_vars
  PROVE  NoRowNoDecision'
<1>1. CASE UNCHANGED vars
  BY <1>1 DEF vars, NoRowNoDecision
<1>2. ASSUME NEW c \in Clients, Arrives(c) \/ Runs(c) \/ Dies(c)
      PROVE  NoRowNoDecision'
  <2>1. FreshId # 0 /\ dec.id \in Nat
    <3>1. Cardinality(Clients) \in Nat
      BY PipelineConstants, FS_CardinalityType
    <3> QED
      BY <3>1, FreshIdIsFresh, RowsAreRows DEF DecisionRows
  <2> QED
    BY <1>2, <2>1, DecisionEffect DEF NoRowNoDecision
<1> QED
  BY <1>1, <1>2 DEF Next

(* However many evaluations, overrides and generated decisions interleave,   *)
(* an override that stands in a row stays in it as long as the row does.     *)
THEOREM OverridesSurvive == Spec => OverrideSurvivesEvaluation
<1> DEFINE Kept == dec'.id = dec.id /\ dec.override # "none" => dec'.override # "none"
<1>1. ASSUME TypeOK, NoRowNoDecision, [Next]_vars PROVE [Kept]_vars
  <2>1. CASE UNCHANGED vars
    BY <2>1
  <2>2. ASSUME NEW c \in Clients, Arrives(c) \/ Runs(c) \/ Dies(c) PROVE Kept
    <3>1. /\ FreshId # dec.id /\ "none" \notin OverrideLabels
          /\ NoDecision.id = 0 /\ NoDecision.override = "none"
      BY FreshIdIsFresh DEF NoDecision, OverrideLabels
    <3>2. \/ UNCHANGED dec
          \/ dec' = NoDecision
          \/ dec'.id = FreshId
          \/ dec'.override = dec.override \/ dec'.override \in OverrideLabels
      BY <1>1, <2>2, DecisionEffect
    <3>3. dec.id = 0 => dec.override = "none"
      BY <1>1, <3>1 DEF NoRowNoDecision
    <3> QED
      BY <3>1, <3>2, <3>3
  <2> QED
    BY <1>1, <2>1, <2>2 DEF Next
<1>2. Init => TypeOK /\ NoRowNoDecision
  BY InitTyped DEF Init, NoRowNoDecision
<1>3. TypeOK /\ NoRowNoDecision /\ [Next]_vars => NoRowNoDecision'
  BY NoRowPreserved
<1>4. TypeOK /\ NoRowNoDecision /\ [Next]_vars => [Kept]_vars
  BY <1>1
<1> QED
  BY <1>2, <1>3, <1>4, TypeCorrect, PTL DEF Spec, OverrideSurvivesEvaluation

-----------------------------------------------------------------------------
(* Stage scores.                                                             *)

(* The kinds of session whose score an application shows.                    *)
SessionKinds == {"assess", "interview"}

(* A session is done when it has a score.                                    *)
MarkedByScore ==
  \A kind \in SessionKinds : \A i \in DOMAIN sessions[kind] :
    sessions[kind][i].done <=> sessions[kind][i].score # NoScore

(* A submission works on a session there is: sessions are never removed.     *)
SubmissionsHaveSession ==
  \A c \in Clients : req[c].op \in SessionKinds => req[c].n \in DOMAIN sessions[req[c].op]

(* A score somebody has loaded is still there, though perhaps another.       *)
ScoresStay ==
  \A c \in Clients : /\ req[c].app.assessment # NoScore => app.assessment # NoScore
                     /\ req[c].app.interview # NoScore => app.interview # NoScore

(* The application has a stage score exactly if a session of the stage has.  *)
ScoresAreAccountedFor ==
  /\ app.assessment = NoScore <=> Scored("assess") = {}
  /\ app.interview = NoScore <=> Scored("interview") = {}

(* What a row of applications shows for the sessions of a kind.              *)
ShownBy(row, kind) == IF kind = "assess" THEN row.assessment ELSE row.interview

(* Whoever submits the only session of a kind has loaded an application that *)
(* showed no score for it, since the session was open then ...               *)
FirstSubmissions ==
  \A c \in Clients : req[c].op \in SessionKinds /\ Len(sessions[req[c].op]) = 1 =>
    ShownBy(req[c].app, req[c].op) = NoScore

(* ... so that the score is flushed with the session's.                      *)
OneSessionIsShown ==
  \A kind \in SessionKinds : Len(sessions[kind]) = 1 => ShownBy(app, kind) = sessions[kind][1].score

(* A completed session has its score, and the others keep theirs.            *)
LEMMA CompletionScores ==
  ASSUME TypeOK, MarkedByScore, NEW kind \in SessionKinds, NEW n \in DOMAIN sessions[kind],
         NEW s \in Scores, sessions' = Completed(kind, n, s)
  PROVE  /\ MarkedByScore' /\ s # NoScore /\ s \in Scored(kind)'
         /\ \A k \in SessionKinds : DOMAIN sessions'[k] = DOMAIN sessions[k]
         /\ \A k \in SessionKinds : k # kind => Scored(k)' = Scored(k)
<1> DEFINE x == [done |-> TRUE, score |-> s]
<1>1. s # NoScore
  BY PipelineConstants DEF NoScore
<1>2. sessions \in [SessionKinds -> Seq([done : BOOLEAN, score : StageScore])]
  BY DEF TypeOK, SessionKinds
<1>3. /\ sessions'[kind] = [sessions[kind] EXCEPT ![n] = x]
      /\ \A k \in SessionKinds : k # kind => sessions'[k] = sessions[k]
  BY <1>2 DEF Completed
<1>4. x.done = TRUE /\ x.score = s
  OBVIOUS
<1> HIDE DEF x
<1>5. /\ DOMAIN sessions'[kind] = DOMAIN sessions[kind]
      /\ \A i \in DOMAIN sessions[kind] : sessions'[kind][i] = IF i = n THEN x ELSE sessions[kind][i]
  BY <1>2, <1>3
<1>6. \A k \in SessionKinds : /\ DOMAIN sessions'[k] = DOMAIN sessions[k]
                              /\ k # kind => Scored(k)' = Scored(k)
  BY <1>3, <1>5 DEF Scored
<1>7. MarkedByScore'
  BY <1>1, <1>3, <1>4, <1>5 DEF MarkedByScore
<1>8. s \in Scored(kind)'
  BY <1>1, <1>4, <1>5 DEF Scored
<1> QED
  BY <1>1, <1>6, <1>7, <1>8

(* A new session has no score yet.                                           *)
LEMMA OpeningScores ==
  ASSUME TypeOK, MarkedByScore, NEW c \in Clients, OpenInsert(c)
  PROVE  /\ MarkedByScore'
         /\ \A k \in SessionKinds : /\ DOMAIN sessions[k] \subseteq DOMAIN sessions'[k]
                                   /\ Scored(k)' = Scored(k)
<1> DEFINE x == [done |-> FALSE, score |-> NoScore]
<1>1. PICK kind \in SessionKinds : kind = OpenKind(req[c].op)
  BY DEF OpenKind, SessionKinds
<1> DEFINE len == Len(sessions[kind])
<1>2. sessions \in [SessionKinds -> Seq([done : BOOLEAN, score : StageScore])]
  BY DEF TypeOK, SessionKinds
<1>3. /\ sessions'[kind] = Append(sessions[kind], x)
      /\ \A k \in SessionKinds : k # kind => sessions'[k] = sessions[k]
  BY <1>1, <1>2 DEF OpenInsert
<1>4. x.done = FALSE /\ x.score = NoScore
  OBVIOUS
<1> HIDE DEF x
<1>5. /\ len \in Nat /\ DOMAIN sessions[kind] = 1..len /\ DOMAIN sessions'[kind] = 1..(len + 1)
      /\ \A i \in 1..(len + 1) : sessions'[kind][i] = IF i = len + 1 THEN x ELSE sessions[kind][i]
  BY <1>1, <1>2, <1>3
<1> HIDE DEF len
<1>6. DOMAIN sessions[kind] \subseteq DOMAIN sessions'[kind]
  BY <1>5
<1>7. Scored(kind)' = Scored(kind)
  <2>1. /\ Scored(kind) = {sessions[kind][i].score : i \in 1..len} \ {NoScore}
        /\ Scored(kind)' = {sessions'[kind][i].score : i \in 1..(len + 1)} \ {NoScore}
    BY <1>5 DEF Scored
  <2>2. \A i \in 1..(len + 1) : i = len + 1 \/ i \in 1..len
    BY <1>5
  <2>3. \A i \in 1..len : i \in 1..(len + 1) /\ i # len + 1
    BY <1>5
  <2> QED
    BY <1>4, <1>5, <2>1, <2>2, <2>3
<1>8. MarkedByScore'
  <2>1. \A i \in 1..(len + 1) : i = len + 1 \/ i \in DOMAIN sessions[kind]
    BY <1>5
  <2>2. \A i \in DOMAIN sessions'[kind] : sessions'[kind][i].done <=> sessions'[kind][i].score # NoScore
    BY <1>1, <1>4, <1>5, <2>1 DEF MarkedByScore
  <2> QED
    BY <1>3, <2>2 DEF MarkedByScore
<1> QED
  BY <1>3, <1>6, <1>7, <1>8 DEF Scored

(* There are sessions of a kind, and the newest of them is open.             *)
NewestIsOpen(kind) ==
  LET n == Len(sessions[kind]) IN n \in DOMAIN sessions[kind] /\ ~sessions[kind][n].done

(* What a request knows when it has arrived.                                 *)
Arrived(q) ==
  /\ q \in RequestRows /\ q.at # "advancing"
  /\ q.app = app \/ (q.app.assessment = NoScore /\ q.app.interview = NoScore)
  /\ q.op \in SessionKinds => q.n \in DOMAIN sessions[q.op] /\ NewestIsOpen(q.op)
  /\ q.op \in SessionKinds \cup {"resume", "schedule"} => q.app = app
  /\ q.op = "evaluate" => q.at = "loading"
  /\ q.op = "override" => q.dec = dec
  /\ q.op = "schedule" => app.status \notin TerminalApplicationStatuses

(* An arrival loads and changes nothing but interview rows.                  *)
LEMMA ArrivalEffect ==
  ASSUME TypeOK, NEW c \in Clients, Arrives(c)
  PROVE  /\ UNCHANGED <<app, sessions, dec>>
         /\ req' = req \/ \E q : Arrived(q) /\ req' = [req EXCEPT ![c] = q]
<1> USE DEF RequestRows
<1>1. /\ app \in ApplicationRows /\ dec \in DecisionRows
      /\ NewApplication \in ApplicationRows /\ NoDecision \in DecisionRows
      /\ NoRequest \in RequestRows
      /\ NewApplication.assessment = NoScore /\ NewApplication.interview = NoScore
  BY EmptyRows DEF TypeOK, NewApplication
<1>2. ASSUME NEW q, Starts(c, q), Arrived(q)
      PROVE  /\ UNCHANGED <<app, sessions, dec>>
             /\ \E r : Arrived(r) /\ req' = [req EXCEPT ![c] = r]
  BY <1>2 DEF Starts
<1>3. \A op \in AllOps : /\ Loads(op) \in RequestRows /\ Loads(op).dec = NoDecision /\ Loads(op).op = op
                         /\ Loads(op).at = "writing" /\ Loads(op).app = app
  BY <1>1 DEF Loads, NoRequest
<1>4. CASE ResumeLoad(c)
  <2>1. Arrived(Loads("resume"))
    BY <1>3 DEF Arrived, SessionKinds, AllOps
  <2> QED
    BY <1>2, <1>4, <2>1 DEF ResumeLoad
<1>5. CASE EvaluateStarts(c)
  <2>1. Arrived([NoRequest EXCEPT !.op = "evaluate", !.at = "loading"])
    BY <1>1 DEF Arrived, SessionKinds, AllOps, NoRequest
  <2> QED
    BY <1>2, <1>5, <2>1 DEF EvaluateStarts
<1>6. CASE GenerateLoad(c)
  <2>1. \A at \in {"inserting", "replacing"} : Arrived([NoRequest EXCEPT !.op = "generate", !.at = at])
    BY <1>1 DEF Arrived, SessionKinds, AllOps, NoRequest
  <2> QED
    BY <1>2, <1>6, <2>1 DEF GenerateLoad
<1>7. CASE OverrideLoad(c)
  <2>1. Arrived([Loads("override") EXCEPT !.app = NewApplication, !.dec = dec])
    BY <1>1, <1>3 DEF Arrived, SessionKinds, AllOps
  <2> QED
    BY <1>2, <1>7, <2>1 DEF OverrideLoad
<1>8. CASE ScheduleLoad(c)
  <2>1. \A n \in Nat : Arrived([Loads("schedule") EXCEPT !.n = n])
    BY <1>1, <1>3, <1>8 DEF Arrived, SessionKinds, AllOps, ScheduleLoad
  <2> QED
    BY <1>2, <1>8, <2>1 DEF ScheduleLoad
<1>9. CASE Unschedule(c)
  BY <1>9 DEF Unschedule
<1>10. ASSUME NEW op \in {"assess_open", "interview_open"}, OpenLoad(c, op)
       PROVE  /\ UNCHANGED <<app, sessions, dec>>
              /\ \E r : Arrived(r) /\ req' = [req EXCEPT ![c] = r]
  <2>1. Arrived([NoRequest EXCEPT !.op = op, !.at = "writing"])
    BY <1>1 DEF Arrived, SessionKinds, AllOps, NoRequest
  <2> QED
    BY <1>2, <1>10, <2>1 DEF OpenLoad
<1>11. ASSUME NEW kind \in {"assess", "interview"}, SubmitLoad(c, kind)
       PROVE  /\ UNCHANGED <<app, sessions, dec>>
              /\ \E r : Arrived(r) /\ req' = [req EXCEPT ![c] = r]
  <2> DEFINE n == Len(sessions[kind])
  <2>1. n \in Nat /\ n \in DOMAIN sessions[kind]
    BY <1>11 DEF TypeOK, SubmitLoad
  <2>3. NewestIsOpen(kind)
    BY <1>11, <2>1 DEF SubmitLoad, NewestIsOpen
  <2> HIDE DEF n, NewestIsOpen
  <2>2. Arrived([Loads(kind) EXCEPT !.n = n])
    BY <1>3, <2>1, <2>3 DEF Arrived, SessionKinds, AllOps
  <2> QED
    BY <1>2, <1>11, <2>2 DEF SubmitLoad, n
<1>12. ASSUME NEW s \in ManualStatuses, PatchLoad(c, s)
       PROVE  /\ UNCHANGED <<app, sessions, dec>>
              /\ \E r : Arrived(r) /\ req' = [req EXCEPT ![c] = r]
  <2> DEFINE a == [NewApplication EXCEPT !.status = s]
  <2>1. s \in ApplicationStatuses
    BY PipelineConstants
  <2>2. a \in ApplicationRows /\ a.assessment = NoScore /\ a.interview = NoScore
    BY <1>1, <2>1 DEF ApplicationRows
  <2>3. [NoRequest EXCEPT !.op = "patch", !.at = "writing", !.app.status = s]
          = [NoRequest EXCEPT !.op = "patch", !.at = "writing", !.app = a]
    BY DEF NoRequest
  <2> HIDE DEF a
  <2>4. Arrived([NoRequest EXCEPT !.op = "patch", !.at = "writing", !.app = a])
    BY <1>1, <2>2 DEF Arrived, SessionKinds, AllOps, NoRequest
  <2> QED
    BY <1>2, <1>12, <2>3, <2>4 DEF PatchLoad
<1> QED
  BY <1>4, <1>5, <1>6, <1>7, <1>8, <1>9, <1>10, <1>11, <1>12 DEF Arrives

(* What a request knows after a step: it has ended, goes on to the           *)
(* evaluation, has loaded for it, or keeps what it had.                      *)
Follows(c, q) ==
  /\ q \in RequestRows /\ q.op \notin SessionKinds \cup {"resume", "override"}
  /\ \/ q.app = app /\ UNCHANGED app
     \/ q.app = req[c].app
     \/ q.app.assessment = NoScore /\ q.app.interview = NoScore
  /\ q.op = "schedule" => req[c].op = "schedule" /\ q.app = req[c].app /\ UNCHANGED app
  /\ q.at = "advancing" => q.op = "schedule" /\ q.app.status = "shortlisted"
  /\ q.op = "evaluate" /\ q.at = "writing" => q.app = app /\ q.dec = dec /\ UNCHANGED <<app, dec>>

(* Every step of a request leads to such a one.                              *)
LEMMA StepRequests ==
  ASSUME TypeOK, NEW c \in Clients, Runs(c) \/ Dies(c)
  PROVE  \E q : Follows(c, q) /\ req' = [req EXCEPT ![c] = q]
<1> USE DEF RequestRows
<1>1. /\ app \in ApplicationRows /\ dec \in DecisionRows /\ req[c] \in RequestRows
      /\ NewApplication \in ApplicationRows /\ NoDecision \in DecisionRows
      /\ NoRequest \in RequestRows
      /\ NewApplication.assessment = NoScore /\ NewApplication.interview = NoScore
  BY EmptyRows, RowsAreRows DEF NewApplication
<1>2. Follows(c, NoRequest)
  BY <1>1 DEF Follows, NoRequest, SessionKinds
<1>3. CASE \/ ResumeWrite(c) \/ OpenInsert(c) \/ AssessWrite(c) \/ EvaluateWrite(c) \/ GenerateInsert(c)
           \/ OverrideWrite(c) \/ ScheduleAdvance(c) \/ PatchWrite(c) \/ Dies(c)
  <2>1. req' = [req EXCEPT ![c] = NoRequest]
    BY <1>3 DEF ResumeWrite, OpenInsert, AssessWrite, EvaluateWrite, GenerateInsert, OverrideWrite,
       ScheduleAdvance, PatchWrite, Dies, Ends, Proceeds
  <2> QED
    BY <1>2, <2>1
<1>4. CASE InterviewWrite(c)
  <2> DEFINE q == [NoRequest EXCEPT !.op = "evaluate", !.at = "loading"]
  <2>1. Follows(c, q)
    BY <1>1 DEF Follows, NoRequest, SessionKinds, AllOps
  <2> HIDE DEF q
  <2> QED
    BY <1>4, <2>1 DEF InterviewWrite, Proceeds, q
<1>5. CASE EvaluateLoad(c)
  <2> DEFINE q == [Loads("evaluate") EXCEPT !.dec = dec]
  <2>1. q \in RequestRows /\ q.op = "evaluate" /\ q.at = "writing" /\ q.app = app /\ q.dec = dec
    BY <1>1 DEF Loads, NoRequest, AllOps
  <2> HIDE DEF q
  <2>2. Follows(c, q)
    BY <1>5, <2>1 DEF Follows, SessionKinds, EvaluateLoad, Rows
  <2> QED
    BY <1>5, <2>2 DEF EvaluateLoad, Proceeds, q
<1>6. CASE GenerateDelete(c)
  <2> DEFINE q == [req[c] EXCEPT !.at = "inserting"]
  <2>1. q \in RequestRows /\ q.op = "generate" /\ q.at = "inserting" /\ q.app = req[c].app
    BY <1>1, <1>6 DEF GenerateDelete, At
  <2> HIDE DEF q
  <2>2. Follows(c, q)
    BY <2>1 DEF Follows, SessionKinds
  <2> QED
    BY <1>6, <2>2 DEF GenerateDelete, Proceeds, q
<1>7. CASE ScheduleInsert(c)
  <2> DEFINE q == [req[c] EXCEPT !.at = "advancing"]
  <2>1. q \in RequestRows /\ q.op = "schedule" /\ q.at = "advancing" /\ q.app = req[c].app
    BY <1>1, <1>7 DEF ScheduleInsert, At
  <2> HIDE DEF q
  <2>2. CASE req[c].app.status = "shortlisted"
    <3>1. Follows(c, q)
      BY <1>7, <2>1, <2>2 DEF Follows, SessionKinds, ScheduleInsert, At
    <3> QED
      BY <1>2, <1>7, <3>1 DEF ScheduleInsert, Proceeds, Ends, q
  <2>3. CASE req[c].app.status # "shortlisted"
    BY <1>2, <1>7, <2>3 DEF ScheduleInsert, Proceeds, Ends
  <2> QED
    BY <2>2, <2>3
<1> QED
  BY <1>3, <1>4, <1>5, <1>6, <1>7 DEF Runs

(* The inductive invariants of the scores, for any number of requests: that  *)
(* there is one whenever there should be, and which it is.                   *)
HavingInvariant == MarkedByScore /\ SubmissionsHaveSession /\ ScoresStay /\ ScoresAreAccountedFor

ScoreInvariant == HavingInvariant /\ FirstSubmissions /\ OneSessionIsShown

(* The requests of a step keep what ScoreInvariant says of them when the     *)
(* sessions grow and the scores stay.                                        *)
LEMMA RequestsFollow ==
  ASSUME TypeOK, SubmissionsHaveSession, ScoresStay, NEW c \in Clients,
         \/ req' = req
         \/ \E q : Arrived(q) /\ UNCHANGED <<app, sessions>> /\ req' = [req EXCEPT ![c] = q]
         \/ \E q : Follows(c, q) /\ req' = [req EXCEPT ![c] = q],
         \A k \in SessionKinds : DOMAIN sessions[k] \subseteq DOMAIN sessions'[k],
         app.assessment # NoScore => app'.assessment # NoScore,
         app.interview # NoScore => app'.interview # NoScore
  PROVE  SubmissionsHaveSession' /\ ScoresStay'
<1>1. \A d \in Clients : d # c => req'[d] = req[d]
  BY DEF TypeOK
<1>2. /\ req'[c].op \in SessionKinds => req'[c].n \in DOMAIN sessions'[req'[c].op]
      /\ req'[c].app.assessment # NoScore => app'.assessment # NoScore
      /\ req'[c].app.interview # NoScore => app'.interview # NoScore
  <2>1. CASE req' = req
    BY <2>1 DEF SubmissionsHaveSession, ScoresStay
  <2>2. CASE \E q : Arrived(q) /\ UNCHANGED <<app, sessions>> /\ req' = [req EXCEPT ![c] = q]
    <3>1. PICK q : Arrived(q) /\ UNCHANGED <<app, sessions>> /\ req' = [req EXCEPT ![c] = q]
      BY <2>2
    <3>2. req'[c] = q
      BY <3>1 DEF TypeOK
    <3> QED
      BY <3>1, <3>2 DEF Arrived
  <2>3. CASE \E q : Follows(c, q) /\ req' = [req EXCEPT ![c] = q]
    <3>1. PICK q : Follows(c, q) /\ req' = [req EXCEPT ![c] = q]
      BY <2>3
    <3>2. req'[c] = q
      BY <3>1 DEF TypeOK
    <3> QED
      BY <3>1, <3>2 DEF Follows, ScoresStay
  <2> QED
    BY <2>1, <2>2, <2>3
<1> QED
  BY <1>1, <1>2 DEF SubmissionsHaveSession, ScoresStay

(* The scores stay accounted for whatever requests do, and how many.         *)
LEMMA HavingPreserved ==
  ASSUME TypeOK, HavingInvariant, [Next]_vars
  PROVE  HavingInvariant'
<1> USE DEF HavingInvariant
<1>1. CASE UNCHANGED vars
  BY <1>1 DEF vars, MarkedByScore, SubmissionsHaveSession, ScoresStay, ScoresAreAccountedFor, Scored
<1>2. ASSUME NEW c \in Clients, Arrives(c)
      PROVE  HavingInvariant'
  <2>1. UNCHANGED <<app, sessions>>
    BY <1>2, ArrivalEffect
  <2>2. SubmissionsHaveSession' /\ ScoresStay'
    BY <1>2, <2>1, ArrivalEffect, RequestsFollow
  <2> QED
    BY <2>1, <2>2 DEF MarkedByScore, ScoresAreAccountedFor, Scored
<1>3. ASSUME NEW c \in Clients, Runs(c) \/ Dies(c)
      PROVE  HavingInvariant'
  <2>1. SUFFICES /\ MarkedByScore' /\ ScoresAreAccountedFor'
                 /\ \A k \in SessionKinds : DOMAIN sessions[k] \subseteq DOMAIN sessions'[k]
                 /\ app.assessment # NoScore => app'.assessment # NoScore
                 /\ app.interview # NoScore => app'.interview # NoScore
    BY <1>3, StepRequests, RequestsFollow
  <2>2. ASSUME UNCHANGED sessions, app'.assessment = app.assessment, app'.interview = app.interview
        PROVE  /\ MarkedByScore' /\ ScoresAreAccountedFor'
               /\ \A k \in SessionKinds : DOMAIN sessions[k] \subseteq DOMAIN sessions'[k]
    BY <2>2 DEF MarkedByScore, ScoresAreAccountedFor, Scored
  <2>3. CASE ResumeWrite(c) \/ ScheduleAdvance(c) \/ PatchWrite(c)
    BY <2>2, <2>3, ResumeEffect, AdvanceEffect, PatchEffect DEF ResumeWrite, ScheduleAdvance, PatchWrite
  <2>4. CASE EvaluateWrite(c)
    <3>1. UNCHANGED sessions
      BY <2>4 DEF EvaluateWrite
    <3>2. app' = app \/ \E t : Explained(c, t)
      BY <2>4, EvaluateEffect
    <3>3. app'.assessment = app.assessment /\ app'.interview = app.interview
      BY <3>2 DEF Explained
    <3> QED
      BY <2>2, <3>1, <3>3
  <2>5. CASE EvaluateLoad(c) \/ GenerateDelete(c) \/ GenerateInsert(c) \/ OverrideWrite(c)
             \/ ScheduleInsert(c) \/ Dies(c)
    BY <2>2, <2>5 DEF EvaluateLoad, GenerateDelete, GenerateInsert, OverrideWrite, ScheduleInsert, Dies, Rows
  <2>6. CASE OpenInsert(c)
    <3>1. UNCHANGED app
      BY <2>6 DEF OpenInsert
    <3>2. Scored("assess")' = Scored("assess") /\ Scored("interview")' = Scored("interview")
      BY <2>6, OpeningScores DEF SessionKinds
    <3> QED
      BY <2>6, <3>1, <3>2, OpeningScores DEF ScoresAreAccountedFor
  <2>7. CASE AssessWrite(c)
    <3>1. PICK s \in Scores : /\ sessions' = Completed("assess", req[c].n, s)
                              /\ app'.assessment = IF s = req[c].app.assessment THEN app.assessment ELSE s
      BY <2>7, AssessEffect
    <3>2. req[c].n \in DOMAIN sessions["assess"]
      BY <2>7 DEF AssessWrite, At, SubmissionsHaveSession, SessionKinds
    <3>3. /\ MarkedByScore' /\ s # NoScore /\ s \in Scored("assess")'
          /\ Scored("interview")' = Scored("interview")
          /\ \A k \in SessionKinds : DOMAIN sessions'[k] = DOMAIN sessions[k]
      <4>1. /\ "assess" \in SessionKinds /\ "interview" \in SessionKinds
            /\ "assess" # "interview" /\ MarkedByScore
        BY DEF SessionKinds
      <4>2. PICK n : n = req[c].n
        OBVIOUS
      <4> HIDE DEF HavingInvariant
      <4> QED
        BY <3>1, <3>2, <4>1, <4>2, CompletionScores
    <3>4. app'.assessment # NoScore
      BY <3>1, <3>3 DEF ScoresStay
    <3>5. app'.interview = app.interview
      BY <2>7, AssessEffect
    <3> QED
      BY <3>3, <3>4, <3>5 DEF ScoresAreAccountedFor
  <2>8. CASE InterviewWrite(c)
    <3>1. PICK s \in Scores : /\ sessions' = Completed("interview", req[c].n, s)
                              /\ app'.interview = IF s = req[c].app.interview THEN app.interview ELSE s
      BY <2>8, InterviewEffect
    <3>2. req[c].n \in DOMAIN sessions["interview"]
      BY <2>8 DEF InterviewWrite, At, SubmissionsHaveSession, SessionKinds
    <3>3. /\ MarkedByScore' /\ s # NoScore /\ s \in Scored("interview")'
          /\ Scored("assess")' = Scored("assess")
          /\ \A k \in SessionKinds : DOMAIN sessions'[k] = DOMAIN sessions[k]
      <4>1. /\ "assess" \in SessionKinds /\ "interview" \in SessionKinds
            /\ "assess" # "interview" /\ MarkedByScore
        BY DEF SessionKinds
      <4>2. PICK n : n = req[c].n
        OBVIOUS
      <4> HIDE DEF HavingInvariant
      <4> QED
        BY <3>1, <3>2, <4>1, <4>2, CompletionScores
    <3>4. app'.interview # NoScore
      BY <3>1, <3>3 DEF ScoresStay
    <3>5. app'.assessment = app.assessment
      BY <2>8, InterviewEffect
    <3> QED
      BY <3>3, <3>4, <3>5 DEF ScoresAreAccountedFor
  <2> QED
    BY <1>3, <2>3, <2>4, <2>5, <2>6, <2>7, <2>8 DEF Runs
<1> QED
  BY <1>1, <1>2, <1>3 DEF Next

(* An application keeps showing what the only session of a kind has.         *)
LEMMA ShownPreserved ==
  ASSUME TypeOK, ScoreInvariant, HavingInvariant', [Next]_vars
  PROVE  FirstSubmissions' /\ OneSessionIsShown'
<1> DEFINE Shape == [SessionKinds -> Seq([done : BOOLEAN, score : StageScore])]
<1>1. sessions \in Shape /\ HavingInvariant /\ FirstSubmissions /\ OneSessionIsShown
  BY DEF TypeOK, ScoreInvariant, SessionKinds
<1>2. CASE UNCHANGED vars
  BY <1>1, <1>2 DEF vars, FirstSubmissions, OneSessionIsShown, ShownBy
<1>3. ASSUME NEW c \in Clients, Arrives(c)
      PROVE  FirstSubmissions' /\ OneSessionIsShown'
  <2>1. UNCHANGED <<app, sessions>>
    BY <1>3, ArrivalEffect
  <2>2. OneSessionIsShown'
    BY <1>1, <2>1 DEF OneSessionIsShown, ShownBy
  <2>3. CASE req' = req
    BY <1>1, <2>1, <2>2, <2>3 DEF FirstSubmissions, ShownBy
  <2>4. CASE \E q : Arrived(q) /\ req' = [req EXCEPT ![c] = q]
    <3>1. PICK q : Arrived(q) /\ req' = [req EXCEPT ![c] = q]
      BY <2>4
    <3>2. req'[c] = q /\ \A d \in Clients : d # c => req'[d] = req[d]
      BY <3>1 DEF TypeOK
    <3>3. ASSUME q.op \in SessionKinds, Len(sessions[q.op]) = 1
          PROVE  ShownBy(q.app, q.op) = NoScore
      <4>1. q.app = app /\ NewestIsOpen(q.op)
        BY <3>1, <3>3 DEF Arrived
      <4>2. 1 \in DOMAIN sessions[q.op] /\ ~sessions[q.op][1].done
        BY <3>3, <4>1 DEF NewestIsOpen
      <4>3. sessions[q.op][1].score = NoScore
        BY <1>1, <3>3, <4>2 DEF HavingInvariant, MarkedByScore
      <4> QED
        BY <1>1, <3>3, <4>1, <4>3 DEF OneSessionIsShown
    <3> QED
      BY <1>1, <2>1, <2>2, <3>2, <3>3 DEF FirstSubmissions, ShownBy
  <2> QED
    BY <1>3, <2>3, <2>4, ArrivalEffect
<1>4. ASSUME NEW c \in Clients, Runs(c) \/ Dies(c),
             \A kind \in SessionKinds : Len(sessions'[kind]) = 1 =>
               /\ Len(sessions[kind]) = 1 \/ \A d \in Clients : req[d].op # kind
               /\ ShownBy(app', kind) = sessions'[kind][1].score
      PROVE  FirstSubmissions' /\ OneSessionIsShown'
  <2>1. PICK q : Follows(c, q) /\ req' = [req EXCEPT ![c] = q]
    BY <1>4, StepRequests
  <2>2. req'[c].op \notin SessionKinds /\ \A d \in Clients : d # c => req'[d] = req[d]
    BY <2>1 DEF TypeOK, Follows
  <2> QED
    BY <1>1, <1>4, <2>2 DEF FirstSubmissions, OneSessionIsShown, ShownBy
<1>5. ASSUME NEW c \in Clients, Runs(c) \/ Dies(c), UNCHANGED sessions,
             app'.assessment = app.assessment, app'.interview = app.interview
      PROVE  FirstSubmissions' /\ OneSessionIsShown'
  BY <1>1, <1>4, <1>5 DEF OneSessionIsShown, ShownBy
<1>6. ASSUME NEW c \in Clients, NEW kind \in SessionKinds, NEW s \in Scores, Runs(c) \/ Dies(c),
             req[c].op = kind, sessions' = Completed(kind, req[c].n, s),
             ShownBy(app', kind) = IF s = ShownBy(req[c].app, kind) THEN ShownBy(app, kind) ELSE s,
             \A k \in SessionKinds : k # kind => ShownBy(app', k) = ShownBy(app, k)
      PROVE  FirstSubmissions' /\ OneSessionIsShown'
  <2> DEFINE n == req[c].n
             x == [done |-> TRUE, score |-> s]
  <2>1. n \in DOMAIN sessions[kind] /\ s # NoScore
    <3>1. req[c].op \in SessionKinds => req[c].n \in DOMAIN sessions[req[c].op]
      BY <1>1 DEF HavingInvariant, SubmissionsHaveSession
    <3>2. s # NoScore
      BY PipelineConstants DEF NoScore
    <3> QED
      BY <1>6, <3>1, <3>2
  <2>2. /\ sessions'[kind] = [sessions[kind] EXCEPT ![n] = x]
        /\ \A k \in SessionKinds : k # kind => sessions'[k] = sessions[k]
    BY <1>1, <1>6 DEF Completed
  <2>3. x.score = s
    OBVIOUS
  <2> HIDE DEF x, n
  <2>4. Len(sessions'[kind]) = Len(sessions[kind])
    BY <1>1, <2>2
  <2>5. ASSUME Len(sessions[kind]) = 1
        PROVE  ShownBy(app', kind) = sessions'[kind][1].score
    <3>1. n = 1
      BY <1>1, <2>1, <2>5
    <3>2. sessions'[kind][1] = x
      BY <1>1, <2>1, <2>2, <3>1
    <3>3. ShownBy(req[c].app, kind) = NoScore
      BY <1>1, <1>6, <2>5 DEF FirstSubmissions
    <3> QED
      BY <1>6, <2>1, <2>3, <3>2, <3>3
  <2>6. \A k \in SessionKinds : Len(sessions'[k]) = 1 =>
           Len(sessions[k]) = 1 /\ ShownBy(app', k) = sessions'[k][1].score
    BY <1>1, <1>6, <2>2, <2>4, <2>5 DEF OneSessionIsShown
  <2> QED
    BY <1>4, <1>6, <2>6
<1>7. ASSUME NEW c \in Clients, Runs(c) \/ Dies(c)
      PROVE  FirstSubmissions' /\ OneSessionIsShown'
  <2>1. CASE ResumeWrite(c) \/ ScheduleAdvance(c) \/ PatchWrite(c)
    BY <1>5, <1>7, <2>1, ResumeEffect, AdvanceEffect, PatchEffect
    DEF ResumeWrite, ScheduleAdvance, PatchWrite
  <2>2. CASE EvaluateWrite(c)
    <3>1. app' = app \/ \E t : Explained(c, t)
      BY <2>2, EvaluateEffect
    <3>2. app'.assessment = app.assessment /\ app'.interview = app.interview
      BY <3>1 DEF Explained
    <3> QED
      BY <1>5, <1>7, <2>2, <3>2 DEF EvaluateWrite
  <2>3. CASE EvaluateLoad(c) \/ GenerateDelete(c) \/ GenerateInsert(c) \/ OverrideWrite(c)
             \/ ScheduleInsert(c) \/ Dies(c)
    BY <1>5, <1>7, <2>3 DEF EvaluateLoad, GenerateDelete, GenerateInsert, OverrideWrite, ScheduleInsert,
       Dies, Rows
  <2>4. CASE OpenInsert(c)
    <3> DEFINE x == [done |-> FALSE, score |-> NoScore]
    <3>1. PICK kind \in SessionKinds : kind = OpenKind(req[c].op)
      BY DEF OpenKind, SessionKinds
    <3>2. /\ sessions'[kind] = Append(sessions[kind], x)
          /\ \A k \in SessionKinds : k # kind => sessions'[k] = sessions[k]
          /\ UNCHANGED app
      BY <1>1, <2>4, <3>1 DEF OpenInsert
    <3>3. x.score = NoScore
      OBVIOUS
    <3> HIDE DEF x
    <3>4. ASSUME Len(sessions'[kind]) = 1
          PROVE  /\ \A d \in Clients : req[d].op # kind
                 /\ ShownBy(app', kind) = sessions'[kind][1].score
      <4>1. sessions[kind] = <<>> /\ sessions'[kind][1] = x
        BY <1>1, <3>2, <3>4
      <4>2. DOMAIN sessions[kind] = {}
        BY <4>1
      <4>3. \A d \in Clients : req[d].op # kind
        BY <1>1, <4>2 DEF HavingInvariant, SubmissionsHaveSession
      <4>4. Scored(kind) = {}
        BY <4>2 DEF Scored
      <4>5. ShownBy(app, kind) = NoScore
        BY <1>1, <4>4 DEF HavingInvariant, ScoresAreAccountedFor, ShownBy, SessionKinds
      <4> QED
        BY <3>2, <3>3, <4>1, <4>3, <4>5
    <3>5. \A k \in SessionKinds : Len(sessions'[k]) = 1 =>
             /\ Len(sessions[k]) = 1 \/ \A d \in Clients : req[d].op # k
             /\ ShownBy(app', k) = sessions'[k][1].score
      BY <1>1, <3>2, <3>4 DEF OneSessionIsShown
    <3> QED
      BY <1>4, <1>7, <3>5
  <2>5. CASE AssessWrite(c)
    <3>1. PICK s \in Scores : /\ sessions' = Completed("assess", req[c].n, s)
                              /\ app'.assessment = IF s = req[c].app.assessment THEN app.assessment ELSE s
      BY <2>5, AssessEffect
    <3>2. req[c].op = "assess" /\ app'.interview = app.interview
      BY <2>5, AssessEffect DEF AssessWrite, At
    <3> QED
      BY <1>6, <1>7, <3>1, <3>2 DEF ShownBy, SessionKinds
  <2>6. CASE InterviewWrite(c)
    <3>1. PICK s \in Scores : /\ sessions' = Completed("interview", req[c].n, s)
                              /\ app'.interview = IF s = req[c].app.interview THEN app.interview ELSE s
      BY <2>6, InterviewEffect
    <3>2. req[c].op = "interview" /\ app'.assessment = app.assessment
      BY <2>6, InterviewEffect DEF InterviewWrite, At
    <3> QED
      BY <1>6, <1>7, <3>1, <3>2 DEF ShownBy, SessionKinds
  <2> QED
    BY <1>7, <2>1, <2>2, <2>3, <2>4, <2>5, <2>6 DEF Runs
<1> QED
  BY <1>2, <1>3, <1>7 DEF Next

(* Both together.                                                            *)
LEMMA ScoresPreserved ==
  ASSUME TypeOK, ScoreInvariant, [Next]_vars
  PROVE  ScoreInvariant'
<1>1. HavingInvariant'
  BY HavingPreserved DEF ScoreInvariant
<1> QED
  BY <1>1, ShownPreserved DEF ScoreInvariant

(* There are no scores at first.                                             *)
LEMMA InitScores == Init => ScoreInvariant
BY DEF Init, ScoreInvariant, HavingInvariant, MarkedByScore, SubmissionsHaveSession, ScoresStay,
   ScoresAreAccountedFor, FirstSubmissions, OneSessionIsShown, Scored, NoRequest, NewApplication,
   SessionKinds

(* However many submissions and first visits interleave and die: a completed *)
(* session always reaches the application, the application has no score      *)
(* without one, and what it shows is the score of the only session.          *)
THEOREM ScoresAreOfSessions == Spec => []ScoresComeFromSessions
<1>1. TypeOK /\ ScoreInvariant /\ [Next]_vars => ScoreInvariant'
  BY ScoresPreserved
<1>2. ScoreInvariant => ScoresComeFromSessions
  BY DEF ScoreInvariant, HavingInvariant, ScoresAreAccountedFor, OneSessionIsShown, ScoresComeFromSessions,
     Shown, ShownBy, SessionKinds
<1> QED
  BY <1>1, <1>2, InitScores, TypeCorrect, PTL DEF Spec

-----------------------------------------------------------------------------
(* Verdicts.                                                                 *)

(* Whoever goes on to advance the status has found a shortlisted application.*)
AdvancesShortlisted ==
  \A c \in Clients : req[c].at = "advancing" => req[c].op = "schedule" /\ req[c].app.status = "shortlisted"

LEMMA AdvancesPreserved ==
  ASSUME TypeOK, AdvancesShortlisted, [Next]_vars
  PROVE  AdvancesShortlisted'
<1>1. CASE UNCHANGED vars
  BY <1>1 DEF vars, AdvancesShortlisted
<1>2. ASSUME NEW c \in Clients, Arrives(c) \/ Runs(c) \/ Dies(c)
      PROVE  AdvancesShortlisted'
  <2>1. CASE req' = req
    BY <2>1 DEF AdvancesShortlisted
  <2>2. CASE req' # req
    <3>1. PICK q : (Arrived(q) \/ Follows(c, q)) /\ req' = [req EXCEPT ![c] = q]
      BY <1>2, <2>2, ArrivalEffect, StepRequests
    <3>2. req'[c] = q /\ \A d \in Clients : d # c => req'[d] = req[d]
      BY <3>1 DEF TypeOK
    <3>3. q.at = "advancing" => q.op = "schedule" /\ q.app.status = "shortlisted"
      BY <3>1 DEF Arrived, Follows
    <3> QED
      BY <3>2, <3>3 DEF AdvancesShortlisted
  <2> QED
    BY <2>1, <2>2
<1> QED
  BY <1>1, <1>2 DEF Next

(* However many requests are under way: only a recruiter, the AI interview   *)
(* and requests that loaded the application before the verdict take it out   *)
(* of hired and rejected.                                                    *)
THEOREM VerdictsStand == Spec => VerdictStands
<1> DEFINE Stands == app.status \in TerminalApplicationStatuses /\ app'.status # app.status =>
                       \E c \in DOMAIN req : /\ req'[c] # req[c]
                                             /\ req[c].op \in {"patch", "interview"} \/ LoadedBefore(c)
<1>1. ASSUME TypeOK, AdvancesShortlisted, [Next]_vars PROVE [Stands]_vars
  <2> SUFFICES ASSUME app.status \in TerminalApplicationStatuses, app'.status # app.status
               PROVE  \E c \in DOMAIN req : /\ req'[c] # req[c]
                                            /\ req[c].op \in {"patch", "interview"} \/ LoadedBefore(c)
    OBVIOUS
  <2>1. PICK c \in Clients : Arrives(c) \/ Runs(c) \/ Dies(c)
    BY <1>1 DEF Next, vars
  <2>2. SUFFICES /\ req[c].op \in {"patch", "interview"} \/ LoadedBefore(c)
                 /\ \E q : req' = [req EXCEPT ![c] = q] /\ q.op \in {"none", "evaluate"}
                 /\ req[c].op = "evaluate" => req' = [req EXCEPT ![c] = NoRequest]
    <3>1. c \in DOMAIN req /\ \A q : req' = [req EXCEPT ![c] = q] => req'[c] = q
      BY <1>1 DEF TypeOK
    <3>2. NoRequest.op = "none"
      BY DEF NoRequest
    <3>3. req[c].op \in {"patch", "interview", "resume", "assess", "evaluate", "schedule"}
      BY <2>2 DEF LoadedBefore
    <3>4. req'[c] # req[c]
      BY <2>2, <3>1, <3>2, <3>3
    <3> QED
      BY <2>2, <3>1, <3>4
  <2>3. /\ NoRequest.op = "none"
        /\ [NoRequest EXCEPT !.op = "evaluate", !.at = "loading"].op = "evaluate"
    BY DEF NoRequest
  <2>4. /\ "applied" \notin TerminalApplicationStatuses
        /\ {"applied", "screening"} \cap TerminalApplicationStatuses = {}
        /\ Decidable \cap TerminalApplicationStatuses = {}
        /\ "shortlisted" \notin TerminalApplicationStatuses
    BY DEF TerminalApplicationStatuses, Decidable
  <2>5. CASE Arrives(c)
    BY <1>1, <2>5, ArrivalEffect
  <2>6. CASE ResumeWrite(c)
    <3>1. req[c].app.status = "applied"
      BY <1>1, <2>6, ResumeEffect
    <3> QED
      BY <2>3, <2>4, <2>6, <3>1 DEF ResumeWrite, At, LoadedBefore, Ends, Proceeds
  <2>7. CASE AssessWrite(c)
    <3>1. req[c].app.status \in {"applied", "screening"}
      BY <1>1, <2>7, AssessEffect
    <3> QED
      BY <2>3, <2>4, <2>7, <3>1 DEF AssessWrite, At, LoadedBefore, Ends, Proceeds
  <2>8. CASE EvaluateWrite(c)
    <3>1. app' = app \/ \E t : Explained(c, t)
      BY <1>1, <2>8, EvaluateEffect
    <3>2. req[c].app.status \in Decidable
      BY <3>1 DEF Explained
    <3> QED
      BY <2>3, <2>4, <2>8, <3>2 DEF EvaluateWrite, At, LoadedBefore, Ends, Proceeds
  <2>9. CASE ScheduleAdvance(c)
    <3>1. req[c].app.status = "shortlisted"
      BY <1>1, <2>9 DEF ScheduleAdvance, At, AdvancesShortlisted
    <3> QED
      BY <2>3, <2>4, <2>9, <3>1 DEF ScheduleAdvance, At, LoadedBefore, Ends, Proceeds
  <2>10. CASE PatchWrite(c)
    BY <2>3, <2>10 DEF PatchWrite, At, Ends, Proceeds
  <2>11. CASE InterviewWrite(c)
    BY <2>3, <2>11 DEF InterviewWrite, At, Proceeds
  <2>12. CASE \/ OpenInsert(c) \/ EvaluateLoad(c) \/ GenerateDelete(c) \/ GenerateInsert(c) \/ OverrideWrite(c)
              \/ ScheduleInsert(c) \/ Dies(c)
    BY <2>12 DEF OpenInsert, EvaluateLoad, GenerateDelete, GenerateInsert, OverrideWrite, ScheduleInsert,
       Dies, Rows
  <2> QED
    BY <2>1, <2>5, <2>6, <2>7, <2>8, <2>9, <2>10, <2>11, <2>12 DEF Runs
<1>2. Init => AdvancesShortlisted
  BY DEF Init, AdvancesShortlisted, NoRequest
<1>3. TypeOK /\ AdvancesShortlisted /\ [Next]_vars => AdvancesShortlisted' /\ [Stands]_vars
  BY <1>1, AdvancesPreserved
<1> QED
  BY <1>2, <1>3, TypeCorrect, PTL DEF Spec, VerdictStands

-----------------------------------------------------------------------------
(* The decision row.                                                         *)

(* A decision is missed only while it is replaced, and after a death then.   *)
LEMMA DecisionMissesPreserved ==
  ASSUME TypeOK, DecisionMissesOnlyInBetween, [Next]_vars
  PROVE  DecisionMissesOnlyInBetween'
<1> DEFINE Between(d) == At(d, "generate", "inserting")
<1>1. CASE UNCHANGED vars
  BY <1>1 DEF vars, DecisionMissesOnlyInBetween, At
<1>2. ASSUME NEW c \in Clients, Arrives(c) \/ Runs(c) \/ Dies(c)
      PROVE  DecisionMissesOnlyInBetween'
  <2>1. FreshId # 0 /\ dec.id \in Nat
    <3>1. Cardinality(Clients) \in Nat
      BY PipelineConstants, FS_CardinalityType
    <3> QED
      BY <3>1, FreshIdIsFresh, RowsAreRows DEF DecisionRows
  <2>2. faults \in Nat /\ DOMAIN req = Clients /\ DOMAIN req' = Clients
    BY TypePreserved DEF TypeOK
  <2>3. \A d \in Clients : d # c => req'[d] = req[d]
    <3>1. req' = req \/ \E q : req' = [req EXCEPT ![c] = q]
      BY <1>2, ArrivalEffect, StepRequests
    <3> QED
      BY <3>1, <2>2
  <2>4. faults' = faults \/ faults' = faults + 1
    BY <1>2 DEF Arrives, Runs, Dies, ResumeLoad, EvaluateStarts, GenerateLoad, OverrideLoad, ScheduleLoad,
       Unschedule, OpenLoad, SubmitLoad, PatchLoad, Starts, ResumeWrite, OpenInsert, AssessWrite,
       InterviewWrite, EvaluateLoad, EvaluateWrite, GenerateDelete, GenerateInsert, OverrideWrite,
       ScheduleInsert, ScheduleAdvance, PatchWrite, Ends, Proceeds
  <2>5. ASSUME app'.json = app.json, dec' = dec, ~Between(c) \/ faults' > 0
        PROVE  DecisionMissesOnlyInBetween'
    BY <2>2, <2>3, <2>4, <2>5 DEF DecisionMissesOnlyInBetween, At
  <2>6. ASSUME dec'.id # 0
        PROVE  DecisionMissesOnlyInBetween'
    BY <2>6 DEF DecisionMissesOnlyInBetween
  <2>7. CASE Arrives(c)
    <3>1. UNCHANGED <<app, dec>> /\ (req[c] = NoRequest)
      BY <2>7, ArrivalEffect DEF Arrives, ResumeLoad, EvaluateStarts, GenerateLoad, OverrideLoad,
         ScheduleLoad, Unschedule, OpenLoad, SubmitLoad, PatchLoad, Starts
    <3> QED
      BY <2>5, <3>1 DEF At, NoRequest
  <2>8. CASE Dies(c)
    BY <2>2, <2>5, <2>8 DEF Dies, Rows
  <2>9. CASE ResumeWrite(c) \/ AssessWrite(c) \/ InterviewWrite(c) \/ ScheduleAdvance(c) \/ PatchWrite(c)
    <3>1. app'.json = app.json
      BY <2>9, ResumeEffect, AssessEffect, InterviewEffect, AdvanceEffect, PatchEffect
    <3>2. UNCHANGED dec /\ ~Between(c)
      BY <2>9 DEF ResumeWrite, AssessWrite, InterviewWrite, ScheduleAdvance, PatchWrite, At
    <3> QED
      BY <2>5, <3>1, <3>2
  <2>10. CASE OpenInsert(c) \/ EvaluateLoad(c) \/ ScheduleInsert(c)
    BY <2>5, <2>10 DEF OpenInsert, EvaluateLoad, ScheduleInsert, Rows, At
  <2>11. CASE GenerateDelete(c)
    <3>1. req' = [req EXCEPT ![c] = [req[c] EXCEPT !.at = "inserting"]] /\ req[c].op = "generate"
      BY <2>11 DEF GenerateDelete, Proceeds, At
    <3>2. req[c] \in RequestRows
      BY RowsAreRows
    <3>3. req'[c].op = "generate" /\ req'[c].at = "inserting"
      BY <2>2, <3>1, <3>2 DEF RequestRows
    <3> QED
      BY <2>2, <3>3 DEF DecisionMissesOnlyInBetween, At
  <2>12. CASE GenerateInsert(c)
    <3>1. \A rec : [NoDecision EXCEPT !.id = FreshId, !.rec = rec].id = FreshId
      BY DEF NoDecision
    <3> QED
      BY <2>1, <2>6, <2>12, <3>1 DEF GenerateInsert
  <2>13. CASE OverrideWrite(c)
    <3>1. UNCHANGED app /\ ~Between(c)
      BY <2>13 DEF OverrideWrite, At
    <3>2. dec' = dec \/ dec'.id # 0
      BY <2>1, <2>13, OverrideEffect
    <3> QED
      BY <2>5, <2>6, <3>1, <3>2
  <2>14. CASE EvaluateWrite(c)
    <3>1. UNCHANGED <<app, dec>> \/ \E rec : Decided(c, rec)
      BY <1>2, <2>14, EvaluateEffect
    <3>2. \A rec : [NoDecision EXCEPT !.id = FreshId, !.rec = rec].id = FreshId
      BY DEF NoDecision
    <3>3. ASSUME NEW rec, Decided(c, rec) PROVE dec'.id # 0
      <4>1. CASE dec' = [NoDecision EXCEPT !.id = FreshId, !.rec = rec]
        BY <2>1, <3>2, <4>1
      <4>2. CASE dec.id > 0 /\ dec'.id = dec.id
        BY <2>1, <4>2
      <4> QED
        BY <3>3, <4>1, <4>2 DEF Decided
    <3>4. ~Between(c)
      BY <2>14 DEF EvaluateWrite, At
    <3> QED
      BY <2>5, <2>6, <3>1, <3>3, <3>4
  <2> QED
    BY <1>2, <2>7, <2>8, <2>9, <2>10, <2>11, <2>12, <2>13, <2>14 DEF Runs
<1> QED
  BY <1>1, <1>2 DEF Next

(* However many evaluations, overrides and regenerations interleave: offers  *)
(* find the decision of an application that was evaluated, except while a    *)
(* regeneration replaces it and after one died doing so.                     *)
THEOREM DecisionsAreThere == Spec => []DecisionMissesOnlyInBetween
<1>1. Init => DecisionMissesOnlyInBetween
  BY DEF Init, DecisionMissesOnlyInBetween, NewApplication
<1>2. TypeOK /\ DecisionMissesOnlyInBetween /\ [Next]_vars => DecisionMissesOnlyInBetween'
  BY DecisionMissesPreserved
<1> QED
  BY <1>1, <1>2, TypeCorrect, PTL DEF Spec

-----------------------------------------------------------------------------
(* One request at a time.                                                    *)

(* No two requests are in flight together.                                   *)
OneClient == \A c, d \in Clients : c = d

(* What the only request has loaded is what the tables hold.                 *)
OnlyRequest ==
  \A c \in Clients :
    /\ req[c].op \in SessionKinds \cup {"resume", "schedule"} => req[c].app = app
    /\ At(c, "evaluate", "writing") => req[c].app = app /\ req[c].dec = dec
    /\ req[c].op = "override" => req[c].dec = dec
    /\ req[c].op = "schedule" => app.status \notin TerminalApplicationStatuses

(* It stays so: who writes the tables has ended or loads them again.         *)
LEMMA OnlyRequestPreserved ==
  ASSUME OneClient, TypeOK, OnlyRequest, [Next]_vars
  PROVE  OnlyRequest'
<1>1. CASE UNCHANGED vars
  BY <1>1 DEF vars, OnlyRequest, At
<1>2. ASSUME NEW c \in Clients, Arrives(c) \/ Runs(c) \/ Dies(c)
      PROVE  OnlyRequest'
  <2>1. SUFFICES /\ req'[c].op \in SessionKinds \cup {"resume", "schedule"} => req'[c].app = app'
                 /\ req'[c].op = "evaluate" /\ req'[c].at = "writing" =>
                      req'[c].app = app' /\ req'[c].dec = dec'
                 /\ req'[c].op = "override" => req'[c].dec = dec'
                 /\ req'[c].op = "schedule" => app'.status \notin TerminalApplicationStatuses
    BY DEF OnlyRequest, OneClient, At
  <2>2. CASE Arrives(c)
    <3>1. CASE req' = req
      BY <2>2, <3>1, ArrivalEffect DEF OnlyRequest, At
    <3>2. CASE req' # req
      <4>1. PICK q : Arrived(q) /\ req' = [req EXCEPT ![c] = q]
        BY <2>2, <3>2, ArrivalEffect
      <4>2. req'[c] = q /\ UNCHANGED <<app, dec>>
        BY <2>2, <4>1, ArrivalEffect DEF TypeOK
      <4> QED
        BY <4>1, <4>2 DEF Arrived
    <3> QED
      BY <3>1, <3>2
  <2>3. CASE Runs(c) \/ Dies(c)
    <3>1. PICK q : Follows(c, q) /\ req' = [req EXCEPT ![c] = q]
      BY <2>3, StepRequests
    <3>2. req'[c] = q
      BY <3>1 DEF TypeOK
    <3> QED
      BY <3>1, <3>2 DEF Follows, OnlyRequest
  <2> QED
    BY <1>2, <2>2, <2>3
<1> QED
  BY <1>1, <1>2 DEF Next

(* Composite, explanation and recommendation agree after every step.         *)
LEMMA DecisionPreserved ==
  ASSUME TypeOK, OnlyRequest, DecisionMatchesComposite, [Next]_vars
  PROVE  DecisionMatchesComposite'
<1> USE DEF DecisionMatchesComposite
<1>1. CASE UNCHANGED <<app, dec>>
  BY <1>1
<1>2. ASSUME UNCHANGED app, dec'.rec = dec.rec \/ dec'.rec \notin CompositeLabels
      PROVE  DecisionMatchesComposite'
  BY <1>2
<1>3. ASSUME NEW c \in Clients, Arrives(c) \/ Runs(c) \/ Dies(c)
      PROVE  DecisionMatchesComposite'
  <2>1. CASE Arrives(c)
    BY <1>1, <2>1, ArrivalEffect
  <2>2. CASE ResumeWrite(c) \/ AssessWrite(c) \/ InterviewWrite(c) \/ ScheduleAdvance(c) \/ PatchWrite(c)
    <3>1. app'.composite = app.composite /\ app'.json = app.json
      BY <2>2, ResumeEffect, AssessEffect, InterviewEffect, AdvanceEffect, PatchEffect
    <3>2. UNCHANGED dec
      BY <2>2 DEF ResumeWrite, AssessWrite, InterviewWrite, ScheduleAdvance, PatchWrite
    <3> QED
      BY <3>1, <3>2
  <2>3. CASE OpenInsert(c) \/ EvaluateLoad(c) \/ ScheduleInsert(c) \/ Dies(c)
    BY <1>1, <2>3 DEF OpenInsert, EvaluateLoad, ScheduleInsert, Dies, Rows
  <2>4. CASE GenerateDelete(c)
    <3>1. dec'.rec \notin CompositeLabels /\ UNCHANGED app
      BY <2>4 DEF GenerateDelete, NoDecision, CompositeLabels
    <3> QED
      BY <1>2, <3>1
  <2>5. CASE GenerateInsert(c)
    <3>1. dec' = dec \/ \E rec \in OverrideLabels : dec' = [NoDecision EXCEPT !.id = FreshId, !.rec = rec]
      BY <2>5 DEF GenerateInsert
    <3>2. \A rec : [NoDecision EXCEPT !.id = FreshId, !.rec = rec].rec = rec
      BY DEF NoDecision
    <3>3. dec'.rec = dec.rec \/ dec'.rec \in OverrideLabels
      BY <3>1, <3>2
    <3>4. dec'.rec = dec.rec \/ dec'.rec \notin CompositeLabels
      BY <3>3 DEF OverrideLabels, CompositeLabels
    <3> QED
      BY <1>2, <2>5, <3>4 DEF GenerateInsert
  <2>6. CASE OverrideWrite(c)
    <3>1. dec'.rec = dec.rec \/ dec'.rec \in OverrideLabels
      BY <2>6, OverrideEffect
    <3>2. dec'.rec = dec.rec \/ dec'.rec \notin CompositeLabels
      BY <3>1 DEF OverrideLabels, CompositeLabels
    <3> QED
      BY <1>2, <2>6, <3>2 DEF OverrideWrite
  <2>7. CASE EvaluateWrite(c)
    <3>1. CASE UNCHANGED <<app, dec>>
      BY <1>1, <3>1
    <3>2. CASE \E t \in 0..1000 : Explained(c, t) /\ Decided(c, Recommendation(t))
      <4>1. PICK t \in 0..1000 : Explained(c, t) /\ Decided(c, Recommendation(t))
        BY <3>2
      <4>2. req[c].app = app /\ req[c].dec = dec
        BY <2>7 DEF EvaluateWrite, OnlyRequest
      <4>3. app'.composite = t /\ app'.json = t
        BY <4>1, <4>2 DEF Explained
      <4>4. \A rec : [NoDecision EXCEPT !.id = FreshId, !.rec = rec].rec = rec
        BY DEF NoDecision
      <4>5. PICK rec : rec = Recommendation(t) /\ Decided(c, rec)
        BY <4>1
      <4>6. dec'.rec = rec
        <5>1. CASE dec' = [NoDecision EXCEPT !.id = FreshId, !.rec = rec]
          BY <4>4, <5>1
        <5>2. CASE dec'.rec = IF rec = req[c].dec.rec THEN dec.rec ELSE rec
          BY <4>2, <5>2
        <5> QED
          BY <4>5, <5>1, <5>2 DEF Decided
      <4> QED
        BY <4>3, <4>5, <4>6
    <3>3. UNCHANGED <<app, dec>> \/ \E t \in 0..1000 : Explained(c, t) /\ Decided(c, Recommendation(t))
      BY <2>7, EvaluateEffect
    <3> QED
      BY <3>1, <3>2, <3>3
  <2> QED
    BY <1>3, <2>1, <2>2, <2>3, <2>4, <2>5, <2>6, <2>7 DEF Runs
<1> QED
  BY <1>1, <1>3 DEF Next, vars

(* The inductive invariant of one request at a time.                         *)
OneInvariant == OnlyRequest /\ DecisionMatchesComposite

(* It holds of the empty tables ...                                          *)
LEMMA InitOne == Init => TypeOK /\ ScoreInvariant /\ OneInvariant
<1>1. Init => OneInvariant
  BY DEF Init, OneInvariant, OnlyRequest, DecisionMatchesComposite, At, NoRequest, NewApplication, NoDecision, SessionKinds, CompositeLabels
<1> QED
  BY <1>1, InitTyped, InitScores

(* ... and after every step of the only client.                              *)
LEMMA OnePreserved ==
  ASSUME OneClient, TypeOK, ScoreInvariant, OneInvariant, [Next]_vars
  PROVE  TypeOK' /\ ScoreInvariant' /\ OneInvariant'
<1>1. TypeOK' /\ ScoreInvariant'
  BY TypePreserved, ScoresPreserved
<1> QED
  BY <1>1, OnlyRequestPreserved, DecisionPreserved DEF OneInvariant

(* The invariant of an application that is written by one request at a time. *)
LEMMA OneInvariantHolds ==
  ASSUME OneClient
  PROVE  Spec => [](TypeOK /\ OneInvariant)
<1>1. TypeOK /\ ScoreInvariant /\ OneInvariant /\ [Next]_vars =>
        TypeOK' /\ ScoreInvariant' /\ OneInvariant'
  BY OnePreserved
<1> QED
  BY <1>1, InitOne, PTL DEF Spec

(* One request at a time: the composite, its explanation and the decision    *)
(* that gates offers say the same.                                           *)
THEOREM DecisionsMatch ==
  ASSUME OneClient
  PROVE  Spec => []DecisionMatchesComposite
<1>1. OneInvariant => DecisionMatchesComposite
  BY DEF OneInvariant
<1> QED
  BY <1>1, OneInvariantHolds, PTL
=============================================================================
