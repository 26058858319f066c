------------------------------- MODULE Copilot -------------------------------
(***************************************************************************)
(* services/recruiter_ai_copilot.py: one summary out of what the resume,   *)
(* the hiring recommendation and the evaluation say of a candidate, and    *)
(* answers to questions found by the words in them. A point is a text,     *)
(* whatever its case and the space around it.                              *)
(***************************************************************************)
EXTENDS Integers, Sequences, FiniteSets, SequencesExt

CONSTANTS
  Points,       \* the points made
  Asked,        \* words of questions
  MaxPoints     \* bound: points of each source

(* Where strengths and concerns come from, in this order; focus areas come   *)
(* from the resume and the recommendation only.                              *)
Sources == <<"resume", "recruiter_ai", "recommendation", "evaluation">>

VARIABLES
  strengths, concerns, focus,   \* source -> sequence of points
  hint,                         \* the recommendation's next_step_hint, "-" if none
  words                         \* the words the topics look for, in the question
vars == <<strengths, concerns, focus, hint, words>>

Empty == [i \in 1..4 |-> <<>>]
Init == strengths = Empty /\ concerns = Empty /\ focus = Empty /\ hint \in {"-"} \cup Points /\ words = {}

-----------------------------------------------------------------------------
(* _dedupe: the first of equal points stays.                                 *)
Dedupe(s) ==
  LET first == {i \in DOMAIN s : \A k \in 1..(i - 1) : s[k] # s[i]}
  IN  [n \in 1..Cardinality(first) |-> s[SetToSortSeq(first, <)[n]]]
Top(n, s) == SubSeq(s, 1, IF n < Len(s) THEN n ELSE Len(s))

(* _candidate_insights_aggregation, _decision_support_summary                *)
Together(bySource) == Dedupe(FlattenSeq([i \in 1..4 |-> bySource[i]]))
StrengthHighlights == Together(strengths)
RiskAndConcerns    == Together(concerns)
PriorityStrengths  == Top(3, StrengthHighlights)
PriorityRisks      == Top(3, RiskAndConcerns)
FocusAreas         == Dedupe(focus[1] \o focus[3])

(* _recruiter_action_recommendations, without talking points.                *)
Actions ==
  (IF hint = "-" THEN <<>> ELSE <<<<"hint", hint>>>>)
    \o [n \in DOMAIN Top(3, FocusAreas) |-> <<"focus", FocusAreas[n]>>]

(* _candidate_qa_orchestration: the first topic with a word of the question, *)
(* skill gaps with both, and the summary if there is none.                   *)
Topics == <<"profile", "strengths", "concerns", "gaps", "interview", "decision">>
WordsOf == [profile   |-> {"profile", "summary", "resume"},
            strengths |-> {"strength", "best", "highlight"},
            concerns  |-> {"concern", "risk", "weakness"},
            gaps      |-> {"skill", "gap"},
            interview |-> {"interview", "focus", "probe"},
            decision  |-> {"recommend", "decision", "why"}]
Speaks(q, t) == IF t = "gaps" THEN WordsOf[t] \subseteq q ELSE q \cap WordsOf[t] # {}
Topic(q) ==
  LET on == {i \in DOMAIN Topics : Speaks(q, Topics[i])}
  IN  IF on = {} THEN "summary" ELSE Topics[CHOOSE i \in on : \A k \in on : i <= k]
Answer(q) ==
  CASE Topic(q) = "strengths" -> Top(3, StrengthHighlights)
    [] Topic(q) = "concerns"  -> Top(3, RiskAndConcerns)
    [] Topic(q) = "interview" -> Top(4, FocusAreas)
    [] OTHER -> <<>>

(* What is asked if the recruiter asks nothing.                              *)
DefaultQuestions ==
  [profile |-> {"profile", "summary"}, strengths |-> {"strength"}, concerns |-> {"concern"},
   gaps |-> {"skill", "gap"}, interview |-> {"interview", "focus"}, decision |-> {"recommend", "why"}]

-----------------------------------------------------------------------------
Says(bySource, i, p) == Len(bySource[i]) < MaxPoints /\ p \notin ToSet(bySource[i])
Strength == \E i \in 1..4, p \in Points :
  /\ Says(strengths, i, p) /\ strengths' = [strengths EXCEPT ![i] = Append(@, p)]
  /\ UNCHANGED <<concerns, focus, hint, words>>
Concern == \E i \in 1..4, p \in Points :
  /\ Says(concerns, i, p) /\ concerns' = [concerns EXCEPT ![i] = Append(@, p)]
  /\ UNCHANGED <<strengths, focus, hint, words>>
Focus == \E i \in {1, 3}, p \in Points :
  /\ Says(focus, i, p) /\ focus' = [focus EXCEPT ![i] = Append(@, p)]
  /\ UNCHANGED <<strengths, concerns, hint, words>>
Word == \E w \in Asked :
  /\ words' = words \cup {w} /\ UNCHANGED <<strengths, concerns, focus, hint>>

-----------------------------------------------------------------------------
Said(bySource) == UNION {ToSet(bySource[i]) : i \in 1..4}

(* No point of any source is lost or repeated, one that more sources make    *)
(* goes by the first; the answers, the priorities and the actions name the   *)
(* same points; and each default question gets the answer to its own topic.  *)
SummaryHoldsTogether ==
  /\ \A s \in {strengths, concerns, focus} :
       /\ IsInjective(Together(s)) /\ ToSet(Together(s)) = Said(s)
       /\ \A i, k \in 1..4 : \A p \in ToSet(s[i]) : \A r \in ToSet(s[k]) \ UNION {ToSet(s[j]) : j \in 1..i} :
            i < k => \E m, n \in DOMAIN Together(s) : m < n /\ Together(s)[m] = p /\ Together(s)[n] = r
  /\ Topic(words) = "strengths" => Answer(words) = PriorityStrengths
  /\ Topic(words) = "concerns"  => Answer(words) = PriorityRisks
  /\ \A a \in ToSet(Actions) : a[1] = "focus" => a[2] \in ToSet(Answer(DefaultQuestions["interview"]))
  /\ \A t \in DOMAIN DefaultQuestions : Topic(DefaultQuestions[t]) = t
=============================================================================
