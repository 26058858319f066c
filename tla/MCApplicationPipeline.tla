----------------------- MODULE MCApplicationPipeline -----------------------
(***************************************************************************)
(* ApplicationPipeline for TLC: six instances side by side, one of which   *)
(* a behaviour is of.                                                      *)
(*   "one"      one request at a time, of every kind, one of which may die *)
(*   "race"     two at a time, of the kinds that write the decision        *)
(*   "submit"   two at a time, that open and submit sessions, with two     *)
(*              scores, and a recruiter who gives verdicts                 *)
(*   "verdict"  two at a time, the resume job, assessments, evaluations    *)
(*              and that recruiter                                         *)
(*   "plan"     two at a time, that schedule interviews and give verdicts  *)
(*   "wait"     two at a time, from the AI interview to the decision, fair *)
(***************************************************************************)
EXTENDS ApplicationPipeline, FiniteSetTheorems, TLAPS

CONSTANTS c1, c2

VARIABLE scenario

ByHand      == {"screening", "rejected"}
OverrideOps == {"resume", "evaluate", "generate", "override"}
SubmitOps   == {"assess_open", "assess", "interview_open", "interview", "patch"}
VerdictOps  == {"assess_open", "assess", "resume", "evaluate", "patch"}
PlanOps     == {"resume", "schedule", "patch"}
DecisionOps == {"resume", "interview_open", "interview", "generate"}

(* The first with its theorems.                                              *)
One     == INSTANCE ApplicationPipeline_proofs WITH
             Clients <- {c1}, Ops <- AllOps, Scores <- {40, 90}
Submit  == INSTANCE ApplicationPipeline WITH Ops <- SubmitOps, Scores <- {40, 90}, MaxFaults <- 0
Verdict == INSTANCE ApplicationPipeline WITH Ops <- VerdictOps, MaxFaults <- 0
Plan    == INSTANCE ApplicationPipeline WITH Ops <- PlanOps
Wait    == INSTANCE ApplicationPipeline WITH Ops <- DecisionOps, MaxFaults <- 0

MCInit ==
  \/ scenario = "one"     /\ One!Init
  \/ scenario = "race"    /\ Init
  \/ scenario = "submit"  /\ Submit!Init
  \/ scenario = "verdict" /\ Verdict!Init
  \/ scenario = "plan"    /\ Plan!Init
  \/ scenario = "wait"    /\ Wait!Init

MCNext ==
  \/ scenario = "one"     /\ One!Next
  \/ scenario = "race"    /\ Next
  \/ scenario = "submit"  /\ Submit!Next
  \/ scenario = "verdict" /\ Verdict!Next
  \/ scenario = "plan"    /\ Plan!Next
  \/ scenario = "wait"    /\ Wait!Next

MCSpec ==
  /\ MCInit
  /\ [][MCNext /\ UNCHANGED scenario]_<<vars, scenario>>
  /\ \A c \in Clients : WF_vars(scenario = "wait" /\ Wait!Runs(c))

-----------------------------------------------------------------------------
(* DecisionMatchesComposite, one request at a time, with every kind of       *)
(* request, and the types of what they write.                                *)
DecisionAndCompositeAgree == scenario = "one" => One!TypeOK /\ One!DecisionMatchesComposite

(* A submitted interview is followed by a decision (step 5 of                *)
(* submit_candidate_interview), whoever else writes or replaces the row, if  *)
(* no request dies.                                                          *)
SubmissionIsDecided == (scenario = "wait" /\ InterviewSubmitted) ~> dec.id # 0

-----------------------------------------------------------------------------
(* What ApplicationPipeline_proofs assumes of the constants.                 *)
LEMMA OneConstants ==
  /\ AllOps \subseteq One!AllOps /\ {40, 90} \subseteq 0..100
  /\ ManualStatuses \subseteq One!ApplicationStatuses
  /\ One!IsFiniteSet({c1}) /\ MaxFaults \in Nat
  /\ One!OneClient
<1>1. AllOps = One!AllOps /\ ApplicationStatuses = One!ApplicationStatuses
  BY DEF AllOps, One!AllOps, ApplicationStatuses, One!ApplicationStatuses
<1>2. One!IsFiniteSet({c1}) /\ One!OneClient
  BY FS_Singleton DEF IsFiniteSet, One!IsFiniteSet, One!OneClient
<1>3. ManualStatuses \subseteq ApplicationStatuses /\ MaxFaults \in Nat
  BY PipelineConstants
<1> QED
  BY <1>1, <1>2, <1>3

(* One request at a time, of every kind and in any order, with one that may  *)
(* die: the composite, its explanation and the decision never disagree. It   *)
(* is the theorem of the component, carried over to what TLC runs.           *)
THEOREM OneRequestKeepsDecision == MCSpec => []DecisionAndCompositeAgree
<1> DEFINE Holds == scenario = "one" => One!TypeOK /\ One!ScoreInvariant /\ One!OneInvariant
           MCStep == MCNext /\ UNCHANGED scenario
<1>1. MCInit => Holds
  BY OneConstants, One!InitOne DEF MCInit
<1>2. Holds /\ [MCStep]_<<vars, scenario>> => Holds'
  <2> SUFFICES ASSUME Holds, [MCStep]_<<vars, scenario>>, scenario' = "one" PROVE Holds'
    OBVIOUS
  <2>1. UNCHANGED scenario
    OBVIOUS
  <2>2. [One!Next]_(One!vars)
    BY <2>1 DEF MCNext, vars, One!vars
  <2> QED
    BY <2>1, <2>2, OneConstants, One!OnePreserved
<1>3. Holds => DecisionAndCompositeAgree
  BY DEF DecisionAndCompositeAgree, One!OneInvariant
<1> QED
  BY <1>1, <1>2, <1>3, PTL DEF MCSpec
=============================================================================
