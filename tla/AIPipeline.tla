----------------------------- MODULE AIPipeline -----------------------------
(***************************************************************************)
(* One request to an AI pipeline (ai/pipelines): the prompt goes to the    *)
(* provider, is sent again when the provider or the reading of its text    *)
(* fails, and what comes back is checked against the pipeline's schema.    *)
(* Where no answer can be used a deterministic one takes its place: in the *)
(* pipeline itself or, for a resume, in the job that called it.            *)
(*                                                                         *)
(* Of a reply only what the checks look at is kept. The recommendation and *)
(* the single questions are never checked, whatever the schemas say of     *)
(* them (_validate_object reads "type" and "required" only).               *)
(***************************************************************************)
EXTENDS Integers

CONSTANTS MaxAttempts,   \* AI_RETRY_ATTEMPTS
          Scores, Items  \* a provider's scores, and numbers of questions

VARIABLES kind, key, phase, calls, reply, answer
vars == <<kind, key, phase, calls, reply, answer>>

Kinds == {"resume", "assessment", "interview", "evaluation"}

(* complete: every field the schema requires is there, with its type;        *)
(* lists: so are the lists a resume's schema names without a type.           *)
Replies == [body : {"list", "object"}, complete : BOOLEAN, lists : BOOLEAN, score : Scores, items : Items]

Nothing == [body |-> "object", complete |-> FALSE, lists |-> FALSE, score |-> 0, items |-> 0]
NoReply == [Nothing EXCEPT !.body = "none"]
Pending == [source |-> "none", score |-> 0, items |-> 0]

Init ==
  /\ kind \in Kinds /\ key \in BOOLEAN
  /\ phase = "ask" /\ calls = 0 /\ reply = NoReply /\ answer = Pending

-----------------------------------------------------------------------------
(* _execute_with_retry, around generate_json. Without a key, or with no text *)
(* in the response, the reply is {}.                                         *)
Answered ==
  /\ phase = "ask"
  /\ \E r \in Replies \cup {Nothing} : (key \/ r = Nothing) /\ reply' = r
  /\ phase' = "check" /\ calls' = calls + 1
  /\ UNCHANGED <<kind, key, answer>>

(* Mutant: the attempt that failed is not counted.                           *)
Failed_Uncounted ==
  /\ phase = "ask" /\ key
  /\ phase' = IF calls + 1 >= MaxAttempts THEN "failed" ELSE "sleep"
  /\ UNCHANGED <<kind, key, calls, reply, answer>>

(* An HTTP error or timeout, a body that is no JSON, or text that is none or *)
(* is a scalar.                                                              *)
Failed ==
  /\ phase = "ask" /\ key
  /\ phase' = IF calls + 1 >= MaxAttempts THEN "failed" ELSE "sleep"
  /\ calls' = calls + 1
  /\ UNCHANGED <<kind, key, reply, answer>>

Backoff == phase = "sleep" /\ phase' = "ask" /\ UNCHANGED <<kind, key, calls, reply, answer>>

-----------------------------------------------------------------------------
Clamped(x) == IF x < 0 THEN 0 ELSE IF x > 100 THEN 100 ELSE x

Valid(r) == r.body = "object" /\ r.complete   \* validate_json_schema

Accepted_AnyLength(k, r) == Valid(r) /\ (k = "resume" => r.lists)    \* mutant
(* What each pipeline adds to it.                                            *)
Accepted(k, r) ==
  /\ Valid(r)
  /\ k = "resume"     => r.lists
  /\ k = "assessment" => r.items > 0
  /\ k = "interview"  => r.items >= 3

Check ==
  /\ phase = "check"
  /\ IF Accepted(kind, reply)
     THEN /\ phase' = "done"
          /\ answer' = [source |-> "ai", score |-> Clamped(reply.score), items |-> reply.items]
     ELSE phase' = "failed" /\ UNCHANGED answer
  /\ UNCHANGED <<kind, key, calls, reply>>

(* FALLBACK_QUESTION_BANK and FALLBACK_INTERVIEW_QUESTIONS: how many there    *)
(* are. The scores of the other two are those of AnswerScore and ResumeScore.*)
Bank == [assessment |-> 5, interview |-> 4, evaluation |-> 0, resume |-> 0]

Fallback ==
  /\ phase = "failed" /\ phase' = "done"
  /\ \E s \in Scores \cap 0..100 :
       answer' = [source |-> "fallback", score |-> s, items |-> Bank[kind]]
  /\ UNCHANGED <<kind, key, calls, reply>>

Next == Answered \/ Failed \/ Backoff \/ Check \/ Fallback

-----------------------------------------------------------------------------
(* Whatever the provider does, its caller gets a score that is one or enough *)
(* questions to ask, from no more requests than are allowed; the fallback    *)
(* only when they all failed or one brought an answer of no use, and never   *)
(* an answer the provider did not give.                                      *)
AnswerIsUsable ==
  /\ calls =< MaxAttempts
  /\ phase = "done" =>
       /\ answer.score \in 0..100
       /\ kind = "assessment" => answer.items >= 1
       /\ kind = "interview"  => answer.items >= 3
       /\ answer.source = "fallback" => calls = MaxAttempts \/ (reply # NoReply /\ ~Accepted(kind, reply))
       /\ answer.source = "ai" => key /\ calls > 0 /\ Valid(reply)

(* The caller gets its answer.                                               *)
AnswerComes == phase = "done"
=============================================================================
