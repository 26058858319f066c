--------------------------- MODULE MCCalendarSync ---------------------------
(***************************************************************************)
(* CalendarSync for TLC: three instances, one of which a behaviour is of.  *)
(*   "order"  one worker, every call of recruiters and admins, a provider  *)
(*            that may fail once                                           *)
(*   "crash"  the same with one request less and a worker that may crash   *)
(*   "pair"   two workers, fair, one of which may crash                    *)
(***************************************************************************)
EXTENDS CalendarSync_proofs

CONSTANTS r1, r2, r3, w1, w2

VARIABLE scenario

Everything == {"schedule", "reschedule", "cancel", "reopen", "resume", "complete",
               "delete", "disable", "disconnect", "connect"}

(* The two of one worker with their theorems.                                *)
Order == INSTANCE CalendarSync_proofs WITH
           Workers <- {w1}, Changes <- Everything, MaxFaults <- 1, MaxCrashes <- 0
Crashing == INSTANCE CalendarSync_proofs WITH
           Requests <- {r1, r2}, Workers <- {w1}, Changes <- Everything, MaxFaults <- 1

MCInit ==
  \/ scenario = "order" /\ Order!Init
  \/ scenario = "crash" /\ Crashing!Init
  \/ scenario = "pair"  /\ Init

OrderNext == scenario = "order" /\ Order!Next
CrashNext == scenario = "crash" /\ Crashing!Next
PairNext  == scenario = "pair"  /\ Next

(* Calls are all alike: it does for all orders that r1 begins first, then r2. *)
Begun(r) == r \in DOMAIN req' /\ req'[r].pc # "idle"
InTurn == (Begun(r2) => Begun(r1)) /\ (Begun(r3) => Begun(r2))

MCNext == (OrderNext \/ CrashNext \/ PairNext) /\ InTurn /\ UNCHANGED scenario

(* Requests run to their end and the worker processes poll for ever. *)
MCSpec ==
  /\ MCInit
  /\ [][MCNext]_<<vars, scenario>>
  /\ \A r \in Requests : WF_vars(scenario = "pair" /\ RequestStep(r))
  /\ \A w \in Workers : WF_vars(scenario = "pair" /\ WorkerStep(w))

-----------------------------------------------------------------------------
(* The instances' properties, each stated in CalendarSync. *)

(* One worker never makes two events of an interview, whatever is called and *)
(* fails (OneEvent); two keep the types of what they write.                  *)
OneWorkerOneEvent ==
  /\ scenario = "order" => OneEvent
  /\ scenario = "pair"  => TypeOK

(* The status of the sync row tells what the calendar has, for one worker,   *)
(* also if it crashes (StatusIsTrue).                                        *)
OneWorkerStatusIsTrue ==
  /\ scenario = "order" => Order!StatusIsTrue
  /\ scenario = "crash" => Crashing!StatusIsTrue

(* No late or retried job of one worker puts an older schedule back into the *)
(* calendar.                                                                 *)
NeverGoesBack ==
  [][scenario = "order" =>
       \A e \in DOMAIN events \cap DOMAIN events' : events'[e] >= events[e]]_vars

(* A row marked "pending" is worked on until it is something else, although  *)
(* requests overlap, two workers race and one crashes - unless a submission  *)
(* found a job with its key and was dropped.                                 *)
PendingResolves == (scenario = "pair" /\ Pending) ~> (scenario = "pair" => ~Pending \/ Dropped)

-----------------------------------------------------------------------------
(* Each behaviour keeps the inductive invariant of its instance.             *)
Holds ==
  /\ scenario = "order" => Order!OneEventInvariant
  /\ scenario = "crash" => Crashing!WorkerInvariant
  /\ scenario = "pair"  => SyncInvariant

(* What the theorems of one worker ask of the constants.                     *)
LEMMA OneWorkerEach == Order!OneWorker /\ Crashing!OneWorker
BY DEF Order!OneWorker, Crashing!OneWorker

(* The assumptions on the constants hold of both.                            *)
LEMMA OneWorkerConstants ==
  /\ Everything \subseteq {"schedule", "reschedule", "cancel", "reopen", "resume",
                           "complete", "delete", "disable", "disconnect", "connect"}
  /\ MaxAttempts \in Nat \ {0} /\ MaxCrashes \in Nat /\ 1 \in Nat /\ 0 \in Nat
  /\ None \notin Nat \cup Order!SyncRows
  /\ None \notin Nat \cup Crashing!SyncRows
BY CalendarConstants, NoneIsNothing DEF Everything, SyncRows, Order!SyncRows, Crashing!SyncRows

(* The initial states and the steps.                                         *)
LEMMA HoldsInit == MCInit => Holds
BY OneWorkerConstants, SyncInit, Order!OneEventInit, Crashing!WorkerInit DEF MCInit, Holds

LEMMA HoldsPreserved == Holds /\ [MCNext]_<<vars, scenario>> => Holds'
<1> SUFFICES ASSUME Holds, [MCNext]_<<vars, scenario>> PROVE Holds'
  OBVIOUS
<1>1. scenario' = scenario
  BY DEF MCNext
<1>2. CASE scenario = "order"
  <2>1. [Order!Next]_(Order!vars)
    BY <1>2 DEF MCNext, OrderNext, CrashNext, PairNext, vars, Order!vars
  <2> QED
    BY <1>1, <1>2, <2>1, OneWorkerConstants, OneWorkerEach, Order!OneEventPreserved DEF Holds
<1>3. CASE scenario = "crash"
  <2>1. [Crashing!Next]_(Crashing!vars)
    BY <1>3 DEF MCNext, OrderNext, CrashNext, PairNext, vars, Crashing!vars
  <2> QED
    BY <1>1, <1>3, <2>1, OneWorkerConstants, OneWorkerEach, Crashing!WorkerPreserved DEF Holds
<1>4. CASE scenario = "pair"
  <2>1. [Next]_vars
    BY <1>4 DEF MCNext, OrderNext, CrashNext, PairNext
  <2> QED
    BY <1>1, <1>4, <2>1, SyncPreserved DEF Holds
<1> QED
  BY <1>1, <1>2, <1>3, <1>4 DEF Holds

(* One worker never makes two events of an interview, for any requests of    *)
(* recruiters and failures; any number of workers keep the types.            *)
THEOREM OneWorkerKeepsOneEvent == MCSpec => []OneWorkerOneEvent
<1>1. Holds => OneWorkerOneEvent
  <2>1. Order!OneEvent => OneEvent
    BY DEF Order!OneEvent, OneEvent, Order!Cardinality, Cardinality, Order!IsFiniteSet, IsFiniteSet
  <2> QED
    BY <2>1, OneWorkerConstants, SyncInvariantTypes, Order!OneEventInvariantCounts
    DEF Holds, OneWorkerOneEvent
<1> QED
  BY <1>1, HoldsInit, HoldsPreserved, PTL DEF MCSpec, MCNext

(* The status of the sync row tells what the calendar has, for one worker,   *)
(* also if it crashes.                                                       *)
THEOREM OneWorkerKeepsStatus == MCSpec => []OneWorkerStatusIsTrue
<1>1. Holds => OneWorkerStatusIsTrue
  BY OneWorkerConstants, Order!WorkerInvariantTells, Crashing!WorkerInvariantTells
  DEF Holds, OneWorkerStatusIsTrue, Order!OneEventInvariant
<1> QED
  BY <1>1, HoldsInit, HoldsPreserved, PTL DEF MCSpec, MCNext

(* No late or retried job of one worker puts an older schedule back into the *)
(* calendar.                                                                 *)
THEOREM OneWorkerGoesForward == MCSpec => NeverGoesBack
<1>1. Holds /\ [MCNext]_<<vars, scenario>> =>
        [scenario = "order" =>
           \A e \in DOMAIN events \cap DOMAIN events' : events'[e] >= events[e]]_vars
  <2> SUFFICES ASSUME Holds, [MCNext]_<<vars, scenario>>, scenario = "order"
               PROVE  \A e \in DOMAIN events \cap DOMAIN events' : events'[e] >= events[e]
    OBVIOUS
  <2>1. [Order!Next]_(Order!vars)
    BY DEF MCNext, OrderNext, CrashNext, PairNext, vars, Order!vars
  <2> QED
    BY <2>1, OneWorkerConstants, OneWorkerEach, Order!CallsGoForward
    DEF Holds, Order!OneEventInvariant, Order!GoesForward
<1> QED
  BY <1>1, HoldsInit, HoldsPreserved, PTL DEF MCSpec, MCNext, NeverGoesBack
=============================================================================
