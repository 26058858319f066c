---------------------------- MODULE RateLimiter ----------------------------
(***************************************************************************)
(* RateLimitMiddleware of middleware/security.py: per client a deque of    *)
(* the times of the requests it let through. The event loop runs dispatch  *)
(* up to call_next without a pause, so each request is one step.           *)
(***************************************************************************)
EXTENDS Integers, Sequences, FiniteSets

CONSTANTS
  Clients,   \* addresses
  Limit,     \* RATE_LIMIT_REQUESTS
  Window,    \* RATE_LIMIT_WINDOW_SECONDS
  MaxTime    \* bound: the clock

VARIABLES
  bucket,    \* _requests
  time,
  passed,    \* history: times of the requests let through, per client
  refused    \* history: times at which a request was refused, per client
vars == <<bucket, time, passed, refused>>

Init ==
  /\ bucket = [c \in Clients |-> <<>>] /\ passed = bucket
  /\ refused = [c \in Clients |-> {}] /\ time = 0

Stale_Before(t) == t < time - Window     \* mutant
Stale(t) == t =< time - Window

(* The while loop pops the first as long as it is stale.                     *)
Popped(b) ==
  CHOOSE n \in 0..Len(b) :
    /\ \A i \in 1..n : Stale(b[i])
    /\ n < Len(b) => ~Stale(b[n + 1])
Pruned(c) == SubSeq(bucket[c], Popped(bucket[c]) + 1, Len(bucket[c]))

(* dispatch *)
Request(c) ==
  /\ IF Len(Pruned(c)) >= Limit
       THEN /\ bucket' = [bucket EXCEPT ![c] = Pruned(c)]
            /\ refused' = [refused EXCEPT ![c] = @ \cup {time}]
            /\ UNCHANGED passed
       ELSE /\ bucket' = [bucket EXCEPT ![c] = Append(Pruned(c), time)]
            /\ passed' = [passed EXCEPT ![c] = Append(@, time)]
            /\ UNCHANGED refused
  /\ UNCHANGED time

Later == time < MaxTime /\ time' = time + 1 /\ UNCHANGED <<bucket, passed, refused>>

Next == (\E c \in Clients : Request(c)) \/ Later

-----------------------------------------------------------------------------
InWindow(c, t) ==
  Cardinality({i \in DOMAIN passed[c] : passed[c][i] > t - Window /\ passed[c][i] =< t})

(* However requests come in, no window lets more than the limit through, and *)
(* none is refused that had room in its window.                              *)
LimitIsExact ==
  \A c \in Clients :
    /\ \A t \in 0..time : InWindow(c, t) =< Limit
    /\ \A t \in refused[c] : InWindow(c, t) = Limit
=============================================================================
