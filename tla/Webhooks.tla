------------------------------- MODULE Webhooks -------------------------------
(***************************************************************************)
(* The webhook configurations of one company: admins who create, change,   *)
(* switch and delete them, the dispatcher that queues one job per          *)
(* subscriber of an event, and the worker that posts it.                   *)
(*                                                                         *)
(* A change loads the row, writes the columns that differ from what it     *)
(* loaded, refreshes the row and records what the refresh shows in the     *)
(* audit trail: four steps, among which those of other admins may fall.    *)
(* The worker asks for the row again when a job's turn comes, and holds no *)
(* lock while it posts.                                                    *)
(***************************************************************************)
EXTENDS Integers, FiniteSets

CONSTANTS
  Hooks,        \* ids of configurations
  Calls,        \* admins, with one request at a time each
  Urls,         \* endpoints that pass validate_webhook_endpoint_url
  Kinds,        \* WEBHOOK_ELIGIBLE_EVENTS
  Types,        \* nonempty sets of them that are subscribed to
  Created,      \* rows that are created
  MaxCalls,     \* bound: requests
  MaxEvents,    \* bound: changes that are dispatched
  MaxAttempts,  \* max_attempts of a delivery job
  MaxFaults     \* bound: requests that die and posts that fail

VARIABLES
  row,    \* webhooks rows: hook -> the row, Absent or Gone
  call,   \* call -> [pc, op, hook, new, saw]
  trail,  \* audit entries: [hook, action, shows]
  jobs,   \* webhook.delivery jobs: <<hook, event>> -> [status, tries]
  post,   \* the job whose request the worker is sending, or Idle
  got,    \* history: <<hook, event>> -> requests its endpoint received
  off,    \* history: hooks switched off or deleted at some time
  begun, events, faults

webhookVars == <<row, call, trail, jobs, post, got, off, begun, events, faults>>

Absent == [is |-> "absent"]
Gone   == [is |-> "gone"]
Row(u, k, a) == [is |-> "row", url |-> u, types |-> k, active |-> a]
Rows   == {Row(u, k, a) : u \in Urls, k \in Types, a \in BOOLEAN}
Idle == <<>>
NoCall == [pc |-> "idle", op |-> "-", hook |-> "-", new |-> <<>>, saw |-> Absent]

Init ==
  /\ row = [h \in Hooks |-> Absent]
  /\ call = [c \in Calls |-> NoCall]
  /\ trail = {} /\ jobs = <<>> /\ post = Idle /\ got = <<>> /\ off = {}
  /\ begun = 0 /\ events = 0 /\ faults = 0

Live(h) == row[h].is = "row"
Goes(c, pc) == call' = [call EXCEPT ![c].pc = pc]
Ends(c, pc) == call' = [call EXCEPT ![c] = [NoCall EXCEPT !.pc = pc]]
Begins(c) == call[c].pc = "idle" /\ begun < MaxCalls /\ begun' = begun + 1
DeliverySame == UNCHANGED <<jobs, post, got, events>>

-----------------------------------------------------------------------------
(* WebhookService                                                            *)

(* create: the row is committed before it is recorded. *)
Create(c, h, r) ==
  /\ Begins(c) /\ row[h] = Absent
  /\ row' = [row EXCEPT ![h] = r]
  /\ call' = [call EXCEPT ![c] = [NoCall EXCEPT !.pc = "refresh", !.op = "created", !.hook = h]]
  /\ off' = IF r.active THEN off ELSE off \cup {h}
  /\ DeliverySame /\ UNCHANGED <<trail, faults>>

(* WebhookUpdate needs a field; list, get and whatever meets no row change   *)
(* nothing.                                                                  *)
Changes ==
  {[url |-> u] : u \in Urls} \cup {[types |-> k] : k \in Types}
  \cup {[url |-> u, types |-> k] : u \in Urls, k \in Types}
Switches == {[active |-> a] : a \in BOOLEAN}

(* update, set_active and delete load the row they were asked for. *)
Load(c, h, op, new) ==
  /\ Begins(c) /\ Live(h)
  /\ call' = [call EXCEPT ![c] = [pc |-> "write", op |-> op, hook |-> h, new |-> new, saw |-> row[h]]]
  /\ DeliverySame /\ UNCHANGED <<row, trail, off, faults>>

Begin(c, h) ==
  \/ \E n \in Changes  : Load(c, h, "updated", n)
  \/ \E n \in Switches : Load(c, h, "switched", n)
  \/ Load(c, h, "deleted", <<>>)

(* The UPDATE names the columns whose value differs from the loaded one.     *)
Written(c) ==
  LET x == call[c] IN
  [f \in DOMAIN row[x.hook] |->
     IF f \in DOMAIN x.new /\ x.new[f] # x.saw[f] THEN x.new[f] ELSE row[x.hook][f]]

(* An UPDATE of a row that is gone raises; a DELETE of it does not. *)
Write(c) ==
  /\ call[c].pc = "write" /\ UNCHANGED begun
  /\ LET x == call[c] h == x.hook IN
     IF x.op = "deleted"
     THEN /\ row' = [row EXCEPT ![h] = Gone]
          /\ off' = off \cup {h}
          /\ Goes(c, "audit")
     ELSE /\ row' = IF Live(h) THEN [row EXCEPT ![h] = Written(c)] ELSE row
          /\ off' = IF Live(h) /\ ~Written(c).active THEN off \cup {h} ELSE off
          /\ IF Live(h) THEN Goes(c, "refresh") ELSE Ends(c, "idle")
  /\ DeliverySame /\ UNCHANGED <<trail, faults>>

(* BaseRepository refreshes after its commit; a row deleted meanwhile raises. *)
Refresh(c) ==
  /\ call[c].pc = "refresh" /\ UNCHANGED begun
  /\ IF Live(call[c].hook)
       THEN call' = [call EXCEPT ![c].pc = "audit", ![c].saw = row[call[c].hook]]
       ELSE Ends(c, "idle")
  /\ DeliverySame /\ UNCHANGED <<row, trail, off, faults>>

(* emit_audit *)
Record(c) ==
  /\ call[c].pc = "audit" /\ UNCHANGED begun
  /\ trail' = trail \cup {[hook |-> call[c].hook, action |-> call[c].op, shows |-> call[c].saw]}
  /\ Ends(c, "idle")
  /\ DeliverySame /\ UNCHANGED <<row, off, faults>>

(* The call dies; or its entry fails to be written, which emit_audit keeps to *)
(* itself.                                                                   *)
Die(c) ==
  /\ call[c].pc \in {"write", "refresh", "audit"} /\ faults < MaxFaults
  /\ faults' = faults + 1 /\ UNCHANGED begun
  /\ Ends(c, "died")
  /\ DeliverySame /\ UNCHANGED <<row, trail, off>>

-----------------------------------------------------------------------------
(* WebhookEventDispatcher and WebhookDeliveryJobHandler                      *)

(* list_active_for_event, then a job for each; Notifications has the steps.  *)
Subscribers(k) == {h \in Hooks : Live(h) /\ row[h].active /\ k \in row[h].types}

Dispatch(k) ==
  /\ events < MaxEvents
  /\ events' = events + 1
  /\ LET new == {<<h, events + 1>> : h \in Subscribers(k)} IN
     /\ jobs' = [x \in DOMAIN jobs \cup new |->
                   IF x \in new THEN [status |-> "pending", tries |-> 0] ELSE jobs[x]]
     /\ got' = [x \in DOMAIN jobs \cup new |-> IF x \in new THEN 0 ELSE got[x]]
  /\ UNCHANGED <<row, call, trail, post, off, begun, faults>>

Runnable(k) == jobs[k].status \in {"pending", "retryable"}
SetStatus(k, s) == jobs' = [jobs EXCEPT ![k].status = s]

(* execute: a deleted webhook fails the job, one switched off ends it.       *)
Take(k) ==
  /\ post = Idle /\ k \in DOMAIN jobs /\ Runnable(k)
  /\ CASE ~Live(k[1]) -> SetStatus(k, "failed") /\ post' = Idle
       [] Live(k[1]) /\ ~row[k[1]].active -> SetStatus(k, "succeeded") /\ post' = Idle
       [] OTHER -> post' = k /\ UNCHANGED jobs
  /\ UNCHANGED <<row, call, trail, got, off, begun, events, faults>>

(* deliver: a 2xx, an answer of RETRYABLE_STATUS_CODES or none in time, any  *)
(* other answer; a request that timed out may have been received all the     *)
(* same, and so may one whose worker dies before it commits.                 *)
Answers == {"ok", "busy", "timeout", "refused", "crash"}
Answered(k, a) ==
  CASE a = "ok" -> SetStatus(k, "succeeded")
    [] a = "refused" -> SetStatus(k, "failed")
    [] a = "crash" -> UNCHANGED jobs
    [] OTHER -> jobs' = [jobs EXCEPT ![k] =
         [status |-> IF @.tries + 1 >= MaxAttempts THEN "failed" ELSE "retryable", tries |-> @.tries + 1]]

Send(a, received) ==
  /\ post # Idle
  /\ a = "ok" \/ faults < MaxFaults
  /\ (a = "ok" => received) /\ (a \in {"busy", "refused"} => ~received)
  /\ faults' = IF a = "ok" THEN faults ELSE faults + 1
  /\ Answered(post, a)
  /\ got' = IF received THEN [got EXCEPT ![post] = @ + 1] ELSE got
  /\ post' = Idle
  /\ UNCHANGED <<row, call, trail, off, begun, events>>

-----------------------------------------------------------------------------
Manage(c) ==
  \/ \E h \in Hooks, r \in Created : Create(c, h, r)
  \/ \E h \in Hooks : Begin(c, h)
  \/ Write(c) \/ Refresh(c) \/ Record(c) \/ Die(c)

Deliver ==
  \/ \E k \in DOMAIN jobs : Take(k)
  \/ \E a \in Answers, r \in BOOLEAN : Send(a, r)

Next ==
  \/ \E c \in Calls : Manage(c)
  \/ \E k \in Kinds : Dispatch(k)
  \/ Deliver

-----------------------------------------------------------------------------
TypeOK ==
  /\ row \in [Hooks -> Rows \cup {Absent, Gone}]
  /\ \A k \in DOMAIN jobs : jobs[k].tries \in 0..MaxAttempts
  /\ got \in [DOMAIN jobs -> Nat] /\ off \subseteq Hooks

(* Once the calls have returned, none died and no entry was lost, the audit  *)
(* trail shows each configuration as it is, however their steps were mixed:  *)
(* some entry has its endpoint together with its subscriptions, some its     *)
(* switch, and one the deletion of what is gone.                             *)
TrailTellsRows ==
  (\A c \in Calls : call[c].pc = "idle") =>
    \A h \in Hooks :
      LET of == {e \in trail : e.hook = h} IN
      /\ row[h] = Gone => \E e \in of : e.action = "deleted"
      /\ Live(h) =>
           /\ \E e \in of : e.action \in {"created", "updated"}
                            /\ e.shows.url = row[h].url /\ e.shows.types = row[h].types
           /\ \E e \in of : e.action \in {"created", "switched"} /\ e.shows.active = row[h].active

(* An event reaches every endpoint that was subscribed when it happened:     *)
(* its job never ends in success unheard but for a webhook that was switched *)
(* off or deleted, and never fails before the endpoint failed. It is heard   *)
(* twice only after a failure.                                               *)
SubscribersHear ==
  \A k \in DOMAIN jobs :
    /\ jobs[k].status = "succeeded" => got[k] > 0 \/ k[1] \in off
    /\ jobs[k].status = "failed" => faults > 0 \/ k[1] \in off
    /\ got[k] =< 1 + faults
=============================================================================
