------------------------------ MODULE Assistant ------------------------------
(***************************************************************************)
(* The recruiters' assistant: candidates are compared by an AI provider,   *)
(* whose prompt is rendered from a template kept by every process and in   *)
(* data/prompts.json, and whose answers every process keeps for a while.   *)
(*                                                                         *)
(* A process that starts writes the templates it knows, one file for each  *)
(* it adds, and only then reads the file: opening it for writing empties   *)
(* it, so a process that starts at the same time may read half of it. A    *)
(* comparison loads its candidates one by one, asks the cache, asks the    *)
(* provider, which may be out, and keeps whatever came back.               *)
(***************************************************************************)
EXTENDS Integers, Sequences, FiniteSets

CONSTANTS
  Procs, Calls,
  HomeOf,      \* HomeOf[c]: the process that serves the request
  Defaults,    \* names of the default templates, in their order
  Template,    \* the one comparisons are rendered from
  Cands,       \* number of candidates that are compared
  TTL,         \* of AI_RESPONSE_CACHE
  MaxClock, MaxEdits, MaxStarts, MaxAsks   \* bounds

VARIABLES
  store,   \* prompts.json: [whole, has], has: name -> who wrote it
  boot,    \* what each process does: [pc, next]
  known,   \* _templates of each process: name -> who wrote it
  kept,    \* AI_RESPONSE_CACHE of each process: prompt -> [answer, expires]
  version, \* version[i]: of the i-th candidate's row
  ask,     \* request -> [pc, from, read, prompt, answer, at]
  clock, starts, asks

assistantVars == <<store, boot, known, kept, version, ask, clock, starts, asks>>

Names == {Defaults[i] : i \in DOMAIN Defaults}
Down == [pc |-> "down", next |-> 0]
Quiet == [pc |-> "idle", from |-> <<>>, read |-> <<>>, prompt |-> <<>>, answer |-> <<>>, at |-> 0]
Put(f, k, v) == [x \in DOMAIN f \cup {k} |-> IF x = k THEN v ELSE f[x]]

Init ==
  /\ store = [whole |-> TRUE, has |-> <<>>]
  /\ boot = [p \in Procs |-> Down] /\ known = [p \in Procs |-> <<>>]
  /\ kept = [p \in Procs |-> <<>>]
  /\ version = [i \in 1..Cands |-> 0]
  /\ ask = [c \in Calls |-> Quiet]
  /\ clock = 0 /\ starts = 0 /\ asks = 0

Served == UNCHANGED <<kept, version, ask, clock, asks>>
Boots(p, pc, next) == boot' = [boot EXCEPT ![p] = [pc |-> pc, next |-> next]]

-----------------------------------------------------------------------------
(* PromptManager.__init__                                                    *)

Start(p) ==
  /\ boot[p].pc = "down" /\ starts < MaxStarts
  /\ starts' = starts + 1
  /\ Boots(p, "add", 1)
  /\ known' = [known EXCEPT ![p] = <<>>] /\ kept' = [kept EXCEPT ![p] = <<>>]
  /\ UNCHANGED <<store, version, ask, clock, asks>>

(* _load_defaults, add_template: _persist opens the file, which empties it ... *)
Add(p) ==
  /\ boot[p].pc = "add" /\ boot[p].next =< Len(Defaults)
  /\ known' = [known EXCEPT ![p] = Put(@, Defaults[boot[p].next], p)]
  /\ store' = [whole |-> FALSE, has |-> <<>>]
  /\ Boots(p, "write", boot[p].next)
  /\ Served /\ UNCHANGED starts

(* ... and writes all it has. *)
Persist(p) ==
  /\ boot[p].pc = "write"
  /\ store' = [whole |-> TRUE, has |-> known[p]]
  /\ Boots(p, "add", boot[p].next + 1)
  /\ Served /\ UNCHANGED <<known, starts>>

(* _load_from_store: a malformed store, which has nothing, is ignored. *)
LoadFromStore(p) ==
  /\ boot[p].pc = "add" /\ boot[p].next > Len(Defaults)
  /\ known' = [known EXCEPT ![p] =
       [n \in DOMAIN @ \cup DOMAIN store.has |-> IF n \in DOMAIN store.has THEN store.has[n] ELSE @[n]]]
  /\ Boots(p, "up", 0)
  /\ Served /\ UNCHANGED <<store, starts>>

(* The process ends with its memory, at any time it serves nobody. *)
Stop(p) ==
  /\ boot[p].pc # "down" /\ starts < MaxStarts
  /\ \A c \in Calls : HomeOf[c] = p => ask[c].pc = "idle"
  /\ Boots(p, "down", 0)
  /\ Served /\ UNCHANGED <<store, known, starts>>

-----------------------------------------------------------------------------
(* compare_candidates and ChatService.send_message                           *)

StoreSame == UNCHANGED <<store, boot, known, starts, asks>>
Goes(c, r) == ask' = [ask EXCEPT ![c] = r]

Begin(c) ==
  /\ boot[HomeOf[c]].pc = "up" /\ ask[c].pc = "idle" /\ asks < MaxAsks
  /\ asks' = asks + 1
  /\ Goes(c, [Quiet EXCEPT !.pc = "load", !.from = version])
  /\ UNCHANGED <<store, boot, known, starts>> /\ UNCHANGED <<kept, version, clock>>

LoadCandidate(c) ==
  /\ ask[c].pc = "load"
  /\ LET read == Append(ask[c].read, version[Len(ask[c].read) + 1]) IN
     Goes(c, [ask[c] EXCEPT !.read = read, !.pc = IF Len(read) = Cands THEN "render" ELSE "load"])
  /\ StoreSame /\ UNCHANGED <<kept, version, clock>>

(* render raises for a name without a template. *)
Render(c) ==
  /\ ask[c].pc = "render"
  /\ IF Template \in DOMAIN known[HomeOf[c]]
       THEN Goes(c, [ask[c] EXCEPT !.pc = "look", !.prompt = ask[c].read])
       ELSE Goes(c, [Quiet EXCEPT !.pc = "raised"])
  /\ StoreSame /\ UNCHANGED <<kept, version, clock>>

Hit(p, prompt) == prompt \in DOMAIN kept[p] /\ kept[p][prompt].expires > clock

(* The history of the request's own ChatService is this one prompt. *)
Look(c) ==
  /\ ask[c].pc = "look"
  /\ LET p == HomeOf[c] r == ask[c] IN
     Goes(c, IF Hit(p, r.prompt)
               THEN [r EXCEPT !.pc = "answered", !.answer = kept[p][r.prompt].answer, !.at = clock]
               ELSE [r EXCEPT !.pc = "ask"])
  /\ StoreSame /\ UNCHANGED <<kept, version, clock>>

(* generate_text never raises: an outage answers with no content. *)
Generate(c, out) ==
  /\ ask[c].pc = "ask"
  /\ Goes(c, [ask[c] EXCEPT !.pc = "keep", !.answer = [of |-> ask[c].prompt, out |-> out, at |-> clock]])
  /\ StoreSame /\ UNCHANGED <<kept, version, clock>>

Keep(c) ==
  /\ ask[c].pc = "keep"
  /\ LET p == HomeOf[c] r == ask[c] IN
     /\ kept' = [kept EXCEPT ![p] = Put(@, r.prompt, [answer |-> r.answer, expires |-> clock + TTL])]
     /\ Goes(c, [r EXCEPT !.pc = "answered", !.at = clock])
  /\ StoreSame /\ UNCHANGED <<version, clock>>

Return(c) ==
  /\ ask[c].pc \in {"answered", "raised"}
  /\ Goes(c, Quiet)
  /\ StoreSame /\ UNCHANGED <<kept, version, clock>>

-----------------------------------------------------------------------------
EditCandidate(i) ==
  /\ version[i] < MaxEdits
  /\ version' = [version EXCEPT ![i] = @ + 1]
  /\ StoreSame /\ UNCHANGED <<kept, ask, clock>>

(* A provider's timeout is shorter than the unit of time. *)
Tick ==
  /\ clock < MaxClock /\ \A c \in Calls : ask[c].pc # "keep"
  /\ clock' = clock + 1
  /\ StoreSame /\ UNCHANGED <<kept, version, ask>>

Launch(p) == Start(p) \/ Add(p) \/ Persist(p) \/ LoadFromStore(p) \/ Stop(p)
Compare(c) ==
  \/ Begin(c) \/ LoadCandidate(c) \/ Render(c) \/ Look(c)
  \/ (\E out \in BOOLEAN : Generate(c, out)) \/ Keep(c) \/ Return(c)

Next ==
  \/ \E p \in Procs : Launch(p)
  \/ \E c \in Calls : Compare(c)
  \/ \E i \in 1..Cands : EditCandidate(i)
  \/ Tick

-----------------------------------------------------------------------------
TypeOK ==
  /\ store.whole \in BOOLEAN /\ DOMAIN store.has \subseteq Names
  /\ \A p \in Procs : boot[p].pc \in {"down", "add", "write", "up"} /\ DOMAIN known[p] \subseteq Names
  /\ \A p \in Procs : \A k \in DOMAIN kept[p] : k \in [1..Cands -> 0..MaxEdits]
  /\ starts \in 0..MaxStarts

(* However processes that start together overwrite and read one another's    *)
(* file, each that is up can render every default template.                  *)
TemplatesAreKnown ==
  /\ \A p \in Procs : boot[p].pc = "up" => DOMAIN known[p] = Names
  /\ \A c \in Calls : ask[c].pc # "raised"

(* An answer is about the candidates as they were when this request began or *)
(* later, whenever it was generated; and it is blank only if the provider    *)
(* was out less than a TTL ago.                                              *)
ComparisonsAreCurrent ==
  \A c \in Calls : ask[c].pc = "answered" =>
    /\ \A i \in 1..Cands : ask[c].answer.of[i] \in ask[c].from[i] .. version[i]
    /\ ask[c].at - ask[c].answer.at < TTL
=============================================================================
