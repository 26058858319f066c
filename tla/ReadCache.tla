------------------------------ MODULE ReadCache ------------------------------
(***************************************************************************)
(* core/read_cache.py and its use by the reporting and dashboard services: *)
(* read-through answers kept for TTL seconds in one process, dropped by    *)
(* prefix when a request of that process changed the company. The cache is *)
(* locked call by call, not from the miss to the set.                      *)
(***************************************************************************)
EXTENDS Integers, FiniteSets

CONSTANTS
  Readers,   \* requests that read a report, over and over
  Keys,      \* pairs <<company, view>>
  TTL,       \* REPORTING_CACHE_TTL_SECONDS
  MaxSize,   \* READ_CACHE_MAX_ENTRIES
  MaxClock,  \* bound: seconds
  MaxWrites  \* bound: changes of a company

Companies == {k[1] : k \in Keys}

VARIABLES
  data,     \* data[c]: version of the company's rows
  told,     \* history: the last version announced to this process
  cache,    \* key -> [value, expires, over]
  reader,   \* reader -> [pc, key, value, over]
  now
vars == <<data, told, cache, reader, now>>

(* "over", a history: the company was announced to have changed since the    *)
(* rows were read.                                                           *)
Idle == [pc |-> "idle", key |-> CHOOSE k \in Keys : TRUE, value |-> 0, over |-> FALSE]

Init ==
  /\ data = [c \in Companies |-> 0] /\ told = data
  /\ cache = <<>> /\ now = 0
  /\ reader = [r \in Readers |-> Idle]

Fresh(k)  == k \in DOMAIN cache /\ cache[k].expires > now
Without(f, ks) == [k \in DOMAIN f \ ks |-> f[k]]

(* _cached_response: a hit is the answer ...                                 *)
Get(r, k) ==
  /\ reader[r].pc = "idle"
  /\ IF Fresh(k)
       THEN UNCHANGED <<cache, reader>>
       ELSE /\ cache' = Without(cache, {k})
            /\ reader' = [reader EXCEPT ![r].pc = "miss", ![r].key = k]
  /\ UNCHANGED <<data, told, now>>

(* ... a miss calls the loader ...                                           *)
Load(r) ==
  /\ reader[r].pc = "miss"
  /\ reader' = [reader EXCEPT ![r].pc = "loaded", ![r].value = data[reader[r].key[1]], ![r].over = FALSE]
  /\ UNCHANGED <<data, told, cache, now>>

(* _prune_locked, then the entry that expires first makes room.              *)
Oldest(f) == CHOOSE k \in DOMAIN f : \A j \in DOMAIN f : f[k].expires =< f[j].expires
Roomy(f, k) ==
  IF Cardinality(DOMAIN f) >= MaxSize /\ k \notin DOMAIN f THEN Without(f, {Oldest(f)}) ELSE f
Kept == Without(cache, {k \in DOMAIN cache : cache[k].expires =< now})

(* ... and stores what it returned.                                          *)
Set(r) ==
  /\ reader[r].pc = "loaded"
  /\ LET k == reader[r].key
         e == [value |-> reader[r].value, expires |-> now + TTL, over |-> reader[r].over]
         room == Roomy(Kept, k)
     IN  cache' = [x \in DOMAIN room \cup {k} |-> IF x = k THEN e ELSE room[x]]
  /\ reader' = [reader EXCEPT ![r] = Idle]
  /\ UNCHANGED <<data, told, now>>

(* A change that this process announces later or, being made by another      *)
(* process or a service that does not announce its changes, never.           *)
Write(c) ==
  /\ data[c] < MaxWrites
  /\ data' = [data EXCEPT ![c] = @ + 1]
  /\ UNCHANGED <<told, cache, reader, now>>

Dropped_OneKey(c) == {k \in DOMAIN cache : k = CHOOSE x \in Keys : x[1] = c}   \* mutant
(* delete_prefix *)
Dropped(c) == {k \in DOMAIN cache : k[1] = c}

(* invalidate_company_reporting_cache *)
Invalidate(c) ==
  /\ told[c] < data[c]
  /\ told' = [told EXCEPT ![c] = data[c]]
  /\ cache' = Without(cache, Dropped(c))
  /\ reader' = [r \in Readers |-> [reader[r] EXCEPT !.over = @ \/ (reader[r].pc = "loaded" /\ reader[r].key[1] = c)]]
  /\ UNCHANGED <<data, now>>

Tick == now < MaxClock /\ now' = now + 1 /\ UNCHANGED <<data, told, cache, reader>>

Next ==
  \/ \E r \in Readers : (\E k \in Keys : Get(r, k)) \/ Load(r) \/ Set(r)
  \/ \E c \in Companies : Write(c) \/ Invalidate(c)
  \/ Tick

-----------------------------------------------------------------------------
(* A report older than the last announced change is served only because it   *)
(* was being loaded while the change was announced, and for TTL seconds at   *)
(* most; the cache never holds more than its maximum.                        *)
StaleOnlyByOverlap ==
  /\ Cardinality(DOMAIN cache) =< MaxSize
  /\ \A k \in DOMAIN cache :
       cache[k].value < told[k[1]] => cache[k].over /\ cache[k].expires =< now + TTL
=============================================================================
