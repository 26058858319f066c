----------------------------- MODULE AuditTrail -----------------------------
(***************************************************************************)
(* services/audit_service.py: emit_audit writes an event to the table      *)
(* audit_events and then to a log file of one line per event, for which a  *)
(* second file keeps an index by candidate; either write may fail without  *)
(* the other. A lock per process covers log and index; the API and the     *)
(* worker processes share the files.                                       *)
(*                                                                         *)
(* The index is read, truncated and written again. Whoever finds it        *)
(* truncated starts a new one.                                             *)
(***************************************************************************)
EXTENDS Integers, FiniteSets, Sequences, SequencesExt

CONSTANTS
  Events,       \* an event each, in a thread of its own
  CandidateOf,  \* CandidateOf[e]: the candidate its metadata names
  ProcessOf,    \* ProcessOf[e]: the process of the thread
  MaxFaults     \* bound: statements and writes that fail, threads that die

VARIABLES
  table,    \* audit_events
  log,      \* audit_log.jsonl
  index,    \* audit_index.json: events by candidate, or Truncated
  pc, read, \* of each thread: where it is, the index it has read
  failed, lostLog,  \* histories: threads whose insert, whose write of the files failed
  crossed   \* history: threads of two processes were at the index together
vars == <<table, log, index, pc, read, failed, lostLog, crossed>>

Candidates == {CandidateOf[e] : e \in Events}
NoEvents  == [c \in Candidates |-> <<>>]
Truncated == [c \in Candidates |-> <<"truncated">>]

Init ==
  /\ table = {} /\ log = <<>> /\ index = NoEvents
  /\ pc = [e \in Events |-> "row"] /\ read = [e \in Events |-> NoEvents]
  /\ failed = {} /\ lostLog = {} /\ crossed = FALSE

Goes(e, to) == pc' = [pc EXCEPT ![e] = to]
Faults == Cardinality(failed) + Cardinality(lostLog)

(* persist: the row is a commit of its own; an error is logged.              *)
Persist(e) ==
  /\ pc[e] = "row" /\ Goes(e, "log")
  /\ \/ table' = table \cup {e} /\ UNCHANGED failed
     \/ Faults < MaxFaults /\ failed' = failed \cup {e} /\ UNCHANGED table
  /\ UNCHANGED <<log, index, read, lostLog, crossed>>

InLock == {"read", "open", "write"}
Locked_NoLock(p) == FALSE                                                 \* mutant
Locked(p) == \E e \in Events : ProcessOf[e] = p /\ pc[e] \in InLock

(* append_event: the line ...                                                *)
AppendLine(e) ==
  /\ pc[e] = "log" /\ ~Locked(ProcessOf[e])
  /\ log' = Append(log, e) /\ Goes(e, "read")
  /\ crossed' = (crossed \/ \E x \in Events : ProcessOf[x] # ProcessOf[e] /\ pc[x] \in InLock)
  /\ UNCHANGED <<table, index, read, failed, lostLog>>

(* ... the index, read ...                                                   *)
ReadIndex(e) ==
  /\ pc[e] = "read" /\ Goes(e, "open")
  /\ LET found == IF index = Truncated THEN NoEvents ELSE index
     IN  read' = [read EXCEPT ![e] = [found EXCEPT ![CandidateOf[e]] = Append(@, e)]]
  /\ UNCHANGED <<table, log, index, failed, lostLog, crossed>>

(* ... opened for writing, which truncates it ...                            *)
OpenIndex(e) ==
  /\ pc[e] = "open" /\ Goes(e, "write")
  /\ index' = Truncated
  /\ UNCHANGED <<table, log, read, failed, lostLog, crossed>>

(* ... and written.                                                          *)
WriteIndex(e) ==
  /\ pc[e] = "write" /\ Goes(e, "done")
  /\ index' = read[e]
  /\ UNCHANGED <<table, log, read, failed, lostLog, crossed>>

(* The file system refuses, or the thread dies where it is.                  *)
FileError(e) ==
  /\ Faults < MaxFaults /\ pc[e] \in {"log"} \cup InLock
  /\ Goes(e, "done") /\ lostLog' = lostLog \cup {e}
  /\ UNCHANGED <<table, log, index, read, failed, crossed>>

Next == \E e \in Events :
  Persist(e) \/ AppendLine(e) \/ ReadIndex(e) \/ OpenIndex(e) \/ WriteIndex(e) \/ FileError(e)

-----------------------------------------------------------------------------
(* get_candidate_event_ids, get_candidate_timeline: the log is searched only *)
(* when the index has nothing. Of the lines found their order is left out.   *)
Timeline(c) ==
  LET ids == IF index = Truncated THEN <<>> ELSE index[c]
  IN  {e \in Events : Contains(log, e) /\ IF ids # <<>> THEN Contains(ids, e) ELSE CandidateOf[e] = c}

(* Nothing that happened is forgotten: an event that was emitted is in the   *)
(* table and in the log, but where that very write failed; and while neither *)
(* another process met it at the index nor a write failed, it is on its      *)
(* candidate's timeline, also while the index is being rewritten.            *)
TrailIsComplete ==
  \A e \in Events : pc[e] = "done" =>
    /\ e \in table \/ e \in failed
    /\ Contains(log, e) \/ e \in lostLog
    /\ ~crossed /\ lostLog = {} => e \in Timeline(CandidateOf[e])
=============================================================================
