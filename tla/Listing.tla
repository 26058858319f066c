------------------------------ MODULE Listing ------------------------------
(***************************************************************************)
(* A client walks through a list page by page while its rows change: the   *)
(* offers of a job (offer_service.list_offers_for_job), the decisions of a *)
(* job (hiring_recommendation.get_persisted_job_hiring_decisions), the     *)
(* audit log (audit_service.list_for_user) and the hits of a search        *)
(* (recruiter_search), which are three lists one after the other.          *)
(*                                                                         *)
(* A request counts the rows and reads a page of them by statements of     *)
(* their own, each seeing what is committed by then. The lists are kept in *)
(* the order of the query, without ties.                                   *)
(***************************************************************************)
EXTENDS Integers, Sequences, FiniteSets, SequencesExt

CONSTANTS
  Kind,        \* which list
  MaxRows,     \* rows at the start: 1, 2, ...; new ones are -1, -2, ...
  Limit,       \* page size
  MaxOffset,   \* MAX_READ_OFFSET
  MaxChanges   \* bound

(* What the queries say of each list: of how many parts it is; where its     *)
(* order puts new rows and updated ones; whether rows may leave it; whether  *)
(* a request reads its page before it counts.                                *)
OffersOfJob    == [parts |-> 1, adds |-> "front", moves |-> "front", leaves |-> TRUE,  rowsFirst |-> FALSE]
DecisionsOfJob == [parts |-> 1, adds |-> "any",   moves |-> "any",   leaves |-> FALSE, rowsFirst |-> FALSE]
AuditLog       == [parts |-> 1, adds |-> "front", moves |-> "none",  leaves |-> FALSE, rowsFirst |-> TRUE]
SearchHits     == [parts |-> 3, adds |-> "any",   moves |-> "any",   leaves |-> TRUE,  rowsFirst |-> FALSE]

List == [offers |-> OffersOfJob, decisions |-> DecisionsOfJob, audit |-> AuditLog, hits |-> SearchHits][Kind]
Segments == List.parts

VARIABLES
  lists,    \* of each segment its rows, in order
  rq,       \* the request under way
  seen,     \* the pages read, one after the other
  fixed,    \* rows there from the start that nothing touched
  pulled,   \* a row before the pages still to read went away from there
  torn,     \* a change between two statements of one request
  changes
vars == <<lists, rq, seen, fixed, pulled, torn, changes>>

All == FlattenSeq(lists)
Least(a, b) == IF a < b THEN a ELSE b
Slice(s, offset, n) == SubSeq(s, offset + 1, Least(offset + n, Len(s)))

(* clamp_offset; the next page of a walk *)
Request(offset) ==
  [pc |-> IF List.rowsFirst THEN "rows" ELSE "count", offset |-> Least(offset, MaxOffset),
   skip |-> Least(offset, MaxOffset), take |-> Limit, counts |-> <<>>, seg |-> 1, items |-> <<>>]

Init ==
  /\ \E n \in 0..MaxRows, cut1, cut2 \in 0..MaxRows :
       LET ids == [i \in 1..n |-> i]
       IN  /\ cut1 =< cut2 /\ cut2 =< n /\ (Segments = 1 => cut1 = n /\ cut2 = n)
           /\ lists = SubSeq(<<SubSeq(ids, 1, cut1), SubSeq(ids, cut1 + 1, cut2), SubSeq(ids, cut2 + 1, n)>>, 1, Segments)
  /\ rq = Request(0) /\ seen = <<>> /\ fixed = ToSet(All) /\ pulled = FALSE /\ torn = FALSE /\ changes = 0

-----------------------------------------------------------------------------
(* count_..., of one list after the other. The first page whose rows are     *)
(* counted after they were read is complete then.                            *)
Total == FoldLeft(LAMBDA a, b : a + b, 0, rq.counts)

Count ==
  /\ rq.pc = "count"
  /\ LET counts == Append(rq.counts, Len(lists[rq.seg]))
         last   == rq.seg = Segments
     IN  rq' = [rq EXCEPT !.counts = counts,
                          !.seg = IF last THEN 1 ELSE @ + 1,
                          !.pc = IF ~last THEN "count" ELSE IF List.rowsFirst THEN "reply" ELSE "rows"]
  /\ UNCHANGED <<lists, seen, fixed, pulled, torn, changes>>

(* list_..._paginated, list_for_company *)
ReadPage ==
  /\ rq.pc = "rows" /\ Segments = 1
  /\ rq' = [rq EXCEPT !.items = Slice(lists[1], rq.offset, Limit), !.pc = IF List.rowsFirst THEN "count" ELSE "reply"]
  /\ UNCHANGED <<lists, seen, fixed, pulled, torn, changes>>

(* SearchService.search: the segments that the counts say the page is in.    *)
ReadSegment ==
  /\ rq.pc = "rows" /\ Segments > 1
  /\ IF rq.take = 0 \/ rq.seg > Segments THEN rq' = [rq EXCEPT !.pc = "reply"]
     ELSE LET count == rq.counts[rq.seg]
              limit == Least(rq.take, count - rq.skip)
          IN  rq' = [rq EXCEPT !.seg = @ + 1,
                !.skip  = IF @ >= count THEN @ - count ELSE 0,
                !.take  = IF rq.skip >= count THEN @ ELSE @ - limit,
                !.items = IF rq.skip >= count THEN @ ELSE @ \o Slice(lists[rq.seg], rq.skip, limit)]
  /\ UNCHANGED <<lists, seen, fixed, pulled, torn, changes>>

(* The client asks for the next page as long as the total says there is one. *)
Reply ==
  /\ rq.pc = "reply"
  /\ seen' = Append(seen, rq.items)
  /\ rq' = IF rq.offset + Limit < Total /\ rq.offset < MaxOffset
           THEN Request(rq.offset + Limit) ELSE [rq EXCEPT !.pc = "done"]
  /\ UNCHANGED <<lists, fixed, pulled, torn, changes>>

-----------------------------------------------------------------------------
(* A change of row r, which was at place i of segment s (0: nowhere) and is  *)
(* put at place j.                                                           *)
PlaceOf(seg, r) == IF r \in ToSet(lists[seg]) THEN CHOOSE i \in DOMAIN lists[seg] : lists[seg][i] = r ELSE 0
Ahead(seg, i) == Len(FlattenSeq(SubSeq(lists, 1, seg - 1))) + i =< rq.offset + (IF rq.pc = "reply" THEN Limit ELSE 0)

Change(seg, r, j) ==
  LET i == PlaceOf(seg, r)
      rest == IF i = 0 THEN lists[seg] ELSE RemoveAt(lists[seg], i)
  IN  /\ rq.pc # "done" /\ changes < MaxChanges
      /\ lists' = [lists EXCEPT ![seg] = IF j = 0 THEN rest ELSE InsertAt(rest, j, r)]
      /\ fixed' = fixed \ {r}
      /\ pulled' = (pulled \/ (i > 0 /\ Ahead(seg, i) /\ (j = 0 \/ j > i)))
      /\ torn' = (torn \/ rq # Request(rq.offset))
      /\ changes' = changes + 1
      /\ UNCHANGED <<rq, seen>>

Places(where, n) == CASE where = "front" -> {1} [] where = "any" -> 1..n [] OTHER -> {}

Add == \E seg \in 1..Segments : \E j \in Places(List.adds, Len(lists[seg]) + 1) : Change(seg, -(changes + 1), j)
Move == \E seg \in 1..Segments : \E r \in ToSet(lists[seg]), j \in Places(List.moves, Len(lists[seg])) : Change(seg, r, j)
Leave == List.leaves /\ \E seg \in 1..Segments : \E r \in ToSet(lists[seg]) : Change(seg, r, 0)

Next == Count \/ ReadPage \/ ReadSegment \/ Reply \/ Add \/ Move \/ Leave

-----------------------------------------------------------------------------
Reachable == Len(All) =< MaxOffset + Limit

(* A client that has walked to the end saw every row that was there all the  *)
(* time and was not touched, unless a row ahead of it went away or, where    *)
(* the rows are counted first, one came or moved between two statements of a *)
(* request. For the audit log, to which events are only added, there is no   *)
(* exception. With nothing changed the pages are the list, each row once.    *)
WalkSeesAll ==
  rq.pc = "done" /\ Reachable =>
    /\ ~pulled /\ (List.rowsFirst \/ ~torn) => \A r \in fixed : \E n \in DOMAIN seen : r \in ToSet(seen[n])
    /\ changes = 0 /\ MaxOffset % Limit = 0 => FlattenSeq(seen) = All
    /\ \A n \in DOMAIN seen : Len(seen[n]) =< Limit /\ IsInjective(seen[n])
=============================================================================
