-------------------------- MODULE NotificationList --------------------------
(***************************************************************************)
(* One recipient's inbox (services/notification.py): rows, newest first,   *)
(* and the pages and counts read from them. Rows of a category the         *)
(* recipient switched off stay in the table and are dropped after the      *)
(* query, so the query fetches more rows than the page needs.              *)
(***************************************************************************)
EXTENDS Integers, SequencesExt

CONSTANTS
  Categories,   \* categories that occur
  Mandatory,    \* MANDATORY_NOTIFICATION_CATEGORIES
  MaxLimit,     \* MAX_NOTIFICATION_LIMIT
  MaxRows       \* bound: rows of the recipient

VARIABLES rows,   \* notifications, newest first: [cat, unread]
          hidden  \* in_app_disabled_categories
vars == <<rows, hidden>>

Init == rows = <<>> /\ hidden = {}

Least(a, b) == IF a =< b THEN a ELSE b

(* _channel_allowed *)
Visible(row) == row.cat \in Mandatory \/ row.cat \notin hidden
Unread(row)  == row.unread

(* clamp_limit *)
Clamped(limit) == IF limit < 1 THEN 1 ELSE Least(limit, MaxLimit)

FetchLimit(limit, offset) == Least(3 * (limit + offset), MaxLimit)

(* _list_for_recipient: what the query returns and is visible ... *)
Kept(limit, offset) ==
  SelectSeq(SubSeq(rows, 1, Least(FetchLimit(Clamped(limit), offset), Len(rows))), Visible)

Slice(s, limit, offset) == SubSeq(s, offset + 1, Least(offset + limit, Len(s)))

(* ... of which the page is cut, and everything is counted. *)
Page_OfQuery(limit, offset) ==                                                \* mutant
  SelectSeq(Slice(rows, Clamped(limit), offset), Visible)
Page(limit, offset)   == Slice(Kept(limit, offset), Clamped(limit), offset)
Total(limit, offset)  == Len(Kept(limit, offset))
UnreadCount(limit, offset) == Len(SelectSeq(Kept(limit, offset), Unread))

(* _summary_for_recipient *)
Summary == [total |-> Total(MaxLimit, 0), unread |-> UnreadCount(MaxLimit, 0)]

(* create_notification *)
Arrive(c) ==
  /\ Len(rows) < MaxRows
  /\ rows' = <<[cat |-> c, unread |-> TRUE]>> \o rows
  /\ UNCHANGED hidden

(* _set_status *)
SetStatus(i, unread) ==
  /\ rows' = [rows EXCEPT ![i].unread = unread]
  /\ UNCHANGED hidden

(* mark_all_read_for_recipient: hidden rows too. *)
MarkAll ==
  /\ rows' = [i \in DOMAIN rows |-> [rows[i] EXCEPT !.unread = FALSE]]
  /\ UNCHANGED hidden

(* _apply_update of the preferences *)
Disable(cs) == hidden' = cs /\ UNCHANGED rows

Next ==
  \/ \E c \in Categories : Arrive(c)
  \/ \E i \in DOMAIN rows, u \in BOOLEAN : SetStatus(i, u)
  \/ MarkAll
  \/ \E cs \in SUBSET (Categories \ Mandatory) : Disable(cs)

-----------------------------------------------------------------------------
AllVisible == SelectSeq(rows, Visible)
HiddenRows == Len(rows) - Len(AllVisible)

(* As long as the hidden rows leave room in the query, the page is the one   *)
(* that would be cut from all visible rows.                                  *)
PageIsExact ==
  \A limit \in 1..MaxLimit, offset \in 0..MaxRows :
    (limit + offset + HiddenRows =< FetchLimit(limit, offset)) =>
      Page(limit, offset) = Slice(AllVisible, limit, offset)

(* The pages of a recipient who hides nothing are all of the rows, each      *)
(* once, up to the largest query.                                            *)
PagesCoverRows ==
  \A limit \in 1..2 : hidden = {} =>
    FlattenSeq([p \in 1..(MaxLimit \div limit) |-> Page(limit, (p - 1) * limit)])
      = SubSeq(rows, 1, Least(limit * (MaxLimit \div limit), Len(rows)))

(* The summary counts what is visible, unread and in all, as long as the     *)
(* table holds no more rows than the largest query returns.                  *)
SummaryIsExact ==
  Len(rows) =< MaxLimit =>
    Summary = [total |-> Len(AllVisible), unread |-> Len(SelectSeq(AllVisible, Unread))]
=============================================================================
