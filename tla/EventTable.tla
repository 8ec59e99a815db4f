----------------------------- MODULE EventTable -----------------------------
(***************************************************************************)
(* The queries of db.py on the events table, as operators on the set of    *)
(* the ids it holds.  The content of a row never changes after its insert, *)
(* so a set of ids is all these queries can tell apart.                    *)
(***************************************************************************)
EXTENDS Integers, FiniteSets

(* SELECT id FROM events ORDER BY id DESC LIMIT n: the n greatest ids; SQLite *)
(* reads a negative LIMIT as no limit.                                       *)
Newest(ids, n) ==
  IF n < 0 THEN ids ELSE {i \in ids : Cardinality({j \in ids : j > i}) < n}

(* Variants of the trim: one row too few, one too many is kept; the oldest  *)
(* are kept.                                                               *)
TrimmedTooMany(ids, keep) == ids \cap Newest(ids, keep - 1)
TrimmedTooFew(ids, keep) == ids \cap Newest(ids, keep + 1)
TrimmedNewest(ids, keep) ==
  {i \in ids : Cardinality({j \in ids : j < i}) < keep}

Least(ids) == CHOOSE i \in ids : \A j \in ids : i <= j

(* Variant: no more than the oldest row goes.                              *)
TrimmedByOne(ids, keep) ==
  IF Cardinality(ids) > keep THEN ids \ {Least(ids)} ELSE ids

(* trim_events(keep): DELETE the rows whose id is not among the newest.    *)
Trimmed(ids, keep) == ids \cap Newest(ids, keep)

(* Variant: the row right after last_id is passed over.                    *)
RowsWellAfter(ids, last, limit) == {i \in ids : i > last + 1}

(* list_events_after(last_id, limit): the oldest `limit` rows after last_id. *)
RowsAfter(ids, last, limit) ==
  {i \in ids : /\ i > last
               /\ Cardinality({j \in ids : last < j /\ j < i}) < limit}

(* min_event_id(): COALESCE(MIN(id), 0).                                   *)
MinEventId(ids) == IF ids = {} THEN 0 ELSE Least(ids)
=============================================================================
