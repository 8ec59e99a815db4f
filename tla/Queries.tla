------------------------------- MODULE Queries ------------------------------
(***************************************************************************)
(* What the read endpoints compute from the tables: GET /api/recent,       *)
(* /api/stats, /metrics and /health.  Each is one read on the idle event   *)
(* loop (a kill apart), so an operator on the state is all of it; the list *)
(* and the detail of a request are in Dashboard.                           *)
(***************************************************************************)
EXTENDS EventLog

CONSTANT RecentLimit  \* a limit that /api/recent is asked for

ASSUME RecentAssumption == RecentLimit \in 1..200

-----------------------------------------------------------------------------
(* The feed of asks and answers, as the ids of its events.                 *)

Creations == {i \in table : log[i].kind \in {"request.created", "answer.created"}}

(* The object is still there; of an answer, the request as well.           *)
Alive(e) == /\ e.request \in DOMAIN requests
            /\ e.kind = "answer.created" => e.answer \in DOMAIN answers

(* Variant: the LIMIT is applied before the kind is looked at.             *)
RecentOfAllKinds(limit) ==
  {i \in Creations \cap Newest(table, limit) : Alive(log[i])}

(* The LIMIT is part of the query, dead rows are dropped from its result.  *)
Recent(limit) == {i \in Newest(Creations, limit) : Alive(log[i])}

-----------------------------------------------------------------------------
Asks(c) == {r \in DOMAIN requests : requests[r].client = c}

ClientStats(c) ==
  [total    |-> Cardinality(Asks(c)),
   open     |-> Cardinality({r \in Asks(c) : requests[r].status = "open"}),
   closed   |-> Cardinality({r \in Asks(c) : requests[r].status = "closed"}),
   given    |-> Cardinality({a \in DOMAIN answers : answers[a].solver = c}),
   received |-> Cardinality({answers[a].request : a \in DOMAIN answers} \cap Asks(c))]

EventsBuffered == Cardinality(table)

-----------------------------------------------------------------------------
(* The feed is capped by the events it looks at, not by the entries it     *)
(* shows (db.py:305-322): what is alive shows up as long as fewer than     *)
(* RecentLimit asks and answers, alive or deleted since, came after it and *)
(* its event is one of the last EventBuffer - and nothing shows up twice.  *)
FeedShows ==
  LET feed == Recent(RecentLimit)
      made == {i \in 1..seq : log[i].kind \in {"request.created", "answer.created"}}
  IN  /\ \A i \in made :
           /\ Alive(log[i])
           /\ i > seq - EventBuffer
           /\ Cardinality({j \in made : j > i}) < RecentLimit
           => i \in feed
      /\ \A i, j \in feed : log[i] = log[j] => i = j

(* A client's statistics are nothing it can raise by itself: an answered   *)
(* ask was answered by someone else, and every answer given is to an ask   *)
(* of someone else (routes/answers.py:19-20, db.py:366-379).               *)
NoSelfPraise ==
  \A c \in Clients :
    LET s == ClientStats(c)
        helped == {answers[a].request : a \in {b \in DOMAIN answers : answers[b].solver # c}}
        others == UNION {AnswersTo(r) : r \in DOMAIN requests \ Asks(c)}
    IN  /\ s.total = s.open + s.closed
        /\ s.received = Cardinality(Asks(c) \cap helped)
        /\ s.given = Cardinality({a \in others : answers[a].solver = c})

(* The buffer gauge of /metrics and /health: between handlers the table    *)
(* has its size, but for one row for each event that a kill cut off from   *)
(* its trim and that no later trim has made up for: the next one takes     *)
(* them all at once (db.py:276-282).                                       *)
BufferBounded ==
  EventsBuffered <= EventBuffer + untrimmed + (IF job.at = "trim" THEN 1 ELSE 0)
=============================================================================
