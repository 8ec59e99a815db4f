---------------------------- MODULE Subscription ----------------------------
(***************************************************************************)
(* A stream of routes/sse.py with ?subscribe_to=Me over the server: an     *)
(* asker who waits for news of her own requests.                           *)
(*                                                                         *)
(* The filter decides row by row, when the generator reaches the row: the  *)
(* payload of request.created names the owner, for the other kinds it      *)
(* looks the request up in the tables of that moment - which may have      *)
(* moved on since the event, and since the rows were fetched - and caches  *)
(* what it finds, also that it found nothing, for this connection.         *)
(* request.accepted and answer.vote pass whomever they concern.            *)
(* The client comes back with the id of the last frame it received.        *)
(***************************************************************************)
EXTENDS EventLog

CONSTANTS Me,        \* the client that subscribes
          MaxBreaks  \* bound on broken connections

ASSUME SubscriberAssumption == Me \in Clients \ {None} /\ MaxBreaks \in Nat

VARIABLES open,   \* the generator runs
          last,   \* last_id
          rows,   \* the fetched rows it has not reached
          cache,  \* owner_cache
          sent,   \* the frames of this connection
          got,    \* the frames received on earlier connections
          breaks  \* how often the connection broke

stream  == <<open, last, rows, cache, sent, got, breaks>>
subVars == <<logVars, stream>>

SubInit == /\ LogInit
           /\ open = FALSE /\ last = 0 /\ rows = {} /\ cache = << >>
           /\ sent = {} /\ got = {} /\ breaks = 0

-----------------------------------------------------------------------------
LooksUp(i) ==
  log[i].kind \in {"answer.created", "request.closed", "request.deleted"}

OwnerNow(r) == IF r \in DOMAIN requests THEN requests[r].client ELSE None

(* Variant: without the cache.                                             *)
OwnerUncached(r) == OwnerNow(r)

Owner(r) == IF r \in DOMAIN cache THEN cache[r] ELSE OwnerNow(r)

(* Variant: a request that is gone might have been anybody's.              *)
MatchesUnknown(i) ==
  CASE log[i].kind = "request.created" -> log[i].client = Me
    [] LooksUp(i) -> Owner(log[i].request) \in {Me, None}
    [] OTHER -> TRUE

Matches(i) ==
  CASE log[i].kind = "request.created" -> log[i].client = Me
    [] LooksUp(i) -> Owner(log[i].request) = Me
    [] OTHER -> TRUE

(* Variant: the rows after a match are forgotten.                          *)
AdvanceOnce(R) ==
  LET hits == {i \in R : Matches(i)}
      done == IF hits = {} THEN R ELSE {i \in R : i <= Least(hits)}
  IN  /\ last' = Greatest(R) /\ rows' = {}
      /\ sent' = sent \cup (hits \cap done)
      /\ cache' = [r \in DOMAIN cache \cup {log[i].request : i \in {j \in done : LooksUp(j)}}
                     |-> Owner(r)]
      /\ UNCHANGED <<open, got, breaks>>

(* Variant: a row that does not match leaves last_id where it was.         *)
AdvanceStuck(R) ==
  LET hits == {i \in R : Matches(i)}
      done == IF hits = {} THEN R ELSE {i \in R : i <= Least(hits)}
  IN  /\ last' = Greatest({last} \cup (hits \cap done)) /\ rows' = R \ done
      /\ sent' = sent \cup (hits \cap done)
      /\ cache' = [r \in DOMAIN cache \cup {log[i].request : i \in {j \in done : LooksUp(j)}}
                     |-> Owner(r)]
      /\ UNCHANGED <<open, got, breaks>>

(* The for loop over R up to the next frame: the yield suspends it, a row  *)
(* that does not match does not.                                           *)
Advance(R) ==
  LET hits == {i \in R : Matches(i)}
      done == IF hits = {} THEN R ELSE {i \in R : i <= Least(hits)}
  IN  /\ last' = Greatest(done) /\ rows' = R \ done
      /\ sent' = sent \cup (hits \cap done)
      /\ cache' = [r \in DOMAIN cache \cup {log[i].request : i \in {j \in done : LooksUp(j)}}
                     |-> Owner(r)]
      /\ UNCHANGED <<open, got, breaks>>

-----------------------------------------------------------------------------
(* Variant: the client's cursor is not taken over.                         *)
ConnectAfresh ==
  /\ ~open /\ Serving
  /\ open' = TRUE
  /\ last' = 0
  /\ UNCHANGED <<logVars, rows, cache, sent, got, breaks>>

Connect ==
  /\ ~open /\ Serving
  /\ open' = TRUE
  /\ last' = Greatest({0} \cup got)
  /\ UNCHANGED <<logVars, rows, cache, sent, got, breaks>>

Unread == RowsAfter(table, last, Batch)

(* A round of the loop that finds rows: a batch of them, after which the   *)
(* generator sleeps before the next, whether it yielded or not.            *)
Poll == /\ open /\ rows = {} /\ Serving
        /\ Unread # {}
        /\ Advance(Unread)
        /\ UNCHANGED logVars

(* The generator is resumed after a frame.                                 *)
Resume == /\ rows # {} /\ Serving
          /\ Advance(rows)
          /\ UNCHANGED logVars

(* The connection and the generator end; the client has received the       *)
(* frames up to some k of those sent.                                      *)
Close == /\ open' = FALSE /\ rows' = {} /\ cache' = << >> /\ last' = 0
         /\ \E k \in {0} \cup sent : got' = got \cup {i \in sent : i <= k}
         /\ sent' = {}

Break == /\ open /\ breaks < MaxBreaks
         /\ breaks' = breaks + 1
         /\ Close
         /\ UNCHANGED logVars

(* A step of the server; a kill takes the generator along.                 *)
ServerStep ==
  /\ LogNext
  /\ IF up' \/ ~open THEN UNCHANGED stream ELSE Close /\ UNCHANGED breaks

SubNext == ServerStep \/ Connect \/ Poll \/ Resume \/ Break

SubSpec == SubInit /\ [][SubNext]_subVars

(* The event loop ends a handler it has begun and runs each generator that *)
(* can go on, Docker restarts a killed server, an EventSource reconnects;  *)
(* nothing makes a client write or a connection break.  Weak fairness is   *)
(* enough, because the bounds let the writers come to rest.                *)
FairSubSpec ==
  /\ SubSpec
  /\ WF_subVars(ServerStep /\ (job # Idle \/ ~up))
  /\ WF_subVars(Connect) /\ WF_subVars(Poll) /\ WF_subVars(Resume)

-----------------------------------------------------------------------------
Heard == got \cup sent

Mine(r) == r \in DOMAIN requests /\ requests[r].client = Me

StreamOK ==
  /\ Len(log) = seq
  /\ got \cup sent \cup rows \subseteq 1..seq /\ last \in 0..seq
  /\ \A i \in got, j \in sent : i < j
  /\ \A i \in sent, j \in rows : i <= last /\ last < j
  /\ ~open => rows = {} /\ sent = {} /\ DOMAIN cache = {}
  /\ \A r \in DOMAIN cache : cache[r] \in Clients \cup {None}

(* An asker whose stream has read everything has heard every event in the  *)
(* buffer about each of her requests that still exists, and the creation   *)
(* of those that do not: no lookup at a bad moment, lost frame, or         *)
(* reconnection leaves one out (sse.py:33-51).                             *)
HearsOwn ==
  open /\ rows = {} /\ Unread = {} =>
    \A i \in table :
      Mine(log[i].request) \/ log[i] = Created(log[i].request, Me) => i \in Heard

(* Whom this connection has told of an answer to a request of hers, or of  *)
(* its closing, it also tells that the request was deleted, although the   *)
(* row is gone by then (sse.py:25-29).  To others the filter drops the     *)
(* event (sse.py:44-49): request.created does not fill the cache.          *)
HearsDeletion ==
  \A i \in table :
    /\ log[i].kind = "request.deleted"
    /\ i <= last
    /\ \E j \in sent \cap About(log[i].request) :
         log[j].kind \in {"answer.created", "request.closed"}
    => i \in sent

Others(r) == \/ r \in DOMAIN requests /\ requests[r].client # Me
             \/ \E i \in About(r) : \E c \in Clients \ {Me} : log[i] = Created(r, c)

(* Of the kinds the filter knows she hears nothing about the requests of   *)
(* others, not even when the tables no longer say whose they were          *)
(* (sse.py:33-49).                                                         *)
HearsOnlyOwn ==
  \A i \in Heard :
    LooksUp(i) \/ log[i].kind = "request.created" => ~Others(log[i].request)

(* Answer a to a request of hers is still to be heard of.                  *)
Awaited(a) ==
  /\ a \in DOMAIN answers
  /\ Mine(answers[a].request)
  /\ answers[a].request \notin torn
  /\ LET told == {i \in 1..seq : log[i] = Answered(answers[a].request, a)}
     IN  told \subseteq table /\ told \cap Heard = {}

(* "so an asker can wait for answers" (CHANGELOG.md:22): each answer to a  *)
(* request of hers reaches her, unless the request is deleted or the event *)
(* leaves the buffer before.                                               *)
AnswersArrive == \A a \in Answers : Awaited(a) ~> ~Awaited(a)
=============================================================================
